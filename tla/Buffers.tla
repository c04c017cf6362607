------------------------------ MODULE Buffers -------------------------------
(***************************************************************************)
(* The buffers that files are written and read through, as operators on    *)
(* their contents.  A content is a sequence of cells; what a cell holds is *)
(* for the module that writes it to say.                                   *)
(***************************************************************************)
EXTENDS Naturals, Sequences, SequencesExt

(***************************************************************************)
(* buffer<>                                                                *)
(***************************************************************************)
NewBuffer(n) == [capa |-> n, data |-> <<>>]

\* Mutant: what the buffer holds is not counted.
LeftWhenEmpty(b) == b.capa

Left(b) == b.capa - Len(b.data)
IsFull(b) == Left(b) = 0

\* append copies all of the cells, or none if they do not fit.
AppendTo(b, cells) ==
    IF Left(b) < Len(cells) THEN b ELSE [b EXCEPT !.data = @ \o cells]

\* turncate
Emptied(b) == [b EXCEPT !.data = <<>>]

(***************************************************************************)
(* iouring_writable: a buffer before a file that is only appended to.  An  *)
(* unbuffered file has a buffer of no capacity.                            *)
(***************************************************************************)
NewWritable(capacity, content) == [buffer |-> NewBuffer(capacity), file |-> content]

\* Mutant: what was written stays in the buffer.
FlushKeeps(w) == [w EXCEPT !.file = @ \o w.buffer.data]

\* Mutant: one cell less than the buffer holds is written.
FlushCut(w) ==
    [buffer |-> Emptied(w.buffer), file |-> w.file \o SubSeq(w.buffer.data, 1, Len(w.buffer.data) - 1)]

\* flush_valid
FlushValid(w) == [buffer |-> Emptied(w.buffer), file |-> w.file \o w.buffer.data]

FlushedIfFull(w) == IF IsFull(w.buffer) THEN FlushValid(w) ELSE w

\* Mutant: cells are appended whether or not they fit.
AppendUnchecked(w, cells) == [w EXCEPT !.buffer.data = @ \o cells]

\* append.  What does not fit is written behind the buffer, past it if it is
\* as large as the whole buffer.  An unbuffered file writes the valid part of
\* its buffer, of which there is none, for the cells.
AppendFile(w, cells) ==
    LET flushed == FlushValid(w)
    IN  CASE w.buffer.capa = 0 -> w
          [] w.buffer.capa > 0 /\ Len(cells) <= Left(w.buffer) ->
                FlushedIfFull([w EXCEPT !.buffer = AppendTo(@, cells)])
          [] w.buffer.capa > 0 /\ Len(cells) > Left(w.buffer) ->
                IF Len(cells) >= Left(flushed.buffer)
                THEN [flushed EXCEPT !.file = @ \o cells]
                ELSE [flushed EXCEPT !.buffer = AppendTo(@, cells)]

\* The n cells from an offset on, or those that there are.
Cells(s, offset, n) == SubSeq(s, offset + 1, Min({offset + n, Len(s)}))

(***************************************************************************)
(* in_mem_rw: a file in memory, of buffers of one size.                    *)
(***************************************************************************)
NewInMem(n) == [size |-> n, blocks |-> <<NewBuffer(n)>>]

\* Mutant: no buffer is added.
SameBlocks(m) == m

\* next_writable_buffer
WithRoom(m) ==
    IF IsFull(Last(m.blocks)) THEN [m EXCEPT !.blocks = Append(@, NewBuffer(m.size))] ELSE m

\* The size of writable_span.
Room(m) == Left(Last(WithRoom(m).blocks))

\* commit, of cells that were read into writable_span.
InMemCommit(m, cells) ==
    LET r == WithRoom(m)
    IN  [r EXCEPT !.blocks[Len(r.blocks)] = AppendTo(@, cells)]

\* append fills the last buffer, and then one new buffer after the other.
InMemAppend(m, cells) ==
    LET r == WithRoom(m)
        room == Left(Last(r.blocks))
        more == SubSeq(cells, room + 1, Len(cells))
        added == [i \in 1 .. (Len(more) + m.size - 1) \div m.size |->
                    AppendTo(NewBuffer(m.size), Cells(more, (i - 1) * m.size, m.size))]
    IN  [r EXCEPT !.blocks =
           Front(@) \o <<AppendTo(Last(@), Cells(cells, 0, room))>> \o added]

\* file_size
InMemContent(m) == FlattenSeq([i \in DOMAIN m.blocks |-> m.blocks[i].data])
InMemSize(m) == Len(InMemContent(m))

\* Mutant: the first buffer is read from its beginning.
WholeSpans(m, offset) ==
    [i \in 1 .. Len(m.blocks) - (offset \div m.size) |->
        m.blocks[(offset \div m.size) + i].data]

\* target_spans: the buffers from the one the offset is in, by their size.
TargetSpans(m, offset) ==
    LET first == offset \div m.size + 1
    IN  [i \in 1 .. (Len(m.blocks) + 1 - first) |->
            LET data == m.blocks[first + i - 1].data
            IN  IF i = 1 THEN SubSeq(data, (offset % m.size) + 1, Len(data)) ELSE data]

\* read stops at a buffer that is empty.
InMemRead(m, offset, n) ==
    LET spans == TargetSpans(m, offset)
        upTo == SelectInSeq(spans, LAMBDA s : s = <<>>)
    IN  Cells(FlattenSeq(IF upTo = 0 THEN spans ELSE SubSeq(spans, 1, upTo - 1)), 0, n)

\* dump_to: the buffers that are not empty, each of them appended to a file.
Spans(m) ==
    FlattenSeq([i \in DOMAIN m.blocks |->
                  IF m.blocks[i].data = <<>> THEN <<>> ELSE <<m.blocks[i].data>>])
=============================================================================
