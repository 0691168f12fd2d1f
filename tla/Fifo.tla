-------------------------------- MODULE Fifo --------------------------------
(***************************************************************************)
(* fifo_t of fifo.c: a ring of Length bytes, at most Length - 1 of them in *)
(* use.  A ring is a record with the fields of fifo_t.                     *)
(***************************************************************************)
EXTENDS Integers, Sequences

CONSTANTS
    Length,  \* fifo_t.length
    NoByte   \* a cell that was never written

ASSUME FifoAssumption == Length \in Nat /\ Length > 1

Cells == 0 .. Length - 1

fifo_init == [buf |-> [c \in Cells |-> NoByte], head |-> 0, tail |-> 0]

fifo_next(pos) == (pos + 1) % Length

fifo_empty(f) == f.head = f.tail

fifo_full(f) == fifo_next(f.tail) = f.head

\* The byte fifo_get returns, and the ring it leaves; the ring is not empty.
FirstByte(f) == f.buf[f.head]

AfterGet(f) == [f EXCEPT !.head = fifo_next(@)]

\* fifo_put into a full ring drops the oldest byte.
AfterPut(f, byte) ==
    LET g == IF fifo_full(f) THEN AfterGet(f) ELSE f
    IN  [g EXCEPT !.buf[g.tail] = byte, !.tail = fifo_next(@)]

\* What the ring holds, oldest first.
Contents(f) ==
    [i \in 1 .. (f.tail - f.head) % Length |-> f.buf[(f.head + i - 1) % Length]]
=============================================================================
