------------------------------ MODULE RingBuf ------------------------------
(***************************************************************************)
(* The ring buffer of src/src/ringbuf.c.  A whad_ringbuf_t is a record     *)
(* [head, tail, data]; one slot is always left free, so that head = tail   *)
(* means empty and RingSize - 1 bytes fit.  A C function that may refuse   *)
(* is a pair of operators: CanX is the test that guards it and X the ring  *)
(* it leaves (or the bytes it copies out) when the test passes.            *)
(***************************************************************************)
EXTENDS Integers, Sequences

CONSTANTS
  RingSize,   \* WHAD_RINGBUF_MAX_SIZE, the number of slots
  Byte,       \* what a slot holds
  Zero        \* what static storage holds before the first write

ASSUME RingAssumption == /\ RingSize \in Nat \ {0, 1}
                         /\ Zero \in Byte

Index == 0 .. RingSize - 1
RingCapacity == RingSize - 1
Ring == [head : Index, tail : Index, data : [Index -> Byte]]

\* A statically allocated ring after whad_ringbuf_init.
EmptyRing == [head |-> 0, tail |-> 0, data |-> [i \in Index |-> Zero]]

RingUsed(r) == (RingSize + r.head - r.tail) % RingSize
RingFree(r) == RingCapacity - RingUsed(r)

\* Faulty variant: the slot kept free is used too.
CanPush_NoSpare(r) == RingFree(r) >= 0
CanPush(r) == RingFree(r) > 0
Push(r, b) == [head |-> (r.head + 1) % RingSize,
               tail |-> r.tail,
               data |-> [r.data EXCEPT ![r.head] = b]]

\* The ring after pushing every byte of s, when there is room for them all.
PushAll(r, s) ==
  [r EXCEPT !.head = (@ + Len(s)) % RingSize,
            !.data = [i \in Index |->
               LET k == (RingSize + i - r.head) % RingSize
               IN  IF k < Len(s) THEN s[k + 1] ELSE r.data[i]]]

CanPull(r) == RingUsed(r) > 0
PullByte(r) == r.data[r.tail]
Pull(r) == [r EXCEPT !.tail = (@ + 1) % RingSize]

\* whad_ringbuf_copy: the two memcpy calls, before and after the wrap.
CanCopy(r, n) == n <= RingUsed(r)
FirstHalf(r, n) == IF r.tail + n > RingSize THEN RingSize - r.tail ELSE n
Copy(r, n) ==
  LET fh == FirstHalf(r, n)
      sh == IF r.tail + n > RingSize THEN (n - fh) % RingSize ELSE 0
  IN  [i \in 1 .. fh + sh |-> IF i <= fh THEN r.data[r.tail + i - 1]
                                         ELSE r.data[i - fh - 1]]

CanSkip(r, n) == n <= RingUsed(r)
\* Faulty variant: the tail does not wrap.
Skip_NoWrap(r, n) == [r EXCEPT !.tail = @ + n]
Skip(r, n) == [r EXCEPT !.tail = (@ + n) % RingSize]

(***************************************************************************)
(* The abstract value of a ring: the bytes it holds, oldest first.         *)
(***************************************************************************)
Slot(r, i) == (r.tail + (i - 1)) % RingSize
Contents(r) == [i \in 1 .. RingUsed(r) |-> r.data[Slot(r, i)]]
=============================================================================
