--------------------------- MODULE RingBufMachine ---------------------------
(***************************************************************************)
(* The ring buffer as a state machine: a client that calls the functions   *)
(* of src/src/ringbuf.c in any order with any argument, including the      *)
(* ones the functions refuse.                                              *)
(***************************************************************************)
EXTENDS RingBuf

VARIABLES
  ring,   \* the whad_ringbuf_t
  out     \* the last call, its result code and the bytes it handed back

vars == <<ring, out>>

Init == /\ ring = EmptyRing
        /\ out = <<<<"init">>, "SUCCESS", <<>>>>

DoPush(b) ==
  \/ /\ CanPush(ring)
     /\ ring' = Push(ring, b)
     /\ out' = <<<<"push", b>>, "SUCCESS", <<>>>>
  \/ /\ ~CanPush(ring)
     /\ out' = <<<<"push", b>>, "RINGBUF_FULL", <<>>>>
     /\ UNCHANGED ring

DoPull ==
  \/ /\ CanPull(ring)
     /\ out' = <<<<"pull">>, "SUCCESS", <<PullByte(ring)>>>>
     /\ ring' = Pull(ring)
  \/ /\ ~CanPull(ring)
     /\ out' = <<<<"pull">>, "RINGBUF_EMPTY", <<>>>>
     /\ UNCHANGED ring

DoCopy(n) ==
  /\ out' = IF CanCopy(ring, n) THEN <<<<"copy", n>>, "SUCCESS", Copy(ring, n)>>
                                ELSE <<<<"copy", n>>, "ERROR", <<>>>>
  /\ UNCHANGED ring

DoSkip(n) ==
  \/ /\ CanSkip(ring, n)
     /\ ring' = Skip(ring, n)
     /\ out' = <<<<"skip", n>>, "SUCCESS", <<>>>>
  \/ /\ ~CanSkip(ring, n)
     /\ out' = <<<<"skip", n>>, "ERROR", <<>>>>
     /\ UNCHANGED ring

Next == \/ \E b \in Byte : DoPush(b)
        \/ DoPull
        \/ \E n \in 0 .. RingSize : DoCopy(n) \/ DoSkip(n)

Spec == Init /\ [][Next]_vars
-----------------------------------------------------------------------------
\* Both indices of the ring stay inside data[] and every slot holds a byte,
\* whatever sequence of push, pull, copy and skip the callers make.
TypeOK == ring \in Ring

Fifo == INSTANCE ByteFifo WITH
          Capacity <- RingCapacity, queue <- Contents(ring)

\* Through every wrap of head and tail, the bytes handed back by pull and copy
\* are the pushed ones, oldest first, each once, and a full or an empty ring
\* refuses exactly when the bounded queue does: ringbuf.c implements ByteFifo.
FifoRefinement == Fifo!FifoSpec
=============================================================================
