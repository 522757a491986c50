------------------------------ MODULE ByteFifo ------------------------------
(***************************************************************************)
(* What src/inc/ringbuf.h promises its callers: a bounded first-in         *)
(* first-out queue of bytes that can be read without being consumed.       *)
(* Each operation leaves in out the call made and what the C function hands *)
(* back: its result code and the bytes it stored through its pointer.      *)
(***************************************************************************)
EXTENDS Naturals, Sequences

CONSTANTS Capacity, Byte

VARIABLES queue, out

fifoVars == <<queue, out>>

FifoInit == /\ queue = <<>>
            /\ out = <<<<"init">>, "SUCCESS", <<>>>>

FifoPush(b) ==
  \/ /\ Len(queue) < Capacity
     /\ queue' = Append(queue, b)
     /\ out' = <<<<"push", b>>, "SUCCESS", <<>>>>
  \/ /\ Len(queue) = Capacity
     /\ out' = <<<<"push", b>>, "RINGBUF_FULL", <<>>>>
     /\ UNCHANGED queue

FifoPull ==
  \/ /\ queue # <<>>
     /\ out' = <<<<"pull">>, "SUCCESS", <<Head(queue)>>>>
     /\ queue' = Tail(queue)
  \/ /\ queue = <<>>
     /\ out' = <<<<"pull">>, "RINGBUF_EMPTY", <<>>>>
     /\ UNCHANGED queue

FifoCopy(n) ==
  /\ out' = IF n <= Len(queue) THEN <<<<"copy", n>>, "SUCCESS", SubSeq(queue, 1, n)>>
                               ELSE <<<<"copy", n>>, "ERROR", <<>>>>
  /\ UNCHANGED queue

FifoSkip(n) ==
  \/ /\ n <= Len(queue)
     /\ queue' = SubSeq(queue, n + 1, Len(queue))
     /\ out' = <<<<"skip", n>>, "SUCCESS", <<>>>>
  \/ /\ n > Len(queue)
     /\ out' = <<<<"skip", n>>, "ERROR", <<>>>>
     /\ UNCHANGED queue

FifoNext == \/ \E b \in Byte : FifoPush(b)
            \/ FifoPull
            \/ \E n \in 0 .. Capacity + 1 : FifoCopy(n) \/ FifoSkip(n)

FifoSpec == FifoInit /\ [][FifoNext]_fifoVars
=============================================================================
