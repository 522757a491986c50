------------------------ MODULE RingBufMachineProofs ------------------------
(***************************************************************************)
(* ringbuf.c implements the bounded queue ByteFifo, for every ring size.   *)
(***************************************************************************)
EXTENDS RingBufMachine, RingBufProofs

\* Head and tail stay inside data[] whatever calls are made.
THEOREM RingTypeCorrect == Spec => []TypeOK
<1>1. Init => TypeOK
  BY RingAssumption DEF Init, TypeOK, EmptyRing, Ring, Index
<1>2. TypeOK /\ [Next]_vars => TypeOK'
  <2> SUFFICES ASSUME TypeOK, [Next]_vars
               PROVE  TypeOK'
    OBVIOUS
  <2> USE DEF TypeOK
  <2>1. ASSUME NEW b \in Byte, DoPush(b)
        PROVE  TypeOK'
    BY <2>1, PushFacts DEF DoPush
  <2>2. CASE DoPull
    BY <2>2, PullFacts DEF DoPull
  <2>3. ASSUME NEW n \in 0 .. RingSize, DoCopy(n)
        PROVE  TypeOK'
    BY <2>3 DEF DoCopy
  <2>4. ASSUME NEW n \in 0 .. RingSize, DoSkip(n)
        PROVE  TypeOK'
    BY <2>4, SkipFacts DEF DoSkip
  <2>5. CASE UNCHANGED vars
    BY <2>5 DEF vars
  <2> QED BY <2>1, <2>2, <2>3, <2>4, <2>5 DEF Next
<1> QED BY <1>1, <1>2, PTL DEF Spec

\* The queue a ring stands for is never longer than its capacity, and the ring
\* refuses a push exactly when the queue is full.
LEMMA QueueLength ==
  ASSUME NEW r \in Ring
  PROVE  /\ Len(Contents(r)) \in 0 .. RingCapacity
         /\ CanPush(r) <=> Len(Contents(r)) < RingCapacity
         /\ ~CanPush(r) <=> Len(Contents(r)) = RingCapacity
         /\ CanPull(r) <=> Contents(r) # <<>>
<1>1. /\ Len(Contents(r)) = RingUsed(r) /\ Contents(r) \in Seq(Byte)
      /\ RingUsed(r) \in 0 .. RingCapacity
  BY ContentsType, UsedCases
<1>2. RingCapacity \in Nat
  BY RingAssumption DEF RingCapacity
<1>3. Contents(r) # <<>> <=> RingUsed(r) > 0
  BY <1>1
<1> QED BY <1>1, <1>2, <1>3 DEF CanPush, CanPull, RingFree

\* Each call of the ring is the same call of the bounded queue.
THEOREM RingImplementsFifo == Spec => FifoRefinement
<1>1. Init => Fifo!FifoInit
  <2> SUFFICES ASSUME Init
               PROVE  Fifo!FifoInit
    OBVIOUS
  <2>1. EmptyRing \in Ring /\ RingSize \in Nat \ {0}
    BY RingAssumption DEF EmptyRing, Ring, Index
  <2>2. RingUsed(EmptyRing) = 0
    BY <2>1, UsedCases DEF EmptyRing
  <2>3. Contents(EmptyRing) = <<>>
    BY <2>1, <2>2, ContentsType, EmptySeq
  <2> QED BY <2>3 DEF Init, Fifo!FifoInit
<1>2. TypeOK /\ [Next]_vars => [Fifo!FifoNext]_(Fifo!fifoVars)
  <2> SUFFICES ASSUME TypeOK, [Next]_vars
               PROVE  [Fifo!FifoNext]_(Fifo!fifoVars)
    OBVIOUS
  <2>0. ring \in Ring /\ RingCapacity \in Nat
    BY RingAssumption DEF TypeOK, RingCapacity
  <2> DEFINE q == Contents(ring)
  <2>00. q \in Seq(Byte) /\ Len(q) = RingUsed(ring)
    BY <2>0, ContentsType
  <2>1. ASSUME NEW b \in Byte, DoPush(b)
        PROVE  Fifo!FifoPush(b)
    <3>1. CASE CanPush(ring)
      <4>1. Len(q) < RingCapacity /\ q' = Append(q, b)
        BY <2>0, <2>1, <3>1, PushFacts, QueueLength DEF DoPush
      <4> QED BY <2>1, <3>1, <4>1 DEF DoPush, Fifo!FifoPush
    <3>2. CASE ~CanPush(ring)
      <4>1. Len(q) = RingCapacity /\ q' = q
        BY <2>0, <2>1, <3>2, QueueLength DEF DoPush
      <4> QED BY <2>1, <3>2, <4>1 DEF DoPush, Fifo!FifoPush
    <3> QED BY <3>1, <3>2
  <2>2. ASSUME DoPull
        PROVE  Fifo!FifoPull
    <3>1. CASE CanPull(ring)
      <4>1. q # <<>> /\ PullByte(ring) = Head(q) /\ q' = Tail(q)
        BY <2>0, <2>2, <3>1, PullFacts DEF DoPull
      <4> QED BY <2>2, <3>1, <4>1 DEF DoPull, Fifo!FifoPull
    <3>2. CASE ~CanPull(ring)
      <4>1. q = <<>> /\ q' = q
        BY <2>0, <2>2, <3>2, QueueLength DEF DoPull
      <4> QED BY <2>2, <3>2, <4>1 DEF DoPull, Fifo!FifoPull
    <3> QED BY <3>1, <3>2
  <2>3. ASSUME NEW n \in 0 .. RingSize, DoCopy(n)
        PROVE  Fifo!FifoCopy(n)
    <3>1. CanCopy(ring, n) <=> n <= Len(q)
      BY <2>00 DEF CanCopy
    <3>2. CanCopy(ring, n) => Copy(ring, n) = SubSeq(q, 1, n)
      BY <2>0, RingAssumption, CopyFacts
    <3> QED BY <2>3, <3>1, <3>2 DEF DoCopy, Fifo!FifoCopy
  <2>4. ASSUME NEW n \in 0 .. RingSize, DoSkip(n)
        PROVE  Fifo!FifoSkip(n)
    <3>0. n \in Nat /\ Len(q) \in Nat
      BY <2>00, RingAssumption
    <3>1. CASE CanSkip(ring, n)
      <4>1. n <= Len(q) /\ q' = SubSeq(q, n + 1, Len(q))
        BY <2>0, <2>00, <2>4, <3>0, <3>1, SkipFacts DEF DoSkip, CanSkip
      <4> QED BY <2>4, <3>1, <4>1 DEF DoSkip, Fifo!FifoSkip
    <3>2. CASE ~CanSkip(ring, n)
      <4>1. n > Len(q) /\ q' = q
        BY <2>00, <2>4, <3>0, <3>2 DEF DoSkip, CanSkip
      <4> QED BY <2>4, <3>2, <4>1 DEF DoSkip, Fifo!FifoSkip
    <3> QED BY <3>1, <3>2
  <2>5. CASE UNCHANGED vars
    BY <2>5 DEF vars, Fifo!fifoVars
  <2>6. 0 .. RingSize = 0 .. RingCapacity + 1
    BY RingAssumption DEF RingCapacity
  <2> QED BY <2>1, <2>2, <2>3, <2>4, <2>5, <2>6 DEF Next, Fifo!FifoNext
<1> QED BY <1>1, <1>2, RingTypeCorrect, PTL DEF Spec, FifoRefinement, Fifo!FifoSpec
=============================================================================
