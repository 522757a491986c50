--------------------------- MODULE RingBufProofs ---------------------------
(***************************************************************************)
(* Facts about the ring operators of RingBuf, for every RingSize.          *)
(***************************************************************************)
EXTENDS RingBuf, SequenceTheorems, TLAPS

\* An index computation that stays below twice the ring size.
LEMMA ModCases ==
  ASSUME NEW n \in Nat \ {0}, NEW x \in Nat, x < n + n
  PROVE  x % n = IF x < n THEN x ELSE x - n
<1>1. CASE x < n
  BY <1>1
<1>2. CASE ~(x < n)
  BY <1>2
<1> QED BY <1>1, <1>2

\* whad_ringbuf_get_size without the modulo.
LEMMA UsedCases ==
  ASSUME NEW r \in Ring
  PROVE  /\ RingUsed(r) = IF r.head >= r.tail THEN r.head - r.tail
                          ELSE RingSize + r.head - r.tail
         /\ RingUsed(r) \in 0 .. RingCapacity
         /\ RingFree(r) \in 0 .. RingCapacity
<1>0. /\ RingSize \in Nat \ {0} /\ r.head \in Nat /\ r.tail \in Nat
      /\ r.head < RingSize /\ r.tail < RingSize
  BY RingAssumption DEF Ring, Index
<1> DEFINE x == RingSize + r.head - r.tail
<1>1. x \in Nat /\ x < RingSize + RingSize
  BY <1>0
<1>2. x % RingSize = IF x < RingSize THEN x ELSE x - RingSize
  <2> HIDE DEF x
  <2> QED BY <1>0, <1>1, ModCases
<1> QED BY <1>0, <1>2 DEF RingUsed, RingFree, RingCapacity

\* The index d places after i, without the modulo.
LEMMA NextIndex ==
  ASSUME NEW i \in Index, NEW d \in 0 .. RingSize
  PROVE  /\ (i + d) % RingSize \in Index
         /\ (i + d) % RingSize =
              IF i + d < RingSize THEN i + d ELSE i + d - RingSize
<1>0. RingSize \in Nat \ {0} /\ i \in Nat /\ i < RingSize
  BY RingAssumption DEF Index
<1> DEFINE x == i + d
<1>1. x \in Nat /\ x < RingSize + RingSize
  BY <1>0
<1>2. x % RingSize = IF x < RingSize THEN x ELSE x - RingSize
  <2> HIDE DEF x
  <2> QED BY <1>0, <1>1, ModCases
<1> QED BY <1>0, <1>2 DEF Index

\* The slot of the i-th queued byte, without the modulo.
LEMMA SlotCases ==
  ASSUME NEW r \in Ring, NEW i \in 1 .. RingSize
  PROVE  /\ Slot(r, i) \in Index
         /\ Slot(r, i) = IF r.tail + i <= RingSize THEN r.tail + i - 1
                        ELSE r.tail + i - 1 - RingSize
<1>1. r.tail \in Index /\ i - 1 \in 0 .. RingSize
  BY RingAssumption DEF Ring
<1>2. r.tail \in Nat /\ RingSize \in Nat /\ i \in Nat
  BY <1>1, RingAssumption DEF Index
<1>3. (r.tail + (i - 1)) % RingSize =
        IF r.tail + (i - 1) < RingSize THEN r.tail + (i - 1)
        ELSE r.tail + (i - 1) - RingSize
  BY <1>1, NextIndex
<1>4. Slot(r, i) \in Index
  BY <1>1, NextIndex DEF Slot
<1> QED BY <1>2, <1>3, <1>4 DEF Slot

\* The abstract value of a ring is a sequence of bytes of the right length.
LEMMA ContentsType ==
  ASSUME NEW r \in Ring
  PROVE  /\ Contents(r) \in Seq(Byte)
         /\ Len(Contents(r)) = RingUsed(r)
         /\ \A i \in 1 .. RingUsed(r) : Contents(r)[i] = r.data[Slot(r, i)]
<1>1. RingUsed(r) \in Nat /\ RingUsed(r) < RingSize /\ RingSize \in Nat
  BY UsedCases, RingAssumption DEF RingCapacity
<1>2. \A i \in 1 .. RingUsed(r) : r.data[Slot(r, i)] \in Byte
  BY <1>1, SlotCases DEF Ring
<1> QED BY <1>1, <1>2 DEF Contents

\* whad_ringbuf_push adds its byte at the end and disturbs no other.
LEMMA PushFacts ==
  ASSUME NEW r \in Ring, NEW b \in Byte, CanPush(r)
  PROVE  /\ Push(r, b) \in Ring
         /\ RingUsed(Push(r, b)) = RingUsed(r) + 1
         /\ Contents(Push(r, b)) = Append(Contents(r), b)
<1> DEFINE p == Push(r, b)
           u == RingUsed(r)
<1>0. /\ RingSize \in Nat /\ RingSize > 1
      /\ r.head \in Index /\ r.tail \in Index /\ r.data \in [Index -> Byte]
      /\ r.head \in Nat /\ r.tail \in Nat /\ r.head < RingSize /\ r.tail < RingSize
      /\ 1 \in 0 .. RingSize
  BY RingAssumption DEF Ring, Index
<1>1. /\ (r.head + 1) % RingSize \in Index
      /\ p.head = IF r.head + 1 < RingSize THEN r.head + 1 ELSE r.head + 1 - RingSize
      /\ p.tail = r.tail
      /\ p.data = [r.data EXCEPT ![r.head] = b]
  BY <1>0, NextIndex DEF Push
<1>2. p \in Ring
  BY <1>0, <1>1 DEF Push, Ring
<1>3. u \in Nat /\ u < RingSize - 1
  BY <1>0, UsedCases DEF CanPush, RingFree, RingCapacity
<1>4. RingUsed(p) = u + 1
  <2>1. u = IF r.head >= r.tail THEN r.head - r.tail ELSE RingSize + r.head - r.tail
    BY UsedCases
  <2>2. RingUsed(p) = IF p.head >= p.tail THEN p.head - p.tail
                      ELSE RingSize + p.head - p.tail
    BY <1>2, UsedCases
  <2> HIDE DEF p, u
  <2> QED BY <1>0, <1>1, <1>3, <2>1, <2>2
<1>5. \A i \in 1 .. u : Slot(r, i) \in Index /\ Slot(r, i) # r.head
  <2> SUFFICES ASSUME NEW i \in 1 .. u
               PROVE  Slot(r, i) \in Index /\ Slot(r, i) # r.head
    OBVIOUS
  <2>1. i \in 1 .. RingSize
    BY <1>0, <1>3
  <2>2. u = IF r.head >= r.tail THEN r.head - r.tail ELSE RingSize + r.head - r.tail
    BY UsedCases
  <2>3. Slot(r, i) = IF r.tail + i <= RingSize THEN r.tail + i - 1
                     ELSE r.tail + i - 1 - RingSize
    BY <2>1, SlotCases
  <2>4. Slot(r, i) \in Index
    BY <2>1, SlotCases
  <2> HIDE DEF u
  <2> QED BY <1>0, <1>3, <2>2, <2>3, <2>4
<1>6. Slot(r, u + 1) = r.head
  <2>1. u + 1 \in 1 .. RingSize
    BY <1>0, <1>3
  <2>2. u = IF r.head >= r.tail THEN r.head - r.tail ELSE RingSize + r.head - r.tail
    BY UsedCases
  <2>3. Slot(r, u + 1) = IF r.tail + (u + 1) <= RingSize THEN r.tail + (u + 1) - 1
                         ELSE r.tail + (u + 1) - 1 - RingSize
    BY <2>1, SlotCases
  <2> HIDE DEF u
  <2> QED BY <1>0, <1>3, <2>2, <2>3
<1>7. \A i : Slot(p, i) = Slot(r, i)
  BY <1>1 DEF Slot
<1>8. \A i \in 1 .. u + 1 :
        p.data[Slot(p, i)] = IF i <= u THEN Contents(r)[i] ELSE b
  BY <1>0, <1>1, <1>3, <1>5, <1>6, <1>7, ContentsType
<1>9. Contents(p) = Append(Contents(r), b)
  <2>1. /\ Contents(p) \in Seq(Byte) /\ Len(Contents(p)) = u + 1
        /\ \A i \in 1 .. u + 1 : Contents(p)[i] = p.data[Slot(p, i)]
    BY <1>2, <1>4, ContentsType
  <2>2. Contents(r) \in Seq(Byte) /\ Len(Contents(r)) = u
    BY ContentsType
  <2>3. /\ Append(Contents(r), b) \in Seq(Byte)
        /\ Len(Append(Contents(r), b)) = u + 1
        /\ \A i \in 1 .. u : Append(Contents(r), b)[i] = Contents(r)[i]
        /\ Append(Contents(r), b)[u + 1] = b
    BY <2>2, AppendProperties
  <2> HIDE DEF p, u
  <2>4. \A i \in 1 .. u + 1 : Contents(p)[i] = Append(Contents(r), b)[i]
    BY <1>3, <1>8, <2>1, <2>3
  <2> QED BY <2>1, <2>3, <2>4, SeqEqual
<1> QED BY <1>2, <1>4, <1>9

\* A byte stored in the slot of the head is not queued until the head moves.
LEMMA StoreFacts ==
  ASSUME NEW r \in Ring, NEW b \in Byte
  PROVE  LET p == [r EXCEPT !.data[r.head] = b]
         IN  /\ p \in Ring /\ p.head = r.head /\ p.tail = r.tail /\ p.data[r.head] = b
             /\ RingUsed(p) = RingUsed(r) /\ Contents(p) = Contents(r)
<1> DEFINE p == [r EXCEPT !.data[r.head] = b]
           u == RingUsed(r)
<1>0. /\ RingSize \in Nat /\ RingSize > 1
      /\ r.head \in Index /\ r.tail \in Index /\ r.data \in [Index -> Byte]
      /\ r.head \in Nat /\ r.tail \in Nat /\ r.head < RingSize /\ r.tail < RingSize
  BY RingAssumption DEF Ring, Index
<1>1. /\ p.head = r.head /\ p.tail = r.tail /\ p.data = [r.data EXCEPT ![r.head] = b]
  BY DEF Ring
<1>2. p \in Ring /\ p.data[r.head] = b
  BY <1>0, <1>1 DEF Ring
<1>3. RingUsed(p) = u /\ u \in Nat /\ u < RingSize
  BY <1>0, <1>1, UsedCases DEF RingUsed, RingCapacity
<1>4. \A i \in 1 .. u : Slot(r, i) # r.head
  <2> SUFFICES ASSUME NEW i \in 1 .. u
               PROVE  Slot(r, i) # r.head
    OBVIOUS
  <2>1. i \in 1 .. RingSize
    BY <1>0, <1>3
  <2>2. u = IF r.head >= r.tail THEN r.head - r.tail ELSE RingSize + r.head - r.tail
    BY UsedCases
  <2>3. Slot(r, i) = IF r.tail + i <= RingSize THEN r.tail + i - 1
                     ELSE r.tail + i - 1 - RingSize
    BY <2>1, SlotCases
  <2> HIDE DEF u
  <2> QED BY <1>0, <1>3, <2>2, <2>3
<1>5. \A i \in 1 .. u : p.data[Slot(p, i)] = r.data[Slot(r, i)]
  <2>1. \A i : Slot(p, i) = Slot(r, i)
    BY <1>1 DEF Slot
  <2> QED BY <1>0, <1>1, <1>4, <2>1
<1>6. Contents(p) = Contents(r)
  BY <1>3, <1>5 DEF Contents
<1> QED BY <1>1, <1>2, <1>3, <1>6

\* Moving the head queues the byte found in its slot: with the store before it,
\* whad_ringbuf_push.
LEMMA HeadFacts ==
  ASSUME NEW r \in Ring, CanPush(r)
  PROVE  LET p == [r EXCEPT !.head = (r.head + 1) % RingSize]
         IN  p = Push(r, r.data[r.head]) /\ r.data[r.head] \in Byte
<1>1. r.head \in Index /\ r.data \in [Index -> Byte]
  BY DEF Ring
<1>2. [r.data EXCEPT ![r.head] = r.data[r.head]] = r.data
  BY <1>1
<1> QED BY <1>1, <1>2 DEF Push, Ring

\* whad_ringbuf_skip drops the n oldest bytes.
LEMMA SkipFacts ==
  ASSUME NEW r \in Ring, NEW n \in Nat, CanSkip(r, n)
  PROVE  /\ Skip(r, n) \in Ring
         /\ RingUsed(Skip(r, n)) = RingUsed(r) - n
         /\ Contents(Skip(r, n)) = SubSeq(Contents(r), n + 1, RingUsed(r))
<1> DEFINE p == Skip(r, n)
           u == RingUsed(r)
<1>0. /\ RingSize \in Nat /\ RingSize > 1
      /\ r.head \in Index /\ r.tail \in Index /\ r.data \in [Index -> Byte]
      /\ r.head \in Nat /\ r.tail \in Nat /\ r.head < RingSize /\ r.tail < RingSize
  BY RingAssumption DEF Ring, Index
<1>1. u \in Nat /\ u < RingSize /\ n <= u
  BY <1>0, UsedCases DEF CanSkip, RingCapacity
<1>2. /\ (r.tail + n) % RingSize \in Index
      /\ p.tail = IF r.tail + n < RingSize THEN r.tail + n ELSE r.tail + n - RingSize
      /\ p.head = r.head
      /\ p.data = r.data
  BY <1>0, <1>1, NextIndex DEF Skip, Ring
<1>3. p \in Ring
  BY <1>0, <1>2 DEF Skip, Ring
<1>4. RingUsed(p) = u - n
  <2>1. u = IF r.head >= r.tail THEN r.head - r.tail ELSE RingSize + r.head - r.tail
    BY UsedCases
  <2>2. RingUsed(p) = IF p.head >= p.tail THEN p.head - p.tail
                      ELSE RingSize + p.head - p.tail
    BY <1>3, UsedCases
  <2> HIDE DEF p, u
  <2> QED BY <1>0, <1>1, <1>2, <2>1, <2>2
<1>5. \A i \in 1 .. u - n : Slot(p, i) = Slot(r, n + i)
  <2> SUFFICES ASSUME NEW i \in 1 .. u - n
               PROVE  Slot(p, i) = Slot(r, n + i)
    OBVIOUS
  <2>1. i \in 1 .. RingSize /\ n + i \in 1 .. RingSize
    BY <1>0, <1>1
  <2>2. Slot(p, i) = IF p.tail + i <= RingSize THEN p.tail + i - 1
                     ELSE p.tail + i - 1 - RingSize
    BY <1>3, <2>1, SlotCases
  <2>3. Slot(r, n + i) = IF r.tail + (n + i) <= RingSize THEN r.tail + (n + i) - 1
                         ELSE r.tail + (n + i) - 1 - RingSize
    BY <2>1, SlotCases
  <2>4. i \in Nat /\ n + i < RingSize
    BY <1>0, <1>1
  <2> DEFINE pt == p.tail
             rt == r.tail
  <2>5. /\ pt = IF rt + n < RingSize THEN rt + n ELSE rt + n - RingSize
        /\ Slot(p, i) = IF pt + i <= RingSize THEN pt + i - 1 ELSE pt + i - 1 - RingSize
        /\ Slot(r, n + i) = IF rt + (n + i) <= RingSize THEN rt + (n + i) - 1
                            ELSE rt + (n + i) - 1 - RingSize
        /\ rt \in Nat /\ rt < RingSize
    BY <1>0, <1>2, <2>2, <2>3
  <2> HIDE DEF p, u, pt, rt
  <2>6. CASE rt + n < RingSize
    <3>1. pt = rt + n
      BY <2>5, <2>6
    <3> QED BY <1>0, <2>4, <2>5, <3>1
  <2>7. CASE ~(rt + n < RingSize)
    <3>1. pt = rt + n - RingSize
      BY <2>5, <2>7
    <3> QED BY <1>0, <2>4, <2>5, <2>7, <3>1
  <2> QED BY <2>6, <2>7
<1>6. Contents(p) = SubSeq(Contents(r), n + 1, u)
  <2> DEFINE t == SubSeq(Contents(r), n + 1, u)
  <2>1. /\ Contents(p) \in Seq(Byte) /\ Len(Contents(p)) = u - n
        /\ \A i \in 1 .. u - n : Contents(p)[i] = r.data[Slot(r, n + i)]
    BY <1>2, <1>3, <1>4, <1>5, ContentsType
  <2>2. /\ Contents(r) \in Seq(Byte) /\ Len(Contents(r)) = u
        /\ \A i \in 1 .. u : Contents(r)[i] = r.data[Slot(r, i)]
    BY ContentsType
  <2>3. \A i \in n + 1 .. u : Contents(r)[i] \in Byte
    BY <1>1, <2>2, ElementOfSeq
  <2>4. /\ t \in Seq(Byte) /\ Len(t) = u - n
        /\ \A i \in 1 .. u - n : t[i] = Contents(r)[n + 1 + i - 1]
    <3> HIDE DEF u
    <3> QED BY <1>1, <2>3, SubSeqProperties
  <2> HIDE DEF p, u, t
  <2>5. \A i \in 1 .. u - n : Contents(p)[i] = t[i]
    BY <1>1, <2>1, <2>2, <2>4, SMTT(30)
  <2> QED BY <2>1, <2>4, <2>5, SeqEqual DEF t
<1> QED BY <1>3, <1>4, <1>6

\* whad_ringbuf_copy hands back the n oldest bytes, across the wrap or not.
LEMMA CopyFacts ==
  ASSUME NEW r \in Ring, NEW n \in Nat, CanCopy(r, n)
  PROVE  /\ Copy(r, n) \in Seq(Byte)
         /\ Len(Copy(r, n)) = n
         /\ Copy(r, n) = SubSeq(Contents(r), 1, n)
<1> DEFINE u == RingUsed(r)
           fh == FirstHalf(r, n)
           sh == IF r.tail + n > RingSize THEN (n - fh) % RingSize ELSE 0
           c == Copy(r, n)
           t == SubSeq(Contents(r), 1, n)
<1>0. /\ RingSize \in Nat \ {0} /\ RingSize > 1
      /\ r.tail \in Index /\ r.data \in [Index -> Byte]
      /\ r.tail \in Nat /\ r.tail < RingSize
  BY RingAssumption DEF Ring, Index
<1>1. u \in Nat /\ u < RingSize /\ n <= u
  BY <1>0, UsedCases DEF CanCopy, RingCapacity
<1>2. fh \in Nat /\ fh <= n /\ fh + sh = n
  <2>1. CASE r.tail + n > RingSize
    <3>1. fh = RingSize - r.tail
      BY <2>1 DEF FirstHalf
    <3>2. n - fh \in Nat /\ n - fh < RingSize
      BY <1>0, <1>1, <2>1, <3>1
    <3>3. (n - fh) % RingSize = n - fh
      <4> HIDE DEF fh
      <4> QED BY <1>0, <3>2, ModCases
    <3> QED BY <1>0, <1>1, <2>1, <3>1, <3>3
  <2>2. CASE ~(r.tail + n > RingSize)
    BY <2>2, <1>0, <1>1 DEF FirstHalf
  <2> QED BY <2>1, <2>2
<1>3. \A i \in 1 .. n :
        (IF i <= fh THEN r.data[r.tail + i - 1] ELSE r.data[i - fh - 1])
          = r.data[Slot(r, i)]
  <2> SUFFICES ASSUME NEW i \in 1 .. n
               PROVE  (IF i <= fh THEN r.tail + i - 1 ELSE i - fh - 1) = Slot(r, i)
    OBVIOUS
  <2>1. i \in 1 .. RingSize
    BY <1>0, <1>1
  <2>2. Slot(r, i) = IF r.tail + i <= RingSize THEN r.tail + i - 1
                     ELSE r.tail + i - 1 - RingSize
    BY <2>1, SlotCases
  <2>3. fh = IF r.tail + n > RingSize THEN RingSize - r.tail ELSE n
    BY DEF FirstHalf
  <2> HIDE DEF fh
  <2> QED BY <1>0, <2>1, <2>2, <2>3
<1>4. c = [i \in 1 .. n |-> r.data[Slot(r, i)]]
  <2>1. c = [i \in 1 .. fh + sh |-> IF i <= fh THEN r.data[r.tail + i - 1]
                                             ELSE r.data[i - fh - 1]]
    BY DEF Copy
  <2> HIDE DEF c, fh, sh
  <2> QED BY <1>2, <1>3, <2>1
<1>5. /\ Contents(r) \in Seq(Byte) /\ Len(Contents(r)) = u
      /\ \A i \in 1 .. u : Contents(r)[i] = r.data[Slot(r, i)]
  BY ContentsType
<1>6. \A i \in 1 .. n : Contents(r)[i] \in Byte
  BY <1>1, <1>5, ElementOfSeq
<1>7. /\ t \in Seq(Byte) /\ Len(t) = n
      /\ \A i \in 1 .. n : t[i] = Contents(r)[1 + i - 1]
  BY <1>6, SubSeqProperties
<1>8. /\ c \in Seq(Byte) /\ Len(c) = n
      /\ \A i \in 1 .. n : c[i] = t[i]
  <2> HIDE DEF c, t, u
  <2> QED BY <1>1, <1>4, <1>5, <1>6, <1>7
<1>9. c = t
  <2> HIDE DEF c, t
  <2> QED BY <1>7, <1>8, SeqEqual
<1> QED BY <1>8, <1>9

\* whad_ringbuf_pull is a one-byte copy followed by a one-byte skip.
LEMMA PullFacts ==
  ASSUME NEW r \in Ring, CanPull(r)
  PROVE  /\ Pull(r) \in Ring
         /\ RingUsed(Pull(r)) = RingUsed(r) - 1
         /\ Contents(r) # <<>>
         /\ PullByte(r) = Head(Contents(r))
         /\ Contents(Pull(r)) = Tail(Contents(r))
<1>1. RingUsed(r) \in Nat /\ 1 <= RingUsed(r) /\ RingUsed(r) < RingSize
  BY UsedCases, RingAssumption DEF CanPull, RingCapacity
<1>2. Pull(r) = Skip(r, 1) /\ CanSkip(r, 1)
  BY <1>1 DEF Pull, Skip, CanSkip
<1>3. Contents(r) \in Seq(Byte) /\ Len(Contents(r)) = RingUsed(r)
      /\ Contents(r)[1] = r.data[Slot(r, 1)]
  BY <1>1, ContentsType
<1>4. Slot(r, 1) = r.tail
  BY RingAssumption, SlotCases DEF Ring, Index
<1>5. Contents(r) # <<>>
  BY <1>1, <1>3
<1>6. Contents(Skip(r, 1)) = SubSeq(Contents(r), 2, RingUsed(r))
  BY <1>2, SkipFacts
<1>7. Tail(Contents(r)) = SubSeq(Contents(r), 2, RingUsed(r))
  BY <1>3, <1>5, TailIsSubSeq
<1> QED BY <1>2, <1>3, <1>4, <1>5, <1>6, <1>7, SkipFacts DEF PullByte

\* Pushing bytes there is room for makes the ring fuller by as many.
LEMMA PushAllFacts ==
  ASSUME NEW r \in Ring, NEW s \in Seq(Byte), Len(s) <= RingFree(r)
  PROVE  /\ PushAll(r, s) \in Ring
         /\ RingUsed(PushAll(r, s)) = RingUsed(r) + Len(s)
<1> DEFINE n == Len(s)
           p == PushAll(r, s)
           k(i) == (RingSize + i - r.head) % RingSize
           d(i) == IF k(i) < n THEN s[k(i) + 1] ELSE r.data[i]
<1>0. /\ RingSize \in Nat \ {0} /\ r.head \in Index /\ r.tail \in Index
      /\ r.data \in [Index -> Byte] /\ n \in 0 .. RingSize
      /\ r.head \in Nat /\ r.tail \in Nat /\ r.head < RingSize /\ r.tail < RingSize
      /\ RingUsed(r) \in Nat /\ RingUsed(r) + n < RingSize
  BY UsedCases, RingAssumption DEF Ring, RingCapacity, Index, RingFree
<1>1. /\ (r.head + n) % RingSize \in Index
      /\ (r.head + n) % RingSize =
           IF r.head + n < RingSize THEN r.head + n ELSE r.head + n - RingSize
  BY <1>0, NextIndex
<1>2. ASSUME NEW i \in Index
      PROVE  d(i) \in Byte
  <2> DEFINE x == RingSize + i - r.head
  <2>1. x \in Nat
    BY <1>0 DEF Index
  <2>2. x % RingSize \in Nat
    <3> HIDE DEF x
    <3> QED  BY <1>0, <2>1
  <2>3. k(i) \in Nat
    BY <2>2
  <2> HIDE DEF k
  <2>4. k(i) < n => s[k(i) + 1] \in Byte
    BY <2>3, <1>0, ElementOfSeq
  <2> QED  BY <1>0, <2>4
<1>3. PushAll(r, s) = [r EXCEPT !.head = (@ + n) % RingSize,
                                !.data = [i \in Index |-> d(i)]]
  BY DEF PushAll
<1> HIDE DEF d
<1>4. /\ p \in Ring /\ p.tail = r.tail
      /\ p.head = IF r.head + n < RingSize THEN r.head + n ELSE r.head + n - RingSize
  BY <1>0, <1>1, <1>2, <1>3, ZenonT(60) DEF Ring
<1> HIDE DEF p
<1>5. RingUsed(p) = IF p.head >= p.tail THEN p.head - p.tail
                    ELSE RingSize + p.head - p.tail
  BY <1>4, UsedCases
<1>6. RingUsed(r) = IF r.head >= r.tail THEN r.head - r.tail
                    ELSE RingSize + r.head - r.tail
  BY UsedCases
<1>7. RingUsed(p) = RingUsed(r) + n
  <2> HIDE DEF n
  <2>1. p.head \in Nat /\ p.tail \in Nat
    BY <1>0, <1>4
  <2>2. CASE r.head + n < RingSize
    <3>1. p.head = r.head + n /\ p.tail = r.tail
      BY <2>2, <1>4
    <3> QED  BY <3>1, <2>2, <1>0, <1>5, <1>6
  <2>3. CASE ~(r.head + n < RingSize)
    <3>1. p.head = r.head + n - RingSize /\ p.tail = r.tail
      BY <2>3, <1>4
    <3>2. r.head >= r.tail /\ p.head < p.tail
      BY <3>1, <2>3, <1>0, <1>6
    <3> QED  BY <3>1, <3>2, <2>1, <1>0, <1>5, <1>6
  <2> QED  BY <2>2, <2>3
<1> QED  BY <1>4, <1>7 DEF p

\* The bytes are added at the end, in order, and none of those that wait is
\* disturbed.
LEMMA PushAllContents ==
  ASSUME NEW r \in Ring, NEW s \in Seq(Byte), Len(s) <= RingFree(r)
  PROVE  Contents(PushAll(r, s)) = Contents(r) \o s
<1> DEFINE n == Len(s)
           u == RingUsed(r)
           p == PushAll(r, s)
           k(j) == (RingSize + j - r.head) % RingSize
<1>0. /\ RingSize \in Nat \ {0} /\ r.head \in Index /\ r.tail \in Index
      /\ n \in Nat /\ u \in Nat /\ u + n < RingSize
      /\ r.head \in Nat /\ r.tail \in Nat /\ r.head < RingSize /\ r.tail < RingSize
      /\ u = IF r.head >= r.tail THEN r.head - r.tail ELSE RingSize + r.head - r.tail
  BY UsedCases, RingAssumption DEF Ring, RingCapacity, Index, RingFree
<1>1. p \in Ring /\ RingUsed(p) = u + n
  BY PushAllFacts
<1>2. /\ p.tail = r.tail
      /\ \A j \in Index : p.data[j] = IF k(j) < n THEN s[k(j) + 1] ELSE r.data[j]
  BY DEF PushAll, Ring
<1> HIDE DEF p
<1>3. /\ Contents(p) \in Seq(Byte) /\ Len(Contents(p)) = u + n
      /\ \A i \in 1 .. u + n : Contents(p)[i] = p.data[Slot(r, i)]
  <2>1. \A i : Slot(p, i) = Slot(r, i)
    BY <1>2 DEF Slot
  <2> QED  BY <1>1, <2>1, ContentsType
<1>4. /\ Contents(r) \in Seq(Byte) /\ Len(Contents(r)) = u
      /\ \A i \in 1 .. u : Contents(r)[i] = r.data[Slot(r, i)]
  BY ContentsType
<1>5. /\ Contents(r) \o s \in Seq(Byte) /\ Len(Contents(r) \o s) = u + n
      /\ \A i \in 1 .. u + n :
           (Contents(r) \o s)[i] = IF i <= u THEN Contents(r)[i] ELSE s[i - u]
  BY <1>4, ConcatProperties
<1> HIDE DEF u, n
<1>6. ASSUME NEW i \in 1 .. u + n
      PROVE  Contents(p)[i] = (Contents(r) \o s)[i]
  <2> DEFINE j == Slot(r, i)
             x == RingSize + j - r.head
             m == k(j)
             h == r.head
             l == r.tail
  <2>0. /\ h \in Nat /\ l \in Nat /\ h < RingSize /\ l < RingSize /\ i \in Nat /\ i >= 1
        /\ i <= u + n /\ u \in Nat /\ n \in Nat /\ RingSize \in Nat /\ u + n < RingSize
        /\ u = IF h >= l THEN h - l ELSE RingSize + h - l
    BY <1>0
  <2>1. j \in Index /\ j = IF l + i <= RingSize THEN l + i - 1 ELSE l + i - 1 - RingSize
    <3>1. i \in 1 .. RingSize
      BY <1>0
    <3> QED  BY <3>1, SlotCases
  <2>2. m = IF x < RingSize THEN x ELSE x - RingSize
    <3>1. x \in Nat /\ x < RingSize + RingSize
      <4>1. j \in 0 .. RingSize - 1 /\ x = RingSize + j - h
        BY <2>1 DEF Index
      <4> HIDE DEF x, h, j
      <4> QED  BY <4>1, <2>0
    <3> HIDE DEF x
    <3>2. x % RingSize = IF x < RingSize THEN x ELSE x - RingSize
      BY <1>0, <3>1, ModCases
    <3> QED  BY <3>2 DEF x
  <2>3. x = RingSize + j - h
    OBVIOUS
  <2> HIDE DEF m, x, j, h, l
  <2>4. i <= u => ~(m < n)
    BY <2>0, <2>1, <2>2, <2>3
  <2>5. ~(i <= u) => m = i - u - 1
    BY <2>0, <2>1, <2>2, <2>3
  <2>6. p.data[j] = IF m < n THEN s[m + 1] ELSE r.data[j]
    BY <1>2, <2>1 DEF m
  <2>7. CASE i <= u
    <3>1. i \in 1 .. u
      BY <1>0, <2>7
    <3>2. p.data[j] = r.data[j]
      BY <2>4, <2>6, <2>7
    <3> QED  BY <1>3, <1>4, <1>5, <2>7, <3>1, <3>2 DEF j
  <2>8. CASE ~(i <= u)
    <3>1. m = i - u - 1
      BY <2>5, <2>8
    <3>2. m < n /\ m + 1 = i - u
      BY <1>0, <2>8, <3>1, SMTT(30)
    <3>3. p.data[j] = s[i - u]
      BY <2>6, <3>2
    <3> QED  BY <1>3, <1>5, <2>8, <3>3 DEF j
  <2> QED  BY <2>7, <2>8
<1>7. Contents(p) = Contents(r) \o s
  BY <1>3, <1>5, <1>6, SeqEqual
<1> QED  BY <1>7 DEF p
=============================================================================
