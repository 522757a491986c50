------------------------- MODULE TransportRxProofs -------------------------
(***************************************************************************)
(* Safety of the receive path, for every ring size, every way the input is *)
(* cut and every size of the caller's buffer.                              *)
(***************************************************************************)
EXTENDS Link, RingBufProofs, WellFoundedInduction

\* What the assumptions say of the constants.
LEMMA RxConstants ==
  /\ RingSize \in Nat /\ RingSize > HeaderSize + 1 /\ RingCapacity = RingSize - 1
  /\ HeaderSize = 4 /\ MaxEncoded \in Nat /\ MaxEncoded + 4 = RingCapacity
  /\ Byte \subseteq Nat /\ MaxStream \in Nat /\ DestSizes \subseteq Nat
BY RingAssumption, RxAssumption DEF RingCapacity, MaxEncoded, HeaderSize

\* What get_message has established at each point of its code: the tests it
\* made still hold when it copies and skips, whatever was received since.
RxLocals ==
  /\ pc = "header" => RingUsed(rx) >= HeaderSize
  /\ pc = "parse" => Len(header) = 4 /\ RingUsed(rx) >= HeaderSize
  /\ pc \in {"copy", "skip"} =>
       /\ Len(header) = 4 /\ Size <= MaxEncoded
       /\ Size <= dest /\ Size <= RingUsed(rx)
  /\ pc = "skip" => Len(buffer) = Size

\* The inductive invariant of the receive path.
RxInv == TypeOK /\ RxLocals

\* The length field of a header is a natural number.
LEMMA SizeType ==
  ASSUME TypeOK, Len(header) = 4
  PROVE  Size \in Nat
<1>1. header \in Seq(Byte) /\ 3 \in 1 .. Len(header) /\ 4 \in 1 .. Len(header)
  BY DEF TypeOK
<1>2. header[3] \in Byte /\ header[4] \in Byte
  BY <1>1, ElementOfSeq
<1>3. header[3] \in Nat /\ header[4] \in Nat
  BY <1>2, RxConstants
<1> QED  BY <1>3 DEF Size

\* The tests of get_message imply what PayloadFits says of its copies.
LEMMA LocalsFit == RxInv => PayloadFits
<1> SUFFICES ASSUME RxInv PROVE PayloadFits
  OBVIOUS
<1>1. RingUsed(rx) \in Nat
  BY UsedCases, RxConstants DEF RxInv, TypeOK
<1>2. dest \in Nat
  <2>1. dest \in DestSizes \/ dest = 0
    BY DEF RxInv, TypeOK
  <2>2. CASE dest \in DestSizes
    BY <2>2, RxConstants
  <2> QED  BY <2>1, <2>2
<1>3. CASE pc \in {"copy", "skip"}
  <2>1. /\ Size \in Nat /\ Size <= dest /\ Size <= RingUsed(rx)
        /\ pc = "skip" => Len(buffer) = Size
    BY <1>3, SizeType DEF RxInv, RxLocals
  <2> HIDE DEF Size
  <2> QED  BY <1>1, <1>2, <1>3, <2>1 DEF PayloadFits, CanCopy, CanSkip
<1>4. CASE pc \notin {"copy", "skip"}
  BY <1>4 DEF PayloadFits
<1> QED  BY <1>3, <1>4

\* The state whad_transport_init leaves.
LEMMA RxInvInit == Init => RxInv
<1> SUFFICES ASSUME Init PROVE RxInv
  OBVIOUS
<1>1. EmptyRing \in Ring
  BY RingAssumption DEF EmptyRing, Ring, Index
<1>2. <<>> \in Seq(Byte) /\ Len(<<>>) = 0 /\ <<>> \in Seq(Seq(Byte))
  OBVIOUS
<1>3. <<"SUCCESS", 0>> \in {"SUCCESS", "ERROR"} \X (0 .. MaxEncoded)
  BY RxConstants
<1> QED  BY <1>1, <1>2, <1>3, RxConstants DEF Init, RxInv, RxLocals, TypeOK

\* Interrupt: whad_transport_data_received.  The ring only gets fuller.
LEMMA DataReceivedStep ==
  ASSUME RxInv, NEW chunk \in Chunks, DataReceived(chunk)
  PROVE  RxInv'
<1> DEFINE room == RingFree(rx)
           kept == IF Len(chunk) <= room THEN chunk ELSE SubSeq(chunk, 1, room)
<1>1. /\ rx \in Ring /\ room \in Nat /\ RingUsed(rx) \in Nat
      /\ chunk \in Seq(Byte) /\ Len(chunk) \in Nat
  BY UsedCases, RxConstants, RxAssumption DEF RxInv, TypeOK
<1>2. kept \in Seq(Byte) /\ Len(kept) \in Nat /\ Len(kept) <= room
      /\ Len(kept) <= Len(chunk)
  <2>1. CASE Len(chunk) <= room
    BY <2>1, <1>1
  <2>2. CASE ~(Len(chunk) <= room)
    <3>1. kept = SubSeq(chunk, 1, room) /\ room <= Len(chunk) /\ room \in 0 .. Len(chunk)
      BY <2>2, <1>1
    <3> HIDE DEF kept, room
    <3> QED  BY <3>1, <1>1, <2>2
  <2> QED  BY <2>1, <2>2
<1>3. /\ rx' = PushAll(rx, kept) /\ sent' = sent + Len(chunk)
      /\ sent + Len(chunk) <= MaxStream /\ received' = received \o kept
      /\ UNCHANGED <<pc, dest, header, buffer, result, delivered>>
  BY DEF DataReceived
<1> HIDE DEF kept
<1>4. rx' \in Ring /\ RingUsed(rx') = RingUsed(rx) + Len(kept)
  BY <1>1, <1>2, <1>3, PushAllFacts
<1>5. sent' \in 0 .. MaxStream /\ received' \in Seq(Byte) /\ Len(received') <= sent'
  <2>1. /\ sent \in Nat /\ MaxStream \in Nat /\ received \in Seq(Byte)
        /\ Len(received) <= sent /\ Len(received) \in Nat
    BY RxConstants DEF RxInv, TypeOK
  <2>2. received \o kept \in Seq(Byte) /\ Len(received \o kept) = Len(received) + Len(kept)
    BY <2>1, <1>2
  <2> QED  BY <2>1, <2>2, <1>1, <1>2, <1>3
<1>6. TypeOK'
  BY <1>3, <1>4, <1>5 DEF RxInv, TypeOK
<1>7. RxLocals'
  <2>1. pc = "header" \/ pc = "parse" => RingUsed(rx') >= HeaderSize
    BY <1>1, <1>2, <1>4, RxConstants DEF RxInv, RxLocals
  <2>2. CASE pc \in {"copy", "skip"}
    <3>1. /\ Len(header) = 4 /\ Size \in Nat /\ Size <= MaxEncoded
          /\ Size <= dest /\ Size <= RingUsed(rx) /\ (pc = "skip" => Len(buffer) = Size)
      BY <2>2, SizeType DEF RxInv, RxLocals
    <3>2. Size' = Size
      BY <1>3 DEF Size
    <3>3. Size <= RingUsed(rx')
      BY <3>1, <1>1, <1>2, <1>4
    <3> QED  BY <2>2, <3>1, <3>2, <3>3, <1>3 DEF RxLocals
  <2>3. CASE pc \notin {"copy", "skip"}
    BY <2>3, <2>1, <1>3 DEF RxInv, RxLocals
  <2> QED  BY <2>2, <2>3
<1> QED  BY <1>6, <1>7 DEF RxInv

\* Entry of whad_transport_get_message.
LEMMA CallStep ==
  ASSUME RxInv, NEW n \in DestSizes, Call(n)
  PROVE  RxInv'
<1>1. <<>> \in Seq(Byte) /\ Len(<<>>) = 0
  OBVIOUS
<1>2. TypeOK'
  BY <1>1, RxConstants DEF Call, isrVars, RxInv, TypeOK
<1>3. RxLocals'
  BY DEF Call, RxLocals
<1> QED  BY <1>2, <1>3 DEF RxInv

\* A result with a code and a size is a legal return of get_message.
LEMMA ReturnType ==
  ASSUME NEW c \in {"SUCCESS", "ERROR"}, NEW n \in 0 .. MaxEncoded, Return(c, n)
  PROVE  pc' = "idle" /\ result' \in {"SUCCESS", "ERROR"} \X (0 .. MaxEncoded)
BY DEF Return

\* Nothing is claimed of the locals once get_message has returned.
LEMMA IdleLocals == pc' = "idle" => RxLocals'
BY DEF RxLocals

\* The two tests of the fill level: at least a header, and the header itself.
LEMMA HeaderSteps ==
  ASSUME RxInv, CheckSize \/ ReadHeader
  PROVE  RxInv'
<1>1. rx \in Ring /\ RingUsed(rx) \in Nat /\ 0 \in 0 .. MaxEncoded
  BY UsedCases, RxConstants DEF RxInv, TypeOK
<1>2. CASE CheckSize /\ RingUsed(rx) >= HeaderSize
  <2>1. pc' = "header" /\ UNCHANGED <<rx, sent, received, dest, header, buffer, result, delivered>>
    BY <1>2 DEF CheckSize, isrVars
  <2>2. TypeOK'
    BY <2>1 DEF RxInv, TypeOK
  <2>3. RxLocals'
    BY <2>1, <1>2 DEF RxLocals
  <2> QED  BY <2>2, <2>3 DEF RxInv
<1>3. CASE CheckSize /\ ~(RingUsed(rx) >= HeaderSize)
  <2>1. Return("SUCCESS", 0) /\ UNCHANGED <<rx, sent, received, dest, header, buffer, delivered>>
    BY <1>3 DEF CheckSize, isrVars
  <2>2. TypeOK' /\ RxLocals'
    BY <2>1, <1>1, ReturnType, IdleLocals DEF RxInv, TypeOK
  <2> QED  BY <2>2 DEF RxInv
<1>4. CASE ReadHeader
  <2>1. CanCopy(rx, HeaderSize)
    BY <1>4, <1>1, RxConstants DEF ReadHeader, RxInv, RxLocals, CanCopy
  <2>2. /\ header' = Copy(rx, HeaderSize) /\ pc' = "parse"
        /\ UNCHANGED <<rx, sent, received, dest, buffer, result, delivered>>
    BY <1>4, <2>1 DEF ReadHeader, isrVars
  <2>3. header' \in Seq(Byte) /\ Len(header') = 4
    BY <2>1, <2>2, <1>1, CopyFacts, RxConstants
  <2>4. TypeOK'
    BY <2>2, <2>3, RxConstants DEF RxInv, TypeOK
  <2>5. RxLocals'
    BY <2>2, <2>3, <2>1, <1>1, RxConstants DEF RxLocals, CanCopy
  <2> QED  BY <2>4, <2>5 DEF RxInv
<1> QED  BY <1>2, <1>3, <1>4

\* The returns that follow the parse of a header.
LEMMA RejectSteps ==
  ASSUME RxInv, BadMagic \/ BadLength \/ TooSmall \/ Incomplete
  PROVE  RxInv'
<1>1. /\ rx \in Ring /\ RingUsed(rx) \in Nat /\ 0 \in 0 .. MaxEncoded
      /\ pc = "parse" /\ Len(header) = 4 /\ RingUsed(rx) >= 4 /\ Size \in Nat
  BY UsedCases, RxConstants, SizeType
     DEF RxInv, TypeOK, RxLocals, BadMagic, BadLength, TooSmall, Incomplete
<1>2. ASSUME NEW d \in {1, 2}
      PROVE  Skip(rx, d) \in Ring
  BY <1>1, SkipFacts DEF CanSkip
<1>3. rx' \in Ring
  BY <1>1, <1>2 DEF BadMagic, BadLength, TooSmall, Incomplete
<1>4. \E c \in {"SUCCESS", "ERROR"}, n \in 0 .. MaxEncoded : Return(c, n)
  BY <1>1, RxConstants DEF BadMagic, BadLength, TooSmall, Incomplete
<1>5. pc' = "idle" /\ result' \in {"SUCCESS", "ERROR"} \X (0 .. MaxEncoded)
  BY <1>4, ReturnType
<1>6. UNCHANGED <<sent, received, dest, header, buffer, delivered>>
  BY DEF BadMagic, BadLength, TooSmall, Incomplete, isrVars
<1>7. TypeOK'
  BY <1>3, <1>5, <1>6 DEF RxInv, TypeOK
<1> QED  BY <1>5, <1>7, IdleLocals DEF RxInv

\* The header of a whole frame is skipped: its payload is still in the ring.
LEMMA SkipHeaderStep == ASSUME RxInv, SkipHeader PROVE RxInv'
<1>1. /\ rx \in Ring /\ RingUsed(rx) \in Nat /\ HeaderSize = 4
      /\ Len(header) = 4 /\ Size \in Nat /\ Size <= MaxEncoded
      /\ Size <= dest /\ RingUsed(rx) >= Size + 4
  BY UsedCases, RxConstants, SizeType DEF RxInv, TypeOK, RxLocals, SkipHeader
<1>2. /\ rx' = Skip(rx, 4) /\ pc' = "copy"
      /\ UNCHANGED <<sent, received, dest, header, buffer, result, delivered>>
  BY <1>1 DEF SkipHeader, isrVars
<1>3. CanSkip(rx, 4)
  BY <1>1 DEF CanSkip
<1>4. rx' \in Ring /\ RingUsed(rx') = RingUsed(rx) - 4
  BY <1>1, <1>2, <1>3, SkipFacts
<1>5. Size' = Size
  BY <1>2 DEF Size
<1>6. Size <= RingUsed(rx')
  BY <1>1, <1>4
<1>7. TypeOK'
  BY <1>2, <1>4 DEF RxInv, TypeOK
<1>8. RxLocals'
  BY <1>1, <1>2, <1>5, <1>6 DEF RxLocals
<1> QED  BY <1>7, <1>8 DEF RxInv

\* The payload is copied out, and is as long as the header says.
LEMMA CopyPayloadStep == ASSUME RxInv, CopyPayload PROVE RxInv'
<1>1. /\ rx \in Ring /\ RingUsed(rx) \in Nat
      /\ Len(header) = 4 /\ Size \in Nat /\ Size <= MaxEncoded
      /\ Size <= dest /\ Size <= RingUsed(rx)
  BY UsedCases, RxConstants, SizeType DEF RxInv, TypeOK, RxLocals, CopyPayload
<1>2. CanCopy(rx, Size)
  BY <1>1 DEF CanCopy
<1>3. /\ buffer' = Copy(rx, Size) /\ pc' = "skip"
      /\ UNCHANGED <<rx, sent, received, dest, header, result, delivered>>
  BY <1>2 DEF CopyPayload, isrVars
<1>4. buffer' \in Seq(Byte) /\ Len(buffer') = Size
  BY <1>1, <1>2, <1>3, CopyFacts
<1>5. Size' = Size
  BY <1>3 DEF Size
<1>6. TypeOK'
  BY <1>1, <1>3, <1>4 DEF RxInv, TypeOK
<1>7. RxLocals'
  BY <1>1, <1>3, <1>4, <1>5 DEF RxLocals
<1> QED  BY <1>6, <1>7 DEF RxInv

\* The payload is dropped from the ring and the caller is told its length.
LEMMA SkipPayloadStep == ASSUME RxInv, SkipPayload PROVE RxInv'
<1>1. /\ rx \in Ring /\ RingUsed(rx) \in Nat /\ MaxEncoded \in Nat
      /\ Size \in Nat /\ Size <= MaxEncoded /\ Size <= RingUsed(rx)
      /\ buffer \in Seq(Byte) /\ delivered \in Seq(Seq(Byte))
  BY UsedCases, RxConstants, SizeType DEF RxInv, TypeOK, RxLocals, SkipPayload
<1>2. CanSkip(rx, Size)
  BY <1>1 DEF CanSkip
<1>3. /\ rx' = Skip(rx, Size) /\ delivered' = Append(delivered, buffer)
      /\ Return("SUCCESS", Size)
      /\ UNCHANGED <<sent, received, dest, header, buffer>>
  BY <1>2 DEF SkipPayload, isrVars
<1>4. rx' \in Ring
  BY <1>1, <1>2, <1>3, SkipFacts
<1>5. Size \in 0 .. MaxEncoded
  BY <1>1
<1>6. pc' = "idle" /\ result' \in {"SUCCESS", "ERROR"} \X (0 .. MaxEncoded)
  BY <1>3, <1>5, ReturnType
<1>7. delivered' \in Seq(Seq(Byte))
  BY <1>1, <1>3
<1>8. TypeOK'
  BY <1>3, <1>4, <1>6, <1>7 DEF RxInv, TypeOK
<1> QED  BY <1>6, <1>8, IdleLocals DEF RxInv

\* Every step of the receive path keeps the inductive invariant.
LEMMA RxInvStep == RxInv /\ [Next]_vars => RxInv'
<1> SUFFICES ASSUME RxInv, [Next]_vars PROVE RxInv'
  OBVIOUS
<1>1. ASSUME NEW chunk \in Chunks, DataReceived(chunk) PROVE RxInv'
  BY <1>1, DataReceivedStep
<1>2. ASSUME NEW n \in DestSizes, Call(n) PROVE RxInv'
  BY <1>2, CallStep
<1>3. CASE UNCHANGED vars
  BY <1>3 DEF RxInv, TypeOK, RxLocals, Size, vars, isrVars
<1> QED
  BY <1>1, <1>2, <1>3, HeaderSteps, RejectSteps, SkipHeaderStep,
     CopyPayloadStep, SkipPayloadStep DEF Next, GetMessage

\* For every ring size, every way the host's bytes are cut and every size of
\* the caller's buffer, the indices of rx_buf stay inside it and get_message
\* reports only the codes and lengths it may.
THEOREM RxTypeCorrect == Spec => []TypeOK
<1>1. RxInv => TypeOK
  BY DEF RxInv
<1> QED  BY <1>1, RxInvInit, RxInvStep, PTL DEF Spec

\* For every ring size and every caller's buffer, get_message never writes past
\* the size it was given, and its last copy and skip cannot be refused although
\* interrupts have pushed bytes since the length was tested.
THEOREM RxPayloadFits == Spec => []PayloadFits
BY LocalsFit, RxInvInit, RxInvStep, PTL DEF Spec
-----------------------------------------------------------------------------
(* Least elements.                                                         *)

\* Every set of natural numbers that is not empty has a least element: what the
\* inductions over the input of the decoder rest on.
LEMMA LeastElement ==
  ASSUME NEW S \in SUBSET Nat, S # {}
  PROVE  \E x \in S : \A y \in S : x <= y
<1>1. PICK x \in S : \A y \in S : <<y, x>> \notin OpToRel(<, Nat)
  BY NatLessThanWellFounded, WFMin
<1>2. ASSUME NEW y \in S PROVE x <= y
  <2>1. ~(y < x)
    BY <1>1 DEF OpToRel
  <2> QED  BY <2>1
<1> QED  BY <1>2

\* The least element is the one Min chooses.
LEMMA MinIs ==
  ASSUME NEW S \in SUBSET Nat, NEW m \in S, \A y \in S : m <= y
  PROVE  Min(S) = m
<1>1. \A x \in S : (\A y \in S : x <= y) => x = m
  OBVIOUS
<1> QED  BY <1>1 DEF Min

\* A set of numbers that has elements has the one Min chooses.
LEMMA MinOf ==
  ASSUME NEW S \in SUBSET Nat, S # {}
  PROVE  Min(S) \in S
BY LeastElement DEF Min

-----------------------------------------------------------------------------
(* The decoder.                                                            *)

\* What the decoder finds from c on, given what it finds from the places after.
Found(s, g, c) ==
  IF FrameStarts(s, c) = {} THEN <<>>
  ELSE LET p == Min(FrameStarts(s, c))
           e == FrameEnd(s, p)
       IN  IF e > Len(s) + 1 THEN <<>>
           ELSE <<SubSeq(s, p + HeaderSize, e - 1)>> \o g[e]

\* A frame starts inside the stream and ends after its header.
LEMMA StartFacts ==
  ASSUME NEW s \in Seq(Byte), NEW c \in 1 .. Len(s) + 1
  PROVE  /\ FrameStarts(s, c) \in SUBSET Nat
         /\ \A p \in FrameStarts(s, c) :
              /\ p \in c .. Len(s) - 3 /\ FrameLength(s, p) \in Nat
              /\ FrameEnd(s, p) \in Nat /\ FrameEnd(s, p) = p + 4 + FrameLength(s, p)
              /\ FrameEnd(s, p) > p + 3
<1>1. Len(s) \in Nat /\ HeaderSize = 4
  BY LenProperties, RxConstants
<1>2. ASSUME NEW p \in FrameStarts(s, c)
      PROVE  /\ p \in c .. Len(s) - 3 /\ FrameLength(s, p) \in Nat
             /\ FrameEnd(s, p) \in Nat /\ FrameEnd(s, p) = p + 4 + FrameLength(s, p)
             /\ FrameEnd(s, p) > p + 3
  <2>1. p \in c .. Len(s) - 3
    BY DEF FrameStarts
  <2>2. p \in Nat /\ p + 2 \in 1 .. Len(s) /\ p + 3 \in 1 .. Len(s)
    BY <1>1, <2>1
  <2>3. s[p + 2] \in Nat /\ s[p + 3] \in Nat
    BY <2>2, ElementOfSeq, RxConstants
  <2>4. FrameLength(s, p) \in Nat
    BY <2>3 DEF FrameLength
  <2> HIDE DEF FrameLength
  <2> QED  BY <1>1, <2>1, <2>2, <2>4 DEF FrameEnd
<1>3. \A p \in FrameStarts(s, c) : p \in Nat
  BY <1>1, <1>2
<1> QED  BY <1>2, <1>3

\* What is found from c on depends only on what is found after c.
LEMMA FoundDepends ==
  ASSUME NEW s \in Seq(Byte), NEW c \in 1 .. Len(s) + 1, NEW g, NEW h,
         \A i \in c + 1 .. Len(s) + 1 : g[i] = h[i]
  PROVE  Found(s, g, c) = Found(s, h, c)
<1>0. Len(s) \in Nat
  BY LenProperties
<1>1. CASE FrameStarts(s, c) = {}
  BY <1>1 DEF Found
<1>2. CASE FrameStarts(s, c) # {}
  <2> DEFINE p == Min(FrameStarts(s, c))
             e == FrameEnd(s, p)
  <2>1. p \in FrameStarts(s, c)
    BY <1>2, MinOf, StartFacts
  <2>2. e \in Nat /\ e > c
    <3>1. p \in c .. Len(s) - 3 /\ e \in Nat /\ e > p + 3
      BY <2>1, StartFacts
    <3> HIDE DEF p, e
    <3> QED  BY <3>1, <1>0
  <2>3. CASE e > Len(s) + 1
    BY <2>3, <1>2 DEF Found
  <2>4. CASE ~(e > Len(s) + 1)
    <3>1. g[e] = h[e]
      <4> HIDE DEF e
      <4> QED  BY <2>2, <2>4, <1>0
    <3> QED  BY <2>4, <1>2, <3>1 DEF Found
  <2> QED  BY <2>3, <2>4
<1> QED  BY <1>1, <1>2

\* The recursion of Scan is well founded, so that Scan satisfies its equation:
\* by induction on k, there is a function that satisfies it at the last k + 1
\* places.
LEMMA ScanEquation ==
  ASSUME NEW s \in Seq(Byte)
  PROVE  Scan(s) = [c \in 1 .. Len(s) + 1 |-> Found(s, Scan(s), c)]
<1> DEFINE n == Len(s)
           Solved(k) == \E g : \A c \in n + 1 - k .. n + 1 : g[c] = Found(s, g, c)
           Bad == {k \in 0 .. n : ~Solved(k)}
<1>0. n \in Nat
  BY LenProperties
<1>1. Solved(0)
  <2>1. FrameStarts(s, n + 1) = {}
    BY <1>0 DEF FrameStarts
  <2>2. \A g : Found(s, g, n + 1) = <<>>
    BY <2>1 DEF Found
  <2> DEFINE g0 == [c \in {n + 1} |-> <<>>]
  <2>3. \A c \in n + 1 - 0 .. n + 1 : g0[c] = Found(s, g0, c)
    <3> HIDE DEF n
    <3> QED  BY <1>0, <2>2
  <2> HIDE DEF g0
  <2> QED  BY <2>3
<1>2. ASSUME NEW k \in 0 .. n - 1, Solved(k) PROVE Solved(k + 1)
  <2>1. PICK g : \A c \in n + 1 - k .. n + 1 : g[c] = Found(s, g, c)
    BY <1>2
  <2> DEFINE d == n + 1 - (k + 1)
             h == [c \in d .. n + 1 |-> IF c = d THEN Found(s, g, d) ELSE g[c]]
  <2>2. d \in 1 .. n /\ d + 1 = n + 1 - k
    BY <1>0
  <2>3. \A c \in d + 1 .. n + 1 : h[c] = g[c]
    <3> HIDE DEF d, n
    <3> QED  BY <1>0, <2>2
  <2>4. h[d] = Found(s, g, d)
    <3> HIDE DEF d, n
    <3> QED  BY <1>0, <2>2
  <2> HIDE DEF h
  <2>5. ASSUME NEW c \in d .. n + 1 PROVE Found(s, h, c) = Found(s, g, c)
    <3>1. c \in 1 .. Len(s) + 1
      BY <1>0, <2>2
    <3>2. \A i \in c + 1 .. Len(s) + 1 : h[i] = g[i]
      BY <1>0, <2>2, <2>3
    <3> QED  BY <3>1, <3>2, FoundDepends
  <2>6. \A c \in d .. n + 1 : h[c] = Found(s, h, c)
    <3> SUFFICES ASSUME NEW c \in d .. n + 1 PROVE h[c] = Found(s, h, c)
      OBVIOUS
    <3>1. c = d \/ c \in d + 1 .. n + 1
      BY <1>0, <2>2
    <3>2. c \in d + 1 .. n + 1 => g[c] = Found(s, g, c)
      BY <2>1, <2>2
    <3> QED  BY <3>1, <3>2, <2>3, <2>4, <2>5
  <2> QED  BY <2>6
<1> HIDE DEF Solved
<1>3. Bad = {}
  <2> SUFFICES ASSUME Bad # {} PROVE FALSE
    OBVIOUS
  <2>0. Bad \in SUBSET Nat
    BY <1>0
  <2>1. PICK k \in Bad : \A j \in Bad : k <= j
    <3> HIDE DEF Bad
    <3> QED  BY <2>0, LeastElement
  <2>2. k \in 1 .. n /\ ~Solved(k)
    BY <1>0, <1>1, <2>1
  <2>3. k - 1 \in 0 .. n - 1 /\ Solved(k - 1)
    BY <1>0, <2>1, <2>2
  <2>4. Solved(k - 1 + 1) /\ k - 1 + 1 = k
    BY <1>2, <2>2, <2>3
  <2> QED  BY <2>2, <2>4
<1>4. Solved(n)
  BY <1>0, <1>3
<1>5. PICK g : \A c \in 1 .. n + 1 : g[c] = Found(s, g, c)
  <2>1. n + 1 - n = 1
    BY <1>0
  <2> QED  BY <1>4, <2>1 DEF Solved
<1> DEFINE f == [c \in 1 .. n + 1 |-> g[c]]
<1>6. f = [c \in 1 .. n + 1 |-> Found(s, f, c)]
  <2> SUFFICES ASSUME NEW c \in 1 .. n + 1 PROVE g[c] = Found(s, f, c)
    OBVIOUS
  <2>1. \A i \in c + 1 .. Len(s) + 1 : f[i] = g[i]
    BY <1>0
  <2> HIDE DEF f
  <2>2. Found(s, f, c) = Found(s, g, c)
    BY <2>1, FoundDepends
  <2> QED  BY <2>2, <1>5
<1>7. Scan(s) = CHOOSE h : h = [c \in 1 .. n + 1 |-> Found(s, h, c)]
  BY DEF Scan, Found
<1> HIDE DEF f
<1> QED  BY <1>6, <1>7

\* Nothing is found at the end of the stream.
LEMMA ScanEnd ==
  ASSUME NEW s \in Seq(Byte)
  PROVE  Scan(s)[Len(s) + 1] = <<>>
<1>1. Len(s) \in Nat /\ Len(s) + 1 \in 1 .. Len(s) + 1
  BY LenProperties
<1>2. FrameStarts(s, Len(s) + 1) = {}
  BY <1>1 DEF FrameStarts
<1>3. Found(s, Scan(s), Len(s) + 1) = <<>>
  BY <1>2 DEF Found
<1> QED  BY <1>1, <1>3, ScanEquation

\* A place where no frame starts adds nothing.
LEMMA ScanNoise ==
  ASSUME NEW s \in Seq(Byte), NEW c \in 1 .. Len(s), c \notin FrameStarts(s, c)
  PROVE  Scan(s)[c] = Scan(s)[c + 1]
<1>1. Len(s) \in Nat /\ c \in 1 .. Len(s) + 1 /\ c + 1 \in 1 .. Len(s) + 1
  BY LenProperties
<1>2. FrameStarts(s, c) = FrameStarts(s, c + 1)
  BY <1>1 DEF FrameStarts
<1>3. Found(s, Scan(s), c) = Found(s, Scan(s), c + 1)
  BY <1>2 DEF Found
<1> QED  BY <1>1, <1>3, ScanEquation

\* A whole frame adds its payload, and scanning resumes after it.
LEMMA ScanFrame ==
  ASSUME NEW s \in Seq(Byte), NEW c \in 1 .. Len(s), c \in FrameStarts(s, c),
         NEW e, e = FrameEnd(s, c), ~(e > Len(s) + 1)
  PROVE  Scan(s)[c] = <<SubSeq(s, c + 4, e - 1)>> \o Scan(s)[e]
<1>1. Len(s) \in Nat /\ c \in 1 .. Len(s) + 1
  BY LenProperties
<1>2. FrameStarts(s, c) \in SUBSET Nat /\ \A p \in FrameStarts(s, c) : c <= p
  BY <1>1, StartFacts
<1>3. Min(FrameStarts(s, c)) = c
  BY <1>2, MinIs
<1>4. FrameStarts(s, c) # {}
  OBVIOUS
<1>5. Found(s, Scan(s), c) = <<SubSeq(s, c + 4, e - 1)>> \o Scan(s)[e]
  BY <1>3, <1>4, RxConstants DEF Found
<1> QED  BY <1>1, <1>5, ScanEquation

\* Nothing is found from a frame that is cut.
LEMMA ScanCut ==
  ASSUME NEW s \in Seq(Byte), NEW c \in 1 .. Len(s), c \in FrameStarts(s, c),
         FrameEnd(s, c) > Len(s) + 1
  PROVE  Scan(s)[c] = <<>>
<1>1. Len(s) \in Nat /\ c \in 1 .. Len(s) + 1
  BY LenProperties
<1>2. FrameStarts(s, c) \in SUBSET Nat /\ \A p \in FrameStarts(s, c) : c <= p
  BY <1>1, StartFacts
<1>3. Min(FrameStarts(s, c)) = c
  BY <1>2, MinIs
<1>4. FrameStarts(s, c) # {}
  OBVIOUS
<1>5. Found(s, Scan(s), c) = <<>>
  BY <1>3, <1>4 DEF Found
<1> QED  BY <1>1, <1>5, ScanEquation

\* A piece of the second part of a concatenation.
LEMMA ShiftedSubSeq ==
  ASSUME NEW s \in Seq(Byte), NEW t \in Seq(Byte),
         NEW a \in Nat, a >= 1, NEW b \in Nat, b <= Len(t), a <= b + 1
  PROVE  SubSeq(s \o t, Len(s) + a, Len(s) + b) = SubSeq(t, a, b)
<1> DEFINE u == s \o t
           d == Len(s)
           n == Len(t)
           x == SubSeq(u, d + a, d + b)
           y == SubSeq(t, a, b)
<1>1. /\ d \in Nat /\ n \in Nat /\ Len(u) = d + n
      /\ u \in Seq(Byte) /\ t \in Seq(Byte) /\ b <= n
      /\ \A i \in 1 .. d + n : u[i] = IF i <= d THEN s[i] ELSE t[i - d]
  BY LenProperties, ConcatProperties
<1>2. \A i \in a .. b : t[i] \in Byte
  BY <1>1, ElementOfSeq
<1> HIDE DEF u, d
<1>3. \A i \in d + a .. d + b : u[i] \in Byte
  BY <1>1, ElementOfSeq
<1>4. /\ y \in Seq(Byte) /\ Len(y) = b - a + 1
      /\ \A i \in 1 .. b - a + 1 : y[i] = t[a + i - 1]
  <2>1. a \in Int /\ b \in Int /\ (a <= b \/ b - a + 1 = 0)
    OBVIOUS
  <2> QED  BY <1>2, <2>1, SubSeqProperties
<1>5. /\ x \in Seq(Byte) /\ Len(x) = b - a + 1
      /\ \A i \in 1 .. b - a + 1 : x[i] = u[d + a + i - 1]
  <2> DEFINE da == d + a
             db == d + b
  <2>1. /\ da \in Int /\ db \in Int /\ (da <= db \/ db - da + 1 = 0)
        /\ db - da + 1 = b - a + 1
    BY <1>1
  <2> HIDE DEF da, db
  <2>2. \A i \in da .. db : u[i] \in Byte
    BY <1>3 DEF da, db
  <2>3. /\ SubSeq(u, da, db) \in Seq(Byte) /\ Len(SubSeq(u, da, db)) = db - da + 1
        /\ \A i \in 1 .. db - da + 1 : SubSeq(u, da, db)[i] = u[da + i - 1]
    BY <2>1, <2>2, SubSeqProperties
  <2> QED  BY <2>1, <2>3 DEF da, db
<1> HIDE DEF x, y
<1>6. ASSUME NEW i \in 1 .. b - a + 1 PROVE x[i] = y[i]
  <2>1. /\ d + a + i - 1 \in 1 .. d + n /\ ~(d + a + i - 1 <= d)
        /\ d + a + i - 1 - d = a + i - 1
    <3> HIDE DEF n
    <3> QED  BY <1>1
  <2> HIDE DEF n
  <2>2. u[d + a + i - 1] = t[a + i - 1]
    BY <2>1, <1>1
  <2> QED  BY <2>2, <1>4, <1>5
<1>7. x = y
  BY <1>4, <1>5, <1>6, SeqEqual
<1> QED  BY <1>7 DEF x, y, u, d

\* Scanning never goes back: what is found from a place on depends only on the
\* bytes from there on.
LEMMA ScanShift ==
  ASSUME NEW s \in Seq(Byte), NEW t \in Seq(Byte), NEW c \in 1 .. Len(t) + 1
  PROVE  Scan(s \o t)[Len(s) + c] = Scan(t)[c]
<1> DEFINE u == s \o t
           n == Len(t)
           d == Len(s)
           Moved(k) == Scan(u)[d + n + 1 - k] = Scan(t)[n + 1 - k]
           Bad == {k \in 0 .. n : ~Moved(k)}
<1>0. n \in Nat /\ d \in Nat /\ u \in Seq(Byte) /\ Len(u) = d + n
      /\ \A i \in 1 .. n : u[d + i] = t[i]
  <2>1. /\ n \in Nat /\ d \in Nat /\ u \in Seq(Byte) /\ Len(u) = d + n
        /\ \A i \in 1 .. d + n : u[i] = IF i <= d THEN s[i] ELSE t[i - d]
    BY LenProperties, ConcatProperties
  <2> HIDE DEF u, n, d
  <2>2. ASSUME NEW i \in 1 .. n PROVE u[d + i] = t[i]
    <3>1. d + i \in 1 .. d + n /\ ~(d + i <= d) /\ d + i - d = i
      BY <2>1
    <3> QED  BY <2>1, <3>1
  <2> QED  BY <2>1, <2>2
<1> HIDE DEF u, d
<1>1. Moved(0)
  <2>1. Scan(u)[d + n + 1] = <<>> /\ Scan(t)[n + 1] = <<>>
    BY <1>0, ScanEnd
  <2>2. d + n + 1 - 0 = d + n + 1 /\ n + 1 - 0 = n + 1
    BY <1>0
  <2> QED  BY <2>1, <2>2
<1>2. ASSUME NEW k \in 1 .. n, \A j \in 0 .. k - 1 : Moved(j) PROVE Moved(k)
  <2> DEFINE p == n + 1 - k
  <2>1. /\ p \in 1 .. n /\ p \in Nat /\ p \in 1 .. n + 1 /\ d + p \in 1 .. d + n
        /\ d + n + 1 - k = d + p
    BY <1>0
  <2>2. \A q \in p + 1 .. n + 1 : Scan(u)[d + q] = Scan(t)[q]
    <3> SUFFICES ASSUME NEW q \in p + 1 .. n + 1 PROVE Scan(u)[d + q] = Scan(t)[q]
      OBVIOUS
    <3>1. n + 1 - q \in 0 .. k - 1
      BY <1>0
    <3>2. Moved(n + 1 - q)
      BY <3>1, <1>2
    <3>3. d + n + 1 - (n + 1 - q) = d + q /\ n + 1 - (n + 1 - q) = q
      BY <1>0
    <3> QED  BY <3>2, <3>3
  <2> HIDE DEF p
  <2>3. p \in FrameStarts(t, p) <=> d + p \in FrameStarts(u, d + p)
    <3>1. p <= n - 3 => /\ u[d + p] = t[p] /\ u[d + p + 1] = t[p + 1]
                        /\ u[d + p + 2] = t[p + 2] /\ u[d + p + 3] = t[p + 3]
      <4> SUFFICES ASSUME p <= n - 3
                   PROVE  /\ u[d + p] = t[p] /\ u[d + p + 1] = t[p + 1]
                          /\ u[d + p + 2] = t[p + 2] /\ u[d + p + 3] = t[p + 3]
        OBVIOUS
      <4>0. d \in Nat /\ n \in Nat /\ p \in Nat /\ p >= 1 /\ p <= n - 3
        BY <1>0, <2>1
      <4>1. p \in 1 .. n /\ p + 1 \in 1 .. n /\ p + 2 \in 1 .. n /\ p + 3 \in 1 .. n
        BY ONLY <4>0
      <4>2. d + (p + 1) = d + p + 1 /\ d + (p + 2) = d + p + 2 /\ d + (p + 3) = d + p + 3
        BY ONLY <4>0
      <4> DEFINE Shifted(i) == u[d + i] = t[i]
      <4>3. \A i \in 1 .. n : Shifted(i)
        BY <1>0
      <4> HIDE DEF Shifted
      <4>4. Shifted(p) /\ Shifted(p + 1) /\ Shifted(p + 2) /\ Shifted(p + 3)
        BY ONLY <4>1, <4>3, Zenon
      <4> QED  BY ONLY <4>2, <4>4, Zenon DEF Shifted
    <3>2. p <= n - 3 <=> d + p <= Len(u) - 3
      BY <1>0, <2>1
    <3>3. p <= n - 3 => FrameLength(u, d + p) = FrameLength(t, p)
      BY <3>1 DEF FrameLength
    <3>4. p \in p .. n - 3 <=> p <= n - 3
      BY <1>0, <2>1
    <3>5. d + p \in d + p .. Len(u) - 3 <=> d + p <= Len(u) - 3
      BY <1>0, <2>1
    <3> HIDE DEF n
    <3>6. p \in FrameStarts(t, p) <=>
            p <= n - 3 /\ t[p] = 172 /\ t[p + 1] = 190 /\ FrameLength(t, p) <= MaxEncoded
      BY <3>4 DEF FrameStarts, n
    <3>7. d + p \in FrameStarts(u, d + p) <=>
            /\ d + p <= Len(u) - 3 /\ u[d + p] = 172 /\ u[d + p + 1] = 190
            /\ FrameLength(u, d + p) <= MaxEncoded
      BY <3>5 DEF FrameStarts
    <3> QED  BY ONLY <3>1, <3>2, <3>3, <3>6, <3>7
  <2>4. CASE p \notin FrameStarts(t, p)
    <3>1. Scan(t)[p] = Scan(t)[p + 1]
      BY <2>1, <2>4, ScanNoise
    <3>2. Scan(u)[d + p] = Scan(u)[d + p + 1]
      BY <1>0, <2>1, <2>3, <2>4, ScanNoise
    <3>3. p + 1 \in p + 1 .. n + 1 /\ d + (p + 1) = d + p + 1
      BY <1>0, <2>1
    <3> QED  BY <2>1, <2>2, <3>1, <3>2, <3>3 DEF p
  <2>5. CASE p \in FrameStarts(t, p)
    <3> DEFINE e == FrameEnd(t, p)
    <3>1. p <= n - 3 /\ e \in Nat /\ e = p + 4 + FrameLength(t, p) /\ FrameLength(t, p) \in Nat
      <4>1. /\ p \in p .. n - 3 /\ e \in Nat /\ e = p + 4 + FrameLength(t, p)
            /\ FrameLength(t, p) \in Nat
        BY <2>1, <2>5, StartFacts
      <4> QED  BY <4>1, <1>0, <2>1
    <3>2. FrameLength(u, d + p) = FrameLength(t, p)
      <4>0. p <= n - 3
        BY <3>1
      <4>1. p + 2 \in 1 .. n /\ p + 3 \in 1 .. n
        BY <1>0, <2>1, <4>0
      <4>2. d + (p + 2) = d + p + 2 /\ d + (p + 3) = d + p + 3
        BY <1>0, <2>1
      <4>3. u[d + p + 2] = t[p + 2] /\ u[d + p + 3] = t[p + 3]
        BY <1>0, <4>1, <4>2, SMTT(30)
      <4> QED  BY <4>3 DEF FrameLength
    <3>3. FrameEnd(u, d + p) = d + e
      <4> HIDE DEF FrameLength
      <4> QED  BY <1>0, <2>1, <3>1, <3>2, RxConstants, SMTT(30) DEF FrameEnd
    <3> DEFINE q == d + p
               v == d + e
               x == SubSeq(t, p + 4, e - 1)
    <3>4. /\ q \in 1 .. Len(u) /\ q \in FrameStarts(u, q) /\ v = FrameEnd(u, q)
          /\ u \in Seq(Byte)
      BY <1>0, <2>1, <2>3, <2>5, <3>3
    <3>5. CASE e > n + 1
      <4>1. Scan(t)[p] = <<>>
        BY <2>1, <2>5, <3>5, ScanCut
      <4>2. v > Len(u) + 1
        <5>1. e > n + 1 /\ e \in Nat
          BY <3>1, <3>5
        <5> HIDE DEF e, n
        <5> QED  BY <5>1, <1>0
      <4> HIDE DEF q, v
      <4>3. Scan(u)[q] = <<>>
        BY <3>4, <4>2, ScanCut
      <4> QED  BY <2>1, <4>1, <4>3 DEF p, q
    <3>6. CASE ~(e > n + 1)
      <4> HIDE DEF x
      <4>1. Scan(t)[p] = <<x>> \o Scan(t)[e]
        BY <2>1, <2>5, <3>6, ScanFrame DEF x
      <4> HIDE DEF e
      <4>2. e \in p + 1 .. n + 1
        BY <3>1, <3>6, <1>0, <2>1, SMTT(30)
      <4>3. Scan(u)[v] = Scan(t)[e]
        BY <2>2, <4>2
      <4>4. SubSeq(u, q + 4, v - 1) = x
        <5>1. FrameLength(t, p) \in Nat /\ e \in Nat /\ e = p + 4 + FrameLength(t, p)
          BY <3>1
        <5>2. /\ p + 4 \in Nat /\ p + 4 >= 1 /\ e - 1 \in Nat /\ e - 1 <= n
              /\ p + 4 <= e - 1 + 1
          <6> DEFINE l == FrameLength(t, p)
          <6>1. l \in Nat /\ e = p + 4 + l
            BY <5>1
          <6> HIDE DEF n, l
          <6>2. p \in Nat /\ n \in Nat
            BY <1>0, <2>1
          <6>3. e <= n + 1 /\ e >= p + 1
            BY <4>2, <5>1, <6>2
          <6> QED  BY ONLY <5>1, <6>1, <6>2, <6>3
        <5>4. d + (p + 4) = q + 4 /\ d + (e - 1) = v - 1
          <6>1. d \in Nat /\ p \in Nat /\ e \in Nat
            BY <1>0, <2>1, <5>1
          <6> QED  BY ONLY <6>1
        <5>3. SubSeq(u, d + (p + 4), d + (e - 1)) = x
          BY <5>2, ShiftedSubSeq DEF u, d, x
        <5> HIDE DEF q, v
        <5> QED  BY <5>4, <5>3
      <4>5. ~(v > Len(u) + 1)
        BY <1>0, <3>1, <4>2
      <4> HIDE DEF q, v
      <4>6. Scan(u)[q] = <<SubSeq(u, q + 4, v - 1)>> \o Scan(u)[v]
        BY <3>4, <4>5, ScanFrame
      <4>7. Scan(u)[q] = Scan(t)[p]
        BY <4>1, <4>3, <4>4, <4>6
      <4> QED  BY <2>1, <4>7 DEF p, q
    <3> QED  BY <3>5, <3>6
  <2> QED  BY <2>4, <2>5
<1> HIDE DEF Moved
<1>3. Bad = {}
  <2> SUFFICES ASSUME Bad # {} PROVE FALSE
    OBVIOUS
  <2>0. Bad \in SUBSET Nat
    BY <1>0
  <2>1. PICK k \in Bad : \A j \in Bad : k <= j
    <3> HIDE DEF Bad
    <3> QED  BY <2>0, LeastElement
  <2>2. k \in 1 .. n /\ ~Moved(k)
    BY <1>0, <1>1, <2>1
  <2>3. \A j \in 0 .. k - 1 : Moved(j)
    BY <1>0, <2>1, <2>2
  <2> QED  BY <1>2, <2>2, <2>3
<1>4. n + 1 - c \in 0 .. n /\ d + n + 1 - (n + 1 - c) = d + c /\ n + 1 - (n + 1 - c) = c
  BY <1>0
<1>5. Moved(n + 1 - c)
  BY <1>3, <1>4
<1> QED  BY <1>4, <1>5 DEF Moved, u, d

\* What is found is a sequence of payloads.
LEMMA ScanType ==
  ASSUME NEW s \in Seq(Byte), NEW c \in 1 .. Len(s) + 1
  PROVE  Scan(s)[c] \in Seq(Seq(Byte))
<1> DEFINE n == Len(s)
           Typed(k) == Scan(s)[n + 1 - k] \in Seq(Seq(Byte))
           Bad == {k \in 0 .. n : ~Typed(k)}
<1>0. n \in Nat
  BY LenProperties
<1>1. Typed(0)
  <2>1. Scan(s)[n + 1] = <<>>
    BY ScanEnd
  <2>2. n + 1 - 0 = n + 1
    BY <1>0
  <2>3. <<>> \in Seq(Seq(Byte))
    OBVIOUS
  <2> QED  BY <2>1, <2>2, <2>3
<1>2. ASSUME NEW k \in 1 .. n, \A j \in 0 .. k - 1 : Typed(j) PROVE Typed(k)
  <2> DEFINE p == n + 1 - k
  <2>1. p \in 1 .. n /\ p \in Nat /\ p \in 1 .. n + 1
    BY <1>0
  <2>2. \A q \in p + 1 .. n + 1 : Scan(s)[q] \in Seq(Seq(Byte))
    <3> SUFFICES ASSUME NEW q \in p + 1 .. n + 1 PROVE Scan(s)[q] \in Seq(Seq(Byte))
      OBVIOUS
    <3>1. n + 1 - q \in 0 .. k - 1
      BY <1>0
    <3>2. Typed(n + 1 - q)
      BY <3>1, <1>2
    <3>3. n + 1 - (n + 1 - q) = q
      BY <1>0
    <3> QED  BY <3>2, <3>3
  <2> HIDE DEF p
  <2>3. CASE p \notin FrameStarts(s, p)
    <3>1. Scan(s)[p] = Scan(s)[p + 1]
      BY <2>1, <2>3, ScanNoise
    <3>2. p + 1 \in p + 1 .. n + 1
      BY <1>0, <2>1
    <3> QED  BY <2>2, <3>1, <3>2 DEF p
  <2>4. CASE p \in FrameStarts(s, p)
    <3> DEFINE e == FrameEnd(s, p)
               x == SubSeq(s, p + 4, e - 1)
    <3>1. e \in Nat /\ e > p + 3
      BY <2>1, <2>4, StartFacts
    <3>2. CASE e > n + 1
      <4>1. Scan(s)[p] = <<>>
        BY <2>1, <2>4, <3>2, ScanCut
      <4> QED  BY <4>1 DEF p
    <3>3. CASE ~(e > n + 1)
      <4>1. Scan(s)[p] = <<x>> \o Scan(s)[e]
        BY <2>1, <2>4, <3>3, ScanFrame
      <4> HIDE DEF e
      <4>2. e \in p + 1 .. n + 1
        BY <1>0, <2>1, <3>1, <3>3
      <4>3. \A i \in p + 4 .. e - 1 : s[i] \in Byte
        <5> SUFFICES ASSUME NEW i \in p + 4 .. e - 1 PROVE s[i] \in Byte
          OBVIOUS
        <5>1. i \in 1 .. n
          BY <1>0, <2>1, <3>1, <4>2
        <5> QED  BY <5>1, ElementOfSeq
      <4>4. x \in Seq(Byte)
        <5>1. p + 4 \in Int /\ e - 1 \in Int
          BY <2>1, <3>1
        <5> QED  BY <4>3, <5>1, SubSeqProperties
      <4> HIDE DEF x
      <4>5. <<x>> \in Seq(Seq(Byte)) /\ Scan(s)[e] \in Seq(Seq(Byte))
        BY <2>2, <4>2, <4>4
      <4>6. <<x>> \o Scan(s)[e] \in Seq(Seq(Byte))
        BY <4>5, ConcatProperties
      <4> QED  BY <4>1, <4>6 DEF p
    <3> QED  BY <3>2, <3>3
  <2> QED  BY <2>3, <2>4
<1> HIDE DEF Typed
<1>3. Bad = {}
  <2> SUFFICES ASSUME Bad # {} PROVE FALSE
    OBVIOUS
  <2>0. Bad \in SUBSET Nat
    BY <1>0
  <2>1. PICK k \in Bad : \A j \in Bad : k <= j
    <3> HIDE DEF Bad
    <3> QED  BY <2>0, LeastElement
  <2>2. k \in 1 .. n /\ ~Typed(k)
    BY <1>0, <1>1, <2>1
  <2>3. \A j \in 0 .. k - 1 : Typed(j)
    BY <1>0, <2>1, <2>2
  <2> QED  BY <1>2, <2>2, <2>3
<1>4. n + 1 - c \in 0 .. n /\ n + 1 - (n + 1 - c) = c
  BY <1>0
<1>5. Typed(n + 1 - c)
  BY <1>3, <1>4
<1> QED  BY <1>4, <1>5 DEF Typed

\* What is decoded is a sequence of payloads.
LEMMA DecodeType ==
  ASSUME NEW s \in Seq(Byte)
  PROVE  Decode(s) \in Seq(Seq(Byte))
<1>1. Len(s) \in Nat
  BY LenProperties
<1>2. 1 \in 1 .. Len(s) + 1
  BY <1>1
<1> QED  BY <1>2, ScanType DEF Decode

\* Leading bytes from which no frame starts decode to nothing.
LEMMA DecodeNoise ==
  ASSUME NEW b \in Byte, NEW t \in Seq(Byte), 1 \notin FrameStarts(<<b>> \o t, 1)
  PROVE  Decode(<<b>> \o t) = Decode(t)
<1> DEFINE s == <<b>>
           u == s \o t
<1>1. /\ s \in Seq(Byte) /\ Len(s) = 1 /\ u \in Seq(Byte) /\ Len(u) = 1 + Len(t)
      /\ Len(t) \in Nat
  BY LenProperties, ConcatProperties
<1> HIDE DEF s
<1>2. 1 \in 1 .. Len(t) + 1 /\ 1 \in 1 .. Len(u)
  BY <1>1
<1>3. Scan(u)[Len(s) + 1] = Scan(t)[1]
  BY <1>1, <1>2, ScanShift
<1>4. Scan(u)[1] = Scan(u)[1 + 1]
  BY <1>1, <1>2, ScanNoise DEF s
<1> QED  BY <1>1, <1>3, <1>4 DEF Decode, s

\* A leading frame decodes to its payload.
LEMMA DecodeFrame ==
  ASSUME NEW h \in Seq(Byte), Len(h) = 4, NEW x \in Seq(Byte), NEW t \in Seq(Byte),
         h[1] = 172, h[2] = 190, Len(x) = h[3] + 256 * h[4], Len(x) <= MaxEncoded
  PROVE  Decode((h \o x) \o t) = <<x>> \o Decode(t)
<1> DEFINE s == h \o x
           u == s \o t
           l == Len(x)
<1>1. /\ s \in Seq(Byte) /\ Len(s) = 4 + l /\ l \in Nat /\ Len(t) \in Nat
      /\ u \in Seq(Byte) /\ Len(u) = 4 + l + Len(t)
      /\ \A i \in 1 .. 4 : s[i] = h[i]
      /\ \A i \in 1 .. l : s[i + 4] = x[i]
  <2>1. Len(t) \in Nat /\ l \in Nat
    BY LenProperties
  <2> HIDE DEF l
  <2>2. /\ s \in Seq(Byte) /\ Len(s) = 4 + l
        /\ \A i \in 1 .. 4 + l : s[i] = IF i <= 4 THEN h[i] ELSE x[i - 4]
    <3>1. /\ s \in Seq(Byte) /\ Len(s) = Len(h) + Len(x)
          /\ \A i \in 1 .. Len(h) + Len(x) : s[i] = IF i <= Len(h) THEN h[i] ELSE x[i - Len(h)]
      BY ONLY h \in Seq(Byte), x \in Seq(Byte), ConcatProperties
    <3> HIDE DEF s
    <3> QED  BY <3>1 DEF l
  <2> HIDE DEF s
  <2>3. u \in Seq(Byte) /\ Len(u) = 4 + l + Len(t)
    BY <2>2, ConcatProperties
  <2>4. \A i \in 1 .. 4 : s[i] = h[i]
    BY <2>1, <2>2
  <2>5. ASSUME NEW i \in 1 .. l PROVE s[i + 4] = x[i]
    <3>1. i + 4 \in 1 .. 4 + l /\ ~(i + 4 <= 4) /\ i + 4 - 4 = i
      BY <2>1
    <3> QED  BY <2>2, <3>1
  <2> QED  BY <2>1, <2>2, <2>3, <2>4, <2>5
<1>2. \A i \in 1 .. Len(s) : u[i] = s[i]
  <2> HIDE DEF s
  <2> QED  BY <1>1, ConcatProperties
<1> HIDE DEF s
<1>3. \A i \in 1 .. 4 : u[i] = h[i]
  <2> HIDE DEF u, l
  <2> QED  BY <1>1, <1>2
<1>4. u[1] = 172 /\ u[2] = 190 /\ FrameLength(u, 1) = l
  <2> HIDE DEF u
  <2>1. u[1] = h[1] /\ u[2] = h[2] /\ u[1 + 2] = h[3] /\ u[1 + 3] = h[4]
    BY <1>3
  <2> QED  BY <2>1 DEF FrameLength
<1> HIDE DEF u
<1>5. 1 \in FrameStarts(u, 1)
  <2>1. 1 \in 1 .. Len(u) - 3 /\ u[1 + 1] = u[2]
    <3> HIDE DEF l
    <3> QED  BY <1>1
  <2> QED  BY <2>1, <1>4 DEF FrameStarts
<1>6. FrameEnd(u, 1) = 5 + l
  <2> HIDE DEF l
  <2> QED  BY <1>1, <1>4, RxConstants DEF FrameEnd
<1> DEFINE e == 5 + l
<1>7. e = FrameEnd(u, 1) /\ ~(e > Len(u) + 1) /\ 1 \in 1 .. Len(u) /\ e - 1 = 4 + l
      /\ e = Len(s) + 1 /\ 1 \in 1 .. Len(t) + 1
  <2> HIDE DEF l
  <2> QED  BY <1>1, <1>6
<1> HIDE DEF e
<1>8. Scan(u)[1] = <<SubSeq(u, 1 + 4, e - 1)>> \o Scan(u)[e]
  <2> DEFINE c == 1
  <2>1. /\ c \in FrameStarts(u, c) /\ e = FrameEnd(u, c) /\ c \in 1 .. Len(u)
        /\ u \in Seq(Byte) /\ ~(e > Len(u) + 1)
    BY <1>1, <1>5, <1>7
  <2> HIDE DEF c
  <2>2. Scan(u)[c] = <<SubSeq(u, c + 4, e - 1)>> \o Scan(u)[e]
    BY ONLY <2>1, ScanFrame
  <2> QED  BY <2>2 DEF c
<1>9. Scan(u)[e] = Scan(t)[1]
  <2>1. Scan(u)[Len(s) + 1] = Scan(t)[1]
    <3>1. s \in Seq(Byte) /\ 1 \in 1 .. Len(t) + 1
      BY <1>1, <1>7
    <3>2. Scan(s \o t)[Len(s) + 1] = Scan(t)[1]
      BY <3>1, ScanShift
    <3> QED  BY <3>2 DEF u
  <2> QED  BY <2>1, <1>7
<1>10. SubSeq(u, 1 + 4, e - 1) = x
  <2> DEFINE y == SubSeq(u, 5, 4 + l)
  <2>1. \A i \in 5 .. 4 + l : u[i] \in Byte
    <3> HIDE DEF l
    <3> QED  BY <1>1, ElementOfSeq
  <2>2. /\ y \in Seq(Byte) /\ Len(y) = l
        /\ \A i \in 1 .. l : y[i] = u[5 + i - 1]
    <3> DEFINE m == 4 + l
    <3>1. m \in Int /\ (5 <= m \/ l = 0) /\ m - 5 + 1 = l
      <4> HIDE DEF l
      <4> QED  BY <1>1
    <3>2. \A i \in 5 .. m : u[i] \in Byte
      BY <2>1
    <3> HIDE DEF m
    <3>3. /\ SubSeq(u, 5, m) \in Seq(Byte)
          /\ Len(SubSeq(u, 5, m)) = IF 5 <= m THEN m - 5 + 1 ELSE 0
          /\ \A i \in 1 .. m - 5 + 1 : SubSeq(u, 5, m)[i] = u[5 + i - 1]
      BY <3>1, <3>2, SubSeqProperties
    <3>4. /\ SubSeq(u, 5, m) \in Seq(Byte) /\ Len(SubSeq(u, 5, m)) = l
          /\ \A i \in 1 .. l : SubSeq(u, 5, m)[i] = u[5 + i - 1]
      <4> HIDE DEF l
      <4> QED  BY <3>1, <3>3
    <3> QED  BY <3>4 DEF m
  <2> HIDE DEF y
  <2>3. ASSUME NEW i \in 1 .. l PROVE y[i] = x[i]
    <3>1. 5 + i - 1 = i + 4 /\ i + 4 \in 1 .. Len(s)
      <4> HIDE DEF l
      <4> QED  BY <1>1
    <3>2. u[i + 4] = x[i]
      BY <1>1, <1>2, <3>1, SMTT(30)
    <3> QED  BY <2>2, <3>1, <3>2
  <2>4. y = x
    BY <2>2, <2>3, SeqEqual
  <2> QED  BY <2>4, <1>7 DEF y
<1> QED  BY <1>8, <1>9, <1>10 DEF Decode, u, s

-----------------------------------------------------------------------------
(* The bytes of the receive ring.                                          *)

\* What whad_ringbuf_copy returns is the beginning of what waits.
LEMMA CopyConcat ==
  ASSUME NEW r \in Ring, NEW n \in Nat, CanCopy(r, n)
  PROVE  \E t \in Seq(Byte) : Contents(r) = Copy(r, n) \o t
<1> DEFINE c == Contents(r)
           u == RingUsed(r)
           t == SubSeq(c, n + 1, u)
<1>1. c \in Seq(Byte) /\ Len(c) = u /\ u \in Nat /\ n <= u
  BY ContentsType, UsedCases, RingAssumption DEF CanCopy, RingCapacity
<1>2. Copy(r, n) = SubSeq(c, 1, n)
  BY CopyFacts
<1> HIDE DEF c, u
<1>3. SubSeq(c, 1, n) \o t = c
  <2>1. /\ 1 \in 1 .. Len(c) + 1 /\ n \in 1 - 1 .. Len(c) /\ Len(c) \in n .. Len(c)
    BY <1>1
  <2>2. SubSeq(c, 1, n) \o SubSeq(c, n + 1, Len(c)) = SubSeq(c, 1, Len(c))
    BY <1>1, <2>1, ConcatAdjacentSubSeq
  <2>3. SubSeq(c, 1, Len(c)) = c
    BY <1>1, SubSeqFull
  <2> QED  BY <1>1, <2>2, <2>3
<1>4. t \in Seq(Byte)
  <2>1. \A i \in n + 1 .. u : c[i] \in Byte
    BY <1>1, ElementOfSeq
  <2> QED  BY <1>1, <2>1, SubSeqProperties
<1> QED  BY <1>2, <1>3, <1>4 DEF c

\* Skipping as many bytes as the beginning has leaves the rest.
LEMMA SkipConcat ==
  ASSUME NEW r \in Ring, NEW s \in Seq(Byte), NEW t \in Seq(Byte),
         Contents(r) = s \o t
  PROVE  CanSkip(r, Len(s)) /\ Contents(Skip(r, Len(s))) = t
<1> DEFINE n == Len(s)
           m == Len(t)
           x == SubSeq(s \o t, n + 1, n + m)
<1>1. n \in Nat /\ m \in Nat /\ RingUsed(r) = n + m
  BY ContentsType, LenProperties, ConcatProperties
<1>2. CanSkip(r, n)
  BY <1>1 DEF CanSkip
<1>3. Contents(Skip(r, n)) = x
  BY <1>1, <1>2, SkipFacts
<1>4. x = t
  <2>1. SubSeq(s \o t, Len(s) + 1, Len(s) + Len(t)) = SubSeq(t, 1, Len(t))
    BY <1>1, ShiftedSubSeq
  <2>2. SubSeq(t, 1, Len(t)) = t
    BY SubSeqFull
  <2> QED  BY <2>1, <2>2
<1> QED  BY <1>2, <1>3, <1>4

\* A sequence of bytes that is not empty is its first byte and the rest.
LEMMA FirstByte ==
  ASSUME NEW s \in Seq(Byte), Len(s) >= 1
  PROVE  /\ s[1] \in Byte
         /\ \E t \in Seq(Byte) : /\ s = <<s[1]>> \o t /\ Len(t) = Len(s) - 1
                                 /\ \A i \in 1 .. Len(t) : t[i] = s[i + 1]
<1>1. Len(s) \in Nat /\ s # <<>>
  BY LenProperties
<1> DEFINE t == Tail(s)
<1>2. t \in Seq(Byte) /\ Len(t) = Len(s) - 1 /\ \A i \in 1 .. Len(t) : t[i] = s[i + 1]
  BY <1>1, HeadTailProperties
<1>3. s[1] \in Byte
  <2>1. 1 \in 1 .. Len(s)
    BY <1>1
  <2> QED  BY <2>1, ElementOfSeq
<1> HIDE DEF t
<1>4. s = <<s[1]>> \o t
  <2> DEFINE o == <<s[1]>>
             v == o \o t
  <2>1. o \in Seq(Byte) /\ Len(o) = 1 /\ o[1] = s[1]
    BY <1>3
  <2> HIDE DEF o
  <2>2. /\ v \in Seq(Byte) /\ Len(v) = Len(o) + Len(t)
        /\ \A i \in 1 .. Len(o) + Len(t) : v[i] = IF i <= Len(o) THEN o[i] ELSE t[i - Len(o)]
    <3>1. o \in Seq(Byte) /\ t \in Seq(Byte)
      BY <1>2, <2>1
    <3> QED  BY ONLY <3>1, ConcatProperties
  <2> HIDE DEF v
  <2>3. ASSUME NEW i \in 1 .. Len(s) PROVE s[i] = v[i]
    <3>1. CASE i = 1
      BY <1>1, <1>2, <2>1, <2>2, <3>1
    <3>2. CASE i # 1
      <4>1. i - 1 \in 1 .. Len(t) /\ i - 1 + 1 = i /\ ~(i <= 1)
        BY <1>1, <1>2, <3>2
      <4> QED  BY <1>1, <1>2, <2>1, <2>2, <4>1
    <3> QED  BY <3>1, <3>2
  <2>4. Len(v) = Len(s)
    BY <1>1, <1>2, <2>1, <2>2
  <2> QED  BY <2>2, <2>3, <2>4, SeqEqual DEF v, o
<1> QED  BY <1>2, <1>3, <1>4

\* A byte after which no frame starts in what waits and what comes later.
LEMMA DropByte ==
  ASSUME NEW c \in Seq(Byte), NEW d \in Seq(Byte), NEW b \in Byte, c = <<b>> \o d,
         NEW t \in Seq(Byte), 1 \notin FrameStarts(c \o t, 1)
  PROVE  Decode(c \o t) = Decode(d \o t)
<1>1. <<b>> \in Seq(Byte) /\ d \o t \in Seq(Byte)
  BY ConcatProperties
<1>2. c \o t = <<b>> \o (d \o t)
  BY <1>1, ConcatAssociative
<1> QED  BY <1>1, <1>2, DecodeNoise

\* Where no magic or no legal length starts, no frame does.
LEMMA NoFrame ==
  ASSUME NEW h \in Seq(Byte), Len(h) = 4, NEW t \in Seq(Byte),
         ~(h[1] = 172 /\ h[2] = 190 /\ h[3] + 256 * h[4] <= MaxEncoded)
  PROVE  1 \notin FrameStarts(h \o t, 1)
<1> DEFINE u == h \o t
<1>1. Len(t) \in Nat
  BY LenProperties
<1>2. \A i \in 1 .. Len(h) + Len(t) : u[i] = IF i <= Len(h) THEN h[i] ELSE t[i - Len(h)]
  BY ONLY h \in Seq(Byte), t \in Seq(Byte), ConcatProperties
<1> HIDE DEF u
<1>3. u[1] = h[1] /\ u[2] = h[2] /\ u[3] = h[3] /\ u[4] = h[4]
  BY <1>1, <1>2
<1>4. 1 \in FrameStarts(u, 1) => u[1] = 172 /\ u[2] = 190 /\ FrameLength(u, 1) <= MaxEncoded
  <2>1. 1 + 1 = 2
    OBVIOUS
  <2> QED  BY <2>1 DEF FrameStarts
<1>5. FrameLength(u, 1) = h[3] + 256 * h[4]
  <2>1. 1 + 2 = 3 /\ 1 + 3 = 4
    OBVIOUS
  <2> QED  BY <1>3, <2>1 DEF FrameLength
<1> QED  BY <1>3, <1>4, <1>5 DEF u

-----------------------------------------------------------------------------
(* get_message and the decoder.                                            *)

\* What has been delivered and what is still to be found agree with the
\* reference decoder whatever comes next.
Decoding ==
  \A t \in Seq(Byte) : Decode(received \o t) = delivered \o Decode(Ahead \o t)

\* The locals of get_message are the bytes at the tail of the ring, whatever an
\* interrupt has added at its head.
RxData ==
  /\ pc = "parse" => \E t \in Seq(Byte) : Contents(rx) = header \o t
  /\ pc = "skip" => \E t \in Seq(Byte) : Contents(rx) = buffer \o t
  /\ pc \in {"copy", "skip"} => HasMagic

\* The inductive invariant of the receive path and of what it delivers.
RxDecodeInv == RxInv /\ RxData /\ Decoding

\* Types of what the decoder is applied to.
LEMMA DecodingTypes ==
  ASSUME RxInv
  PROVE  /\ rx \in Ring /\ Contents(rx) \in Seq(Byte) /\ header \in Seq(Byte)
         /\ received \in Seq(Byte) /\ delivered \in Seq(Seq(Byte)) /\ buffer \in Seq(Byte)
         /\ Ahead \in Seq(Byte)
         /\ pc \notin {"copy", "skip"} => Ahead = Contents(rx)
         /\ pc \in {"copy", "skip"} => Ahead = header \o Contents(rx)
<1>1. /\ rx \in Ring /\ Contents(rx) \in Seq(Byte) /\ header \in Seq(Byte)
      /\ received \in Seq(Byte) /\ delivered \in Seq(Seq(Byte)) /\ buffer \in Seq(Byte)
  BY ContentsType DEF RxInv, TypeOK
<1>2. <<>> \o Contents(rx) = Contents(rx) /\ header \o Contents(rx) \in Seq(Byte)
  BY <1>1, ConcatEmptySeq, ConcatProperties
<1> QED  BY <1>1, <1>2 DEF Ahead

\* Nothing received, nothing delivered.
LEMMA DecodeInit == Init => RxData /\ Decoding
<1> SUFFICES ASSUME Init PROVE RxData /\ Decoding
  OBVIOUS
<1>1. pc = "idle" /\ received = <<>> /\ delivered = <<>> /\ rx = EmptyRing
  BY DEF Init
<1>2. RxData
  BY <1>1 DEF RxData
<1>3. Ahead = <<>>
  <2>1. RxInv
    BY RxInvInit
  <2>2. RingUsed(rx) = 0
    <3>1. rx \in Ring /\ rx.head = 0 /\ rx.tail = 0
      BY <1>1, <2>1 DEF EmptyRing, RxInv, TypeOK
    <3> QED  BY <3>1, UsedCases
  <2>3. Contents(rx) \in Seq(Byte) /\ Len(Contents(rx)) = 0
    BY <2>1, <2>2, ContentsType DEF RxInv, TypeOK
  <2>4. Contents(rx) = <<>>
    BY <2>3, EmptySeq
  <2> QED  BY <1>1, <2>1, <2>4, DecodingTypes
<1>4. ASSUME NEW t \in Seq(Byte)
      PROVE  Decode(received \o t) = delivered \o Decode(Ahead \o t)
  <2>1. <<>> \o t = t /\ <<>> \o Decode(t) = Decode(t)
    BY ConcatEmptySeq, DecodeType
  <2> QED  BY <1>1, <1>3, <2>1
<1> QED  BY <1>2, <1>4 DEF Decoding

\* Interrupt: the bytes that are kept come after those that wait.
LEMMA DataReceivedDecode ==
  ASSUME RxDecodeInv, NEW chunk \in Chunks, DataReceived(chunk)
  PROVE  RxData' /\ Decoding'
<1> DEFINE room == RingFree(rx)
           kept == IF Len(chunk) <= room THEN chunk ELSE SubSeq(chunk, 1, room)
<1>1. /\ rx \in Ring /\ room \in Nat /\ chunk \in Seq(Byte) /\ Len(chunk) \in Nat
      /\ RxInv /\ RxInv'
  BY UsedCases, RxConstants, RxAssumption, DataReceivedStep DEF RxDecodeInv, RxInv, TypeOK
<1>2. kept \in Seq(Byte) /\ Len(kept) <= room
  <2>1. CASE Len(chunk) <= room
    BY <2>1, <1>1
  <2>2. CASE ~(Len(chunk) <= room)
    <3>1. kept = SubSeq(chunk, 1, room) /\ room <= Len(chunk) /\ room \in 0 .. Len(chunk)
      BY <2>2, <1>1
    <3> HIDE DEF kept, room
    <3> QED  BY <3>1, <1>1, <2>2
  <2> QED  BY <2>1, <2>2
<1>3. /\ rx' = PushAll(rx, kept) /\ received' = received \o kept
      /\ UNCHANGED <<pc, header, buffer, delivered>>
  BY DEF DataReceived
<1> HIDE DEF kept
<1>4. Contents(rx)' = Contents(rx) \o kept
  <2>1. Contents(PushAll(rx, kept)) = Contents(rx) \o kept
    BY <1>1, <1>2, PushAllContents
  <2>2. Contents(rx') = Contents(rx) \o kept
    BY <2>1, <1>3
  <2> QED  BY <2>2
<1> HIDE DEF room
<1>5. ASSUME NEW s \in Seq(Byte), \E t \in Seq(Byte) : Contents(rx) = s \o t
      PROVE  \E t \in Seq(Byte) : Contents(rx)' = s \o t
  <2>1. PICK t \in Seq(Byte) : Contents(rx) = s \o t
    BY <1>5
  <2>2. t \o kept \in Seq(Byte) /\ (s \o t) \o kept = s \o (t \o kept)
    BY <1>2, ConcatProperties, ConcatAssociative
  <2> QED  BY <1>4, <2>1, <2>2
<1>6. RxData'
  <2>1. header \in Seq(Byte) /\ buffer \in Seq(Byte)
    BY <1>1, DecodingTypes
  <2>2. pc' = "parse" => \E t \in Seq(Byte) : Contents(rx)' = header' \o t
    BY <1>3, <1>5, <2>1 DEF RxDecodeInv, RxData
  <2>3. pc' = "skip" => \E t \in Seq(Byte) : Contents(rx)' = buffer' \o t
    BY <1>3, <1>5, <2>1 DEF RxDecodeInv, RxData
  <2>4. (pc \in {"copy", "skip"} => HasMagic)'
    BY <1>3 DEF RxDecodeInv, RxData, HasMagic
  <2> QED  BY <2>2, <2>3, <2>4 DEF RxData
<1>7. Ahead' = Ahead \o kept
  <2>1. (IF pc \in {"copy", "skip"} THEN header ELSE <<>>)'
          = IF pc \in {"copy", "skip"} THEN header ELSE <<>>
    BY <1>3
  <2> DEFINE h == IF pc \in {"copy", "skip"} THEN header ELSE <<>>
  <2>2. h \in Seq(Byte) /\ Contents(rx) \in Seq(Byte)
    BY <1>1, DecodingTypes
  <2>3. (h \o Contents(rx)) \o kept = h \o (Contents(rx) \o kept)
    <3> HIDE DEF h
    <3> QED  BY <1>2, <2>2, ConcatAssociative
  <2> QED  BY <1>4, <2>1, <2>3 DEF Ahead
<1>8. ASSUME NEW t \in Seq(Byte)
      PROVE  Decode(received' \o t) = delivered' \o Decode(Ahead' \o t)
  <2>1. /\ kept \o t \in Seq(Byte)
        /\ (received \o kept) \o t = received \o (kept \o t)
        /\ (Ahead \o kept) \o t = Ahead \o (kept \o t)
    <3>1. received \in Seq(Byte) /\ Ahead \in Seq(Byte) /\ kept \in Seq(Byte)
      BY <1>1, <1>2, DecodingTypes
    <3>2. kept \o t \in Seq(Byte)
      BY <3>1, ConcatProperties
    <3>3. (received \o kept) \o t = received \o (kept \o t)
      BY <3>1, ConcatAssociative
    <3>4. (Ahead \o kept) \o t = Ahead \o (kept \o t)
      BY <3>1, ConcatAssociative
    <3> QED  BY <3>2, <3>3, <3>4
  <2>2. Decode(received \o (kept \o t)) = delivered \o Decode(Ahead \o (kept \o t))
    BY <2>1 DEF RxDecodeInv, Decoding
  <2> QED  BY <1>3, <1>7, <2>1, <2>2
<1>9. Decoding'
  BY <1>8 DEF Decoding
<1> QED  BY <1>6, <1>9

\* The steps that leave the ring and the deliveries alone.
LEMMA QuietDecode ==
  ASSUME RxDecodeInv, rx' = rx, UNCHANGED <<received, delivered>>,
         pc \notin {"copy", "skip"}, pc' \notin {"copy", "skip"}
  PROVE  Decoding'
<1>1. Ahead' = Ahead
  BY DEF Ahead
<1> QED  BY <1>1 DEF RxDecodeInv, Decoding

\* Steps of get_message that consume nothing.
LEMMA HeaderDecode ==
  ASSUME RxDecodeInv, CheckSize \/ ReadHeader \/ (\E n \in DestSizes : Call(n))
  PROVE  RxData' /\ Decoding'
<1>1. /\ rx' = rx /\ UNCHANGED <<received, delivered>>
      /\ pc \notin {"copy", "skip"} /\ pc' \notin {"copy", "skip"}
  BY DEF CheckSize, ReadHeader, Call, isrVars, Return
<1>2. Decoding'
  BY <1>1, QuietDecode
<1>3. pc' = "parse" => \E t \in Seq(Byte) : Contents(rx)' = header' \o t
  <2> SUFFICES ASSUME pc' = "parse"
               PROVE  \E t \in Seq(Byte) : Contents(rx)' = header' \o t
    OBVIOUS
  <2>1. CanCopy(rx, HeaderSize) /\ header' = Copy(rx, HeaderSize)
    BY DEF CheckSize, ReadHeader, Call, Return
  <2>2. \E t \in Seq(Byte) : Contents(rx) = Copy(rx, HeaderSize) \o t
    BY <2>1, CopyConcat, RxConstants DEF RxDecodeInv, RxInv, TypeOK
  <2>3. Contents(rx)' = Contents(rx)
    BY <1>1
  <2> QED  BY <2>1, <2>2, <2>3
<1> QED  BY <1>1, <1>2, <1>3 DEF RxData

\* The returns that follow the parse: a byte or two from which no frame can
\* start are dropped, or nothing is.
LEMMA RejectDecode ==
  ASSUME RxDecodeInv, BadMagic \/ BadLength \/ TooSmall \/ Incomplete
  PROVE  RxData' /\ Decoding'
<1> DEFINE c == Contents(rx)
<1>1. /\ pc = "parse" /\ pc' = "idle" /\ UNCHANGED <<received, delivered>>
      /\ Len(header) = 4 /\ RxInv
  BY DEF BadMagic, BadLength, TooSmall, Incomplete, Return, isrVars, RxDecodeInv, RxInv, RxLocals
<1>2. /\ rx \in Ring /\ c \in Seq(Byte) /\ header \in Seq(Byte) /\ Ahead = c
      /\ Ahead' = Contents(rx)'
  <2>1. RxInv'
    BY RejectSteps DEF RxDecodeInv
  <2>2. <<>> \o Contents(rx') = Contents(rx')
    BY <2>1, ContentsType, ConcatEmptySeq DEF RxInv, TypeOK
  <2> QED  BY <1>1, <2>2, DecodingTypes DEF Ahead
<1>3. RxData'
  BY <1>1 DEF RxData
<1>4. PICK w \in Seq(Byte) : c = header \o w
  BY <1>1 DEF RxDecodeInv, RxData
<1>5. PICK d \in Seq(Byte) :
         /\ c = <<c[1]>> \o d /\ c[1] \in Byte /\ Len(d) = Len(c) - 1
         /\ \A i \in 1 .. Len(d) : d[i] = c[i + 1]
  <2>1. Len(c) >= 1
    <3>1. Len(c) = Len(header) + Len(w) /\ Len(w) \in Nat
      BY <1>2, <1>4, ConcatProperties, LenProperties
    <3> QED  BY <1>1, <3>1
  <2> HIDE DEF c
  <2> QED  BY <1>2, <2>1, FirstByte
<1> HIDE DEF c
<1>6. c[1] = header[1] /\ c[2] = header[2] /\ Len(c) >= 4 /\ Len(c) \in Nat
  <2>1. Len(w) \in Nat
    BY LenProperties
  <2>2. /\ Len(c) = Len(header) + Len(w)
        /\ \A i \in 1 .. Len(header) + Len(w) :
             c[i] = IF i <= Len(header) THEN header[i] ELSE w[i - Len(header)]
    BY <1>2, <1>4, ConcatProperties
  <2> QED  BY <1>1, <2>1, <2>2
\* No frame starts at the first byte of what waits.
<1>7. ASSUME NEW t \in Seq(Byte), ~(HasMagic /\ Size <= MaxEncoded)
      PROVE  Decode(c \o t) = Decode(d \o t)
  <2>1. w \o t \in Seq(Byte) /\ c \o t = header \o (w \o t)
    BY <1>2, <1>4, ConcatProperties, ConcatAssociative
  <2>2. ~(header[1] = 172 /\ header[2] = 190 /\ header[3] + 256 * header[4] <= MaxEncoded)
    BY <1>7 DEF HasMagic, Size
  <2>3. 1 \notin FrameStarts(header \o (w \o t), 1)
    <3> DEFINE v == w \o t
    <3>1. header \in Seq(Byte) /\ Len(header) = 4 /\ v \in Seq(Byte)
      BY <1>1, <1>2, <2>1
    <3> HIDE DEF v
    <3>2. 1 \notin FrameStarts(header \o v, 1)
      BY ONLY <3>1, <2>2, NoFrame, ZenonT(60)
    <3> QED  BY <3>2 DEF v
  <2>4. 1 \notin FrameStarts(c \o t, 1)
    BY <2>1, <2>3
  <2> DEFINE b == c[1]
  <2>5. c \in Seq(Byte) /\ d \in Seq(Byte) /\ b \in Byte /\ c = <<b>> \o d
    BY <1>2, <1>5
  <2> HIDE DEF b
  <2> QED  BY ONLY t \in Seq(Byte), <2>4, <2>5, DropByte, ZenonT(60)
<1>8. ASSUME rx' = Skip(rx, 1) PROVE Ahead' = d
  <2>1. <<c[1]>> \in Seq(Byte) /\ Len(<<c[1]>>) = 1
    BY <1>5
  <2>2. Contents(Skip(rx, 1)) = d
    BY <1>2, <1>5, <2>1, SkipConcat DEF c
  <2> QED  BY <1>2, <1>8, <2>2
\* Nor at the second, when it is not the first byte of the magic.
<1>9. ASSUME rx' = Skip(rx, 2), header[2] # 172
      PROVE  \A t \in Seq(Byte) : Decode(d \o t) = Decode(Ahead' \o t)
  <2>1. Len(d) \in Nat /\ Len(d) >= 1 /\ d[1] # 172
    <3>1. Len(d) \in Nat /\ Len(d) >= 1
      BY <1>5, <1>6
    <3>2. d[1] = c[1 + 1] /\ 1 + 1 = 2
      BY <1>5, <3>1
    <3> QED  BY <1>6, <1>9, <3>1, <3>2
  <2>2. PICK e \in Seq(Byte) : d = <<d[1]>> \o e /\ d[1] \in Byte
    BY <2>1, FirstByte
  <2>3. ASSUME NEW t \in Seq(Byte) PROVE Decode(d \o t) = Decode(e \o t)
    <3>1. 1 \notin FrameStarts(d \o t, 1)
      <4>1. (d \o t)[1] = d[1]
        <5>1. Len(t) \in Nat
          BY LenProperties
        <5>2. \A i \in 1 .. Len(d) + Len(t) :
                (d \o t)[i] = IF i <= Len(d) THEN d[i] ELSE t[i - Len(d)]
          BY ONLY d \in Seq(Byte), t \in Seq(Byte), ConcatProperties
        <5> QED  BY <2>1, <5>1, <5>2
      <4> QED  BY <2>1, <4>1 DEF FrameStarts
    <3> QED  BY <2>2, <3>1, DropByte
  <2>4. Ahead' = e
    <3> DEFINE s == <<c[1]>> \o <<d[1]>>
    <3>1. <<c[1]>> \in Seq(Byte) /\ <<d[1]>> \in Seq(Byte)
      BY <1>5, <2>2
    <3>2. s \in Seq(Byte) /\ Len(s) = 2 /\ s \o e = <<c[1]>> \o (<<d[1]>> \o e)
      BY <3>1, ConcatProperties, ConcatAssociative
    <3> HIDE DEF s
    <3>3. c = s \o e
      BY <1>5, <2>2, <3>2
    <3>4. Contents(Skip(rx, 2)) = e
      BY <1>2, <3>2, <3>3, SkipConcat DEF c
    <3> QED  BY <1>2, <1>9, <3>4
  <2> QED  BY <2>3, <2>4
<1>10. ASSUME NEW t \in Seq(Byte) PROVE Decode(Ahead \o t) = Decode(Ahead' \o t)
  <2>1. CASE TooSmall \/ Incomplete
    <3>1. rx' = rx
      BY <2>1 DEF TooSmall, Incomplete
    <3> QED  BY <1>2, <3>1 DEF c
  <2>2. CASE BadLength
    <3>1. rx' = Skip(rx, 1) /\ ~(HasMagic /\ Size <= MaxEncoded)
      <4>1. Size \in Nat /\ Size > MaxEncoded /\ rx' = Skip(rx, 1)
        BY <1>1, <2>2, SizeType DEF BadLength, RxInv
      <4> HIDE DEF Size
      <4> QED  BY <4>1, RxConstants
    <3> QED  BY <1>2, <1>7, <1>8, <3>1
  <2>3. CASE BadMagic /\ header[2] = 172
    <3>1. rx' = Skip(rx, 1) /\ ~HasMagic
      BY <2>3 DEF BadMagic
    <3> QED  BY <1>2, <1>7, <1>8, <3>1
  <2>4. CASE BadMagic /\ header[2] # 172
    <3>1. rx' = Skip(rx, 2) /\ ~HasMagic
      BY <2>4 DEF BadMagic
    <3> QED  BY <1>2, <1>7, <1>9, <2>4, <3>1
  <2> QED  BY <2>1, <2>2, <2>3, <2>4
<1>11. Decoding'
  <2>1. ASSUME NEW t \in Seq(Byte)
        PROVE  Decode(received' \o t) = delivered' \o Decode(Ahead' \o t)
    BY <1>1, <1>10 DEF RxDecodeInv, Decoding
  <2> QED  BY <2>1 DEF Decoding
<1> QED  BY <1>3, <1>11

\* The header moves from the ring to the local that holds it.
LEMMA SkipHeaderDecode ==
  ASSUME RxDecodeInv, SkipHeader
  PROVE  RxData' /\ Decoding'
<1>1. /\ pc = "parse" /\ pc' = "copy" /\ HasMagic /\ rx' = Skip(rx, 4)
      /\ UNCHANGED <<received, delivered, header, buffer>>
      /\ Len(header) = 4 /\ RxInv
  BY RxConstants DEF SkipHeader, isrVars, RxDecodeInv, RxInv, RxLocals
<1>2. rx \in Ring /\ header \in Seq(Byte) /\ Ahead = Contents(rx)
  BY <1>1, DecodingTypes
<1>3. PICK w \in Seq(Byte) : Contents(rx) = header \o w
  BY <1>1 DEF RxDecodeInv, RxData
<1>4. Contents(rx)' = w
  <2>1. Contents(Skip(rx, 4)) = w
    BY <1>1, <1>2, <1>3, SkipConcat
  <2> QED  BY <1>1, <2>1
<1>5. Ahead' = Ahead
  BY <1>1, <1>2, <1>3, <1>4 DEF Ahead
<1>6. RxData'
  BY <1>1 DEF RxData, HasMagic
<1>7. Decoding'
  BY <1>1, <1>5 DEF RxDecodeInv, Decoding
<1> QED  BY <1>6, <1>7

\* The payload is copied while more bytes may arrive.
LEMMA CopyPayloadDecode ==
  ASSUME RxDecodeInv, CopyPayload
  PROVE  RxData' /\ Decoding'
<1>1. /\ pc = "copy" /\ pc' = "skip" /\ UNCHANGED <<rx, received, delivered, header>>
      /\ HasMagic /\ RxInv /\ rx \in Ring
  BY DEF CopyPayload, isrVars, RxDecodeInv, RxData, RxInv, TypeOK
<1>2. Size \in Nat /\ CanCopy(rx, Size)
  <2>1. Size \in Nat
    BY <1>1, SizeType DEF RxInv, RxLocals
  <2> QED  BY <1>1, <2>1, LocalsFit DEF PayloadFits
<1>3. buffer' = Copy(rx, Size)
  BY <1>2 DEF CopyPayload
<1>4. \E t \in Seq(Byte) : Contents(rx) = Copy(rx, Size) \o t
  BY <1>1, <1>2, CopyConcat
<1>5. Contents(rx)' = Contents(rx)
  BY <1>1
<1>6. RxData'
  BY <1>1, <1>3, <1>4, <1>5 DEF RxData, HasMagic
<1>7. Ahead' = Ahead
  BY <1>1, <1>5 DEF Ahead
<1>8. Decoding'
  BY <1>1, <1>7 DEF RxDecodeInv, Decoding
<1> QED  BY <1>6, <1>8

\* The payload that is handed over is the next one the decoder finds.
LEMMA SkipPayloadDecode ==
  ASSUME RxDecodeInv, SkipPayload
  PROVE  RxData' /\ Decoding'
<1>1. /\ pc = "skip" /\ pc' = "idle" /\ delivered' = Append(delivered, buffer)
      /\ received' = received /\ HasMagic /\ RxInv
      /\ Len(header) = 4 /\ Len(buffer) = Size /\ Size <= MaxEncoded
  BY DEF SkipPayload, isrVars, Return, RxDecodeInv, RxData, RxInv, RxLocals
<1>2. /\ rx \in Ring /\ header \in Seq(Byte) /\ buffer \in Seq(Byte)
      /\ delivered \in Seq(Seq(Byte)) /\ Ahead = header \o Contents(rx)
  BY <1>1, DecodingTypes
<1>3. PICK w \in Seq(Byte) : Contents(rx) = buffer \o w
  BY <1>1 DEF RxDecodeInv, RxData
<1>4. Ahead' = w
  <2>1. CanSkip(rx, Size) /\ Contents(Skip(rx, Size)) = w
    BY <1>1, <1>2, <1>3, SkipConcat
  <2>2. rx' = Skip(rx, Size)
    BY <2>1 DEF SkipPayload
  <2>3. <<>> \o w = w
    BY ConcatEmptySeq
  <2> QED  BY <1>1, <2>1, <2>2, <2>3 DEF Ahead
<1>5. ASSUME NEW t \in Seq(Byte)
      PROVE  Decode(received' \o t) = delivered' \o Decode(Ahead' \o t)
  <2>1. w \o t \in Seq(Byte) /\ Ahead \o t = (header \o buffer) \o (w \o t)
    <3>1. w \o t \in Seq(Byte) /\ header \o buffer \in Seq(Byte)
      BY <1>2, ConcatProperties
    <3>2. header \in Seq(Byte) /\ buffer \in Seq(Byte) /\ w \in Seq(Byte) /\ t \in Seq(Byte)
      BY <1>2
    <3>4. header \o (buffer \o w) = (header \o buffer) \o w
      BY ONLY <3>2, ConcatAssociative, SMTT(30)
    <3>5. ((header \o buffer) \o w) \o t = (header \o buffer) \o (w \o t)
      <4> DEFINE v == header \o buffer
      <4>1. v \in Seq(Byte)
        BY <3>1
      <4> HIDE DEF v
      <4>2. (v \o w) \o t = v \o (w \o t)
        BY ONLY <3>2, <4>1, ConcatAssociative, SMTT(30)
      <4> QED  BY ONLY <4>2 DEF v
    <3> QED  BY <1>2, <1>3, <3>1, <3>4, <3>5
  <2>2. Decode(Ahead \o t) = <<buffer>> \o Decode(w \o t)
    <3>1. header[1] = 172 /\ header[2] = 190 /\ Len(buffer) = header[3] + 256 * header[4]
          /\ Len(buffer) <= MaxEncoded
      BY <1>1 DEF HasMagic, Size
    <3> DEFINE v == w \o t
    <3>2. header \in Seq(Byte) /\ Len(header) = 4 /\ buffer \in Seq(Byte) /\ v \in Seq(Byte)
      BY <1>1, <1>2, <2>1
    <3> HIDE DEF v
    <3>3. Decode((header \o buffer) \o v) = <<buffer>> \o Decode(v)
      BY ONLY <3>1, <3>2, DecodeFrame
    <3> QED  BY <2>1, <3>3 DEF v
  <2>3. delivered' = delivered \o <<buffer>>
    BY <1>1, <1>2, AppendIsConcat
  <2>4. (delivered \o <<buffer>>) \o Decode(w \o t) = delivered \o (<<buffer>> \o Decode(w \o t))
    <3>1. Decode(w \o t) \in Seq(Seq(Byte))
      BY <2>1, DecodeType
    <3>2. <<buffer>> \in Seq(Seq(Byte)) /\ delivered \in Seq(Seq(Byte))
      BY <1>2
    <3> DEFINE u == <<buffer>>
               v == Decode(w \o t)
               x == delivered
               S == Seq(Byte)
    <3>3. u \in Seq(S) /\ v \in Seq(S) /\ x \in Seq(S)
      BY <3>1, <3>2
    <3> HIDE DEF u, v, x, S
    <3>4. (x \o u) \o v = x \o (u \o v)
      BY ONLY <3>3, ConcatAssociative, SMTT(30)
    <3> QED  BY ONLY <3>4, Zenon DEF u, v, x
  <2>5. Decode(received \o t) = delivered \o Decode(Ahead \o t)
    BY DEF RxDecodeInv, Decoding
  <2> QED  BY <1>1, <1>4, <2>2, <2>3, <2>4, <2>5
<1>6. RxData'
  BY <1>1 DEF RxData
<1> QED  BY <1>5, <1>6 DEF Decoding

\* Every step keeps the agreement with the decoder.
LEMMA DecodeStep == RxDecodeInv /\ [Next]_vars => RxDecodeInv'
<1> SUFFICES ASSUME RxDecodeInv, [Next]_vars PROVE RxDecodeInv'
  OBVIOUS
<1>1. RxInv'
  BY RxInvStep DEF RxDecodeInv
<1>2. RxData' /\ Decoding'
  <2>1. ASSUME NEW chunk \in Chunks, DataReceived(chunk) PROVE RxData' /\ Decoding'
    BY <2>1, DataReceivedDecode
  <2>2. CASE UNCHANGED vars
    BY <2>2 DEF RxDecodeInv, RxData, Decoding, Ahead, HasMagic, vars, isrVars
  <2> QED
    BY <2>1, <2>2, HeaderDecode, RejectDecode, SkipHeaderDecode, CopyPayloadDecode,
       SkipPayloadDecode DEF Next, GetMessage
<1> QED  BY <1>1, <1>2 DEF RxDecodeInv

\* The agreement, when nothing more comes.
LEMMA DecodedNow == RxDecodeInv => DeliveredIsDecoding
<1> SUFFICES ASSUME RxDecodeInv PROVE DeliveredIsDecoding
  OBVIOUS
<1>1. <<>> \in Seq(Byte) /\ received \o <<>> = received /\ Ahead \o <<>> = Ahead
  BY DecodingTypes, ConcatEmptySeq DEF RxDecodeInv
<1>2. Decode(received \o <<>>) = delivered \o Decode(Ahead \o <<>>)
  BY <1>1 DEF RxDecodeInv, Decoding
<1> QED  BY <1>1, <1>2 DEF DeliveredIsDecoding

\* For every ring size, every cut of the host's bytes, every schedule of the
\* interrupt and every size of the caller's buffer, the payloads get_message has
\* delivered, followed by those still to be found in the ring, are the ones the
\* reference decoder finds in the bytes the ring accepted: none is lost, none is
\* invented, none is out of order.
THEOREM RxDelivers == Spec => []DeliveredIsDecoding
<1>1. Init => RxDecodeInv
  BY RxInvInit, DecodeInit DEF RxDecodeInv
<1> QED  BY <1>1, DecodedNow, DecodeStep, PTL DEF Spec

-----------------------------------------------------------------------------
(* What the decoder has found stays found.                                 *)

\* The bytes of a beginning are those of the whole.
LEMMA PrefixBytes ==
  ASSUME NEW s \in Seq(Byte), NEW t \in Seq(Byte)
  PROVE  /\ s \o t \in Seq(Byte) /\ Len(s) \in Nat /\ Len(t) \in Nat
         /\ Len(s \o t) = Len(s) + Len(t)
         /\ \A i \in 1 .. Len(s) : (s \o t)[i] = s[i]
<1> DEFINE u == s \o t
<1>1. /\ u \in Seq(Byte) /\ Len(s) \in Nat /\ Len(t) \in Nat /\ Len(u) = Len(s) + Len(t)
      /\ \A i \in 1 .. Len(s) + Len(t) : u[i] = IF i <= Len(s) THEN s[i] ELSE t[i - Len(s)]
  BY LenProperties, ConcatProperties
<1> HIDE DEF u
<1>2. \A i \in 1 .. Len(s) : u[i] = s[i]
  BY <1>1
<1> QED  BY <1>1, <1>2 DEF u

\* Pieces with the same bytes are the same.
LEMMA SubSeqSame ==
  ASSUME NEW S, NEW s, NEW u, NEW a \in Int, NEW b \in Int,
         \A i \in a .. b : s[i] \in S /\ u[i] = s[i]
  PROVE  SubSeq(s, a, b) \in Seq(S) /\ SubSeq(u, a, b) = SubSeq(s, a, b)
<1> DEFINE x == SubSeq(s, a, b)
           y == SubSeq(u, a, b)
<1>1. /\ x \in Seq(S) /\ Len(x) = IF a <= b THEN b - a + 1 ELSE 0
      /\ \A i \in 1 .. b - a + 1 : x[i] = s[a + i - 1]
  BY SubSeqProperties
<1>2. /\ y \in Seq(S) /\ Len(y) = IF a <= b THEN b - a + 1 ELSE 0
      /\ \A i \in 1 .. b - a + 1 : y[i] = u[a + i - 1]
  BY SubSeqProperties
<1> HIDE DEF x, y
<1>3. ASSUME NEW i \in 1 .. Len(x) PROVE x[i] = y[i]
  <2>1. i \in 1 .. b - a + 1 /\ a + i - 1 \in a .. b
    BY <1>1
  <2> QED  BY <1>1, <1>2, <2>1
<1> QED  BY <1>1, <1>2, <1>3, SeqEqual DEF x, y

\* The header of a frame that starts in s is not changed by what follows s.
LEMMA PrefixStart ==
  ASSUME NEW s \in Seq(Byte), NEW t \in Seq(Byte), NEW c \in 1 .. Len(s), c <= Len(s) - 3
  PROVE  /\ c \in FrameStarts(s \o t, c) <=> c \in FrameStarts(s, c)
         /\ FrameEnd(s \o t, c) = FrameEnd(s, c)
<1> DEFINE u == s \o t
<1>1. /\ Len(s) \in Nat /\ Len(t) \in Nat /\ Len(u) = Len(s) + Len(t)
      /\ \A i \in 1 .. Len(s) : u[i] = s[i]
  BY PrefixBytes
<1> HIDE DEF u
<1>2. /\ u[c] = s[c] /\ u[c + 1] = s[c + 1] /\ u[c + 2] = s[c + 2] /\ u[c + 3] = s[c + 3]
  <2>1. c \in 1 .. Len(s) /\ c + 1 \in 1 .. Len(s) /\ c + 2 \in 1 .. Len(s) /\ c + 3 \in 1 .. Len(s)
    BY <1>1
  <2> QED  BY ONLY <1>1, <2>1, Zenon
<1>3. FrameLength(u, c) = FrameLength(s, c)
  BY <1>2 DEF FrameLength
<1>4. c \in c .. Len(s) - 3 /\ c \in c .. Len(u) - 3
  BY <1>1
<1> QED  BY <1>2, <1>3, <1>4 DEF FrameStarts, FrameEnd, u

\* A frame is found in s from no place where s is too short for a header.
LEMMA ScanShort ==
  ASSUME NEW s \in Seq(Byte), NEW c \in 1 .. Len(s) + 1, c > Len(s) - 3
  PROVE  Scan(s)[c] = <<>>
<1>1. FrameStarts(s, c) = {}
  <2>1. Len(s) \in Nat
    BY LenProperties
  <2>2. c .. Len(s) - 3 = {}
    BY <2>1
  <2> QED  BY <2>2 DEF FrameStarts
<1>2. Found(s, Scan(s), c) = <<>>
  BY <1>1 DEF Found
<1> QED  BY <1>2, ScanEquation

\* What is found in s is the beginning of what is found in s and what follows it.
LEMMA ScanPrefix ==
  ASSUME NEW s \in Seq(Byte), NEW t \in Seq(Byte), NEW c \in 1 .. Len(s) + 1
  PROVE  \E r \in Seq(Seq(Byte)) : Scan(s \o t)[c] = Scan(s)[c] \o r
<1> DEFINE u == s \o t
           n == Len(s)
           Extends(p) == \E r \in Seq(Seq(Byte)) : Scan(u)[p] = Scan(s)[p] \o r
           Kept(k) == Extends(n + 1 - k)
           Bad == {k \in 0 .. n : ~Kept(k)}
<1>0. n \in Nat /\ u \in Seq(Byte) /\ Len(u) = n + Len(t) /\ Len(t) \in Nat
      /\ \A i \in 1 .. n : u[i] = s[i]
  BY PrefixBytes
<1>1. ASSUME NEW p \in 1 .. n + 1, Scan(s)[p] = <<>> PROVE Extends(p)
  <2>1. p \in 1 .. Len(u) + 1
    <3> HIDE DEF u, n
    <3> QED  BY <1>0
  <2>2. Scan(u)[p] \in Seq(Seq(Byte))
    BY <1>0, <2>1, ScanType
  <2>3. Scan(u)[p] = <<>> \o Scan(u)[p]
    BY <2>2, ConcatEmptySeq
  <2> QED  BY <1>1, <2>2, <2>3
<1> HIDE DEF u
<1>2. ASSUME NEW k \in 0 .. n, \A j \in 0 .. k - 1 : Kept(j) PROVE Kept(k)
  <2> DEFINE p == n + 1 - k
  <2>1. p \in 1 .. n + 1 /\ p \in Nat
    BY <1>0
  <2>2. ASSUME NEW q \in p + 1 .. n + 1 PROVE Extends(q)
    <3>1. n + 1 - q \in 0 .. k - 1 /\ n + 1 - (n + 1 - q) = q
      BY <1>0
    <3> HIDE DEF Extends
    <3>2. Kept(n + 1 - q)
      BY <3>1, <1>2
    <3> QED  BY <3>1, <3>2
  <2> HIDE DEF p, Extends
  <2>3. CASE p > n - 3
    <3>1. Scan(s)[p] = <<>>
      BY <2>1, <2>3, ScanShort DEF n
    <3> QED  BY <1>1, <2>1, <3>1 DEF p
  <2>4. CASE ~(p > n - 3)
    <3>0. p \in 1 .. Len(s) /\ p <= Len(s) - 3 /\ p \in 1 .. Len(u) /\ p + 1 \in p + 1 .. n + 1
      BY <1>0, <2>1, <2>4
    <3>1. /\ p \in FrameStarts(u, p) <=> p \in FrameStarts(s, p)
          /\ FrameEnd(u, p) = FrameEnd(s, p)
      BY <3>0, PrefixStart DEF u
    <3>2. CASE p \notin FrameStarts(s, p)
      <4>1. Scan(s)[p] = Scan(s)[p + 1] /\ Scan(u)[p] = Scan(u)[p + 1]
        BY <1>0, <3>0, <3>1, <3>2, ScanNoise
      <4>2. Extends(p + 1)
        BY <2>2, <3>0
      <4> QED  BY <4>1, <4>2 DEF p, Extends
    <3>3. CASE p \in FrameStarts(s, p)
      <4> DEFINE e == FrameEnd(s, p)
      <4>1. e \in Nat /\ e > p + 3
        BY <2>1, <3>3, StartFacts DEF n
      <4>2. CASE e > n + 1
        <5>1. Scan(s)[p] = <<>>
          BY <3>0, <3>3, <4>2, ScanCut
        <5> QED  BY <1>1, <2>1, <5>1 DEF p
      <4>3. CASE ~(e > n + 1)
        <5> DEFINE x == SubSeq(s, p + 4, e - 1)
                   y == SubSeq(u, p + 4, e - 1)
        <5>1. Scan(s)[p] = <<x>> \o Scan(s)[e]
          BY <3>0, <3>3, <4>3, ScanFrame
        <5>2. Scan(u)[p] = <<y>> \o Scan(u)[e]
          <6>1. e = FrameEnd(u, p) /\ ~(e > Len(u) + 1) /\ p \in FrameStarts(u, p)
            <7>1. ~(e > Len(u) + 1)
              <8> HIDE DEF e
              <8> QED  BY <1>0, <4>1, <4>3
            <7> QED  BY <3>1, <3>3, <7>1
          <6> HIDE DEF e
          <6> QED  BY <1>0, <3>0, <6>1, ScanFrame
        <5> HIDE DEF e
        <5>3. /\ e \in p + 1 .. n + 1 /\ p + 4 \in Int /\ e - 1 \in Int
              /\ p + 4 \in 1 .. n + 1 /\ \A i \in p + 4 .. e - 1 : i \in 1 .. n
          BY <1>0, <2>1, <3>0, <4>1, <4>3
        <5>4. x \in Seq(Byte) /\ x = y
          <6>1. \A i \in p + 4 .. e - 1 : s[i] \in Byte /\ u[i] = s[i]
            BY <1>0, <5>3, ElementOfSeq
          <6> DEFINE a == p + 4
                     b == e - 1
          <6>2. a \in Int /\ b \in Int /\ \A i \in a .. b : s[i] \in Byte /\ u[i] = s[i]
            BY <5>3, <6>1
          <6> HIDE DEF a, b
          <6>3. SubSeq(s, a, b) \in Seq(Byte) /\ SubSeq(u, a, b) = SubSeq(s, a, b)
            BY ONLY <6>2, SubSeqSame
          <6> QED  BY ONLY <6>3 DEF x, y, a, b
        <5>5. PICK r \in Seq(Seq(Byte)) : Scan(u)[e] = Scan(s)[e] \o r
          BY <2>2, <5>3 DEF Extends
        <5>6. <<x>> \in Seq(Seq(Byte)) /\ Scan(s)[e] \in Seq(Seq(Byte))
          <6>2. e \in 1 .. Len(s) + 1
            BY <1>0, <2>1, <5>3
          <6> HIDE DEF x
          <6> QED  BY <5>4, <6>2, ScanType
        <5> HIDE DEF x, y
        <5>7. (<<x>> \o Scan(s)[e]) \o r = <<x>> \o (Scan(s)[e] \o r)
          <6> DEFINE v == <<x>>
                     w == Scan(s)[e]
                     S == Seq(Byte)
          <6>1. v \in Seq(S) /\ w \in Seq(S) /\ r \in Seq(S)
            BY <5>6
          <6> HIDE DEF v, w, S
          <6>2. (v \o w) \o r = v \o (w \o r)
            BY ONLY <6>1, ConcatAssociative, SMTT(30)
          <6> QED  BY ONLY <6>2 DEF v, w
        <5> QED  BY <5>1, <5>2, <5>4, <5>5, <5>7 DEF p, Extends
      <4> QED  BY <4>2, <4>3
    <3> QED  BY <3>2, <3>3
  <2> QED  BY <2>3, <2>4
<1> HIDE DEF Kept
<1>3. Bad = {}
  <2> SUFFICES ASSUME Bad # {} PROVE FALSE
    OBVIOUS
  <2>0. Bad \in SUBSET Nat
    BY <1>0
  <2>1. PICK k \in Bad : \A j \in Bad : k <= j
    <3> HIDE DEF Bad
    <3> QED  BY <2>0, LeastElement
  <2>2. \A j \in 0 .. k - 1 : Kept(j)
    BY <1>0, <2>1
  <2> QED  BY <1>2, <2>1, <2>2
<1>4. n + 1 - c \in 0 .. n /\ n + 1 - (n + 1 - c) = c
  BY <1>0
<1>5. Kept(n + 1 - c)
  BY <1>3, <1>4
<1> QED  BY <1>4, <1>5 DEF Kept, u

\* What has been found in the bytes received is the beginning of what will have
\* been found when more have come.
LEMMA DecodePrefix ==
  ASSUME NEW s \in Seq(Byte), NEW t \in Seq(Byte)
  PROVE  \E r \in Seq(Seq(Byte)) : Decode(s \o t) = Decode(s) \o r
<1>1. 1 \in 1 .. Len(s) + 1
  BY LenProperties
<1> QED  BY <1>1, ScanPrefix DEF Decode

-----------------------------------------------------------------------------
(* The sink of frames.                                                     *)

\* A sequence is the beginning of what is made by adding to its end.
LEMMA ConcatIsPrefix ==
  ASSUME NEW S, NEW a \in Seq(S), NEW r \in Seq(S)
  PROVE  IsPrefix(a, a \o r)
<1> DEFINE b == a \o r
<1>1. /\ b \in Seq(S) /\ Len(a) \in Nat /\ Len(r) \in Nat /\ Len(b) = Len(a) + Len(r)
      /\ \A i \in 1 .. Len(a) + Len(r) : b[i] = IF i <= Len(a) THEN a[i] ELSE r[i - Len(a)]
  BY LenProperties, ConcatProperties
<1> HIDE DEF b
<1>2. \A i \in 1 .. Len(a) : a[i] \in S /\ b[i] = a[i]
  BY <1>1, ElementOfSeq
<1>3. SubSeq(b, 1, Len(a)) = SubSeq(a, 1, Len(a))
  BY <1>1, <1>2, SubSeqSame
<1>4. Len(a) <= Len(b)
  BY <1>1
<1> QED  BY <1>3, <1>4 DEF IsPrefix, b

\* Conversely, a sequence that begins with another adds to its end.
LEMMA PrefixIsConcat ==
  ASSUME NEW S, NEW a \in Seq(S), NEW b \in Seq(S), IsPrefix(a, b)
  PROVE  \E r \in Seq(S) : b = a \o r
<1> DEFINE n == Len(a)
           m == Len(b)
           r == SubSeq(b, n + 1, m)
<1>1. n \in Nat /\ m \in Nat /\ n <= m /\ SubSeq(a, 1, n) = SubSeq(b, 1, n)
  BY LenProperties DEF IsPrefix
<1>2. SubSeq(a, 1, n) = a /\ SubSeq(b, 1, m) = b
  BY SubSeqFull
<1> HIDE DEF n
<1>3. SubSeq(b, 1, n) \o SubSeq(b, n + 1, m) = SubSeq(b, 1, m)
  <2>1. 1 \in 1 .. m + 1 /\ n \in 1 - 1 .. m /\ m \in n .. m
    BY <1>1
  <2> QED  BY <2>1, ConcatAdjacentSubSeq
<1>4. r \in Seq(S)
  <2>1. \A i \in n + 1 .. m : b[i] \in S
    <3> SUFFICES ASSUME NEW i \in n + 1 .. m PROVE b[i] \in S
      OBVIOUS
    <3>1. i \in 1 .. Len(b)
      BY <1>1
    <3> QED  BY <3>1, ElementOfSeq
  <2>2. n + 1 \in Int /\ m \in Int
    BY <1>1
  <2> QED  BY <2>1, <2>2, SubSeqProperties
<1> QED  BY <1>1, <1>2, <1>3, <1>4

\* No step but that of the interrupt changes what is found, and no step but the
\* last of get_message hands anything over.
LEMMA SinkQuiet ==
  ASSUME [GetMessage]_vars
  PROVE  received' = received /\ (delivered' = delivered \/ SkipPayload)
BY DEF GetMessage, Call, CheckSize, ReadHeader, BadMagic, BadLength, TooSmall, Incomplete,
       SkipHeader, CopyPayload, SkipPayload, vars, isrVars

\* What arrives adds frames at the end of those found.
LEMMA FindStep ==
  ASSUME RxInv, NEW chunk \in Chunks, DataReceived(chunk)
  PROVE  /\ \E r \in Seq(Seq(Byte)) : Decode(received)' = Decode(received) \o r
         /\ Decode(received) \in Seq(Seq(Byte)) /\ delivered' = delivered
<1> DEFINE room == RingFree(rx)
           kept == IF Len(chunk) <= room THEN chunk ELSE SubSeq(chunk, 1, room)
<1>1. /\ rx \in Ring /\ room \in Nat /\ chunk \in Seq(Byte) /\ Len(chunk) \in Nat
      /\ received \in Seq(Byte)
  BY UsedCases, RxConstants, RxAssumption DEF RxInv, TypeOK
<1>2. kept \in Seq(Byte)
  <2>1. CASE Len(chunk) <= room
    BY <2>1, <1>1
  <2>2. CASE ~(Len(chunk) <= room)
    <3>1. kept = SubSeq(chunk, 1, room) /\ room \in 0 .. Len(chunk)
      BY <2>2, <1>1
    <3> HIDE DEF kept, room
    <3> QED  BY <3>1, <1>1
  <2> QED  BY <2>1, <2>2
<1>3. received' = received \o kept /\ delivered' = delivered
  BY DEF DataReceived
<1> HIDE DEF kept
<1>4. PICK r \in Seq(Seq(Byte)) : Decode(received \o kept) = Decode(received) \o r
  BY <1>1, <1>2, DecodePrefix
<1>5. Decode(received)' = Decode(received \o kept)
  BY <1>3
<1> QED  BY <1>1, <1>3, <1>4, <1>5, DecodeType

\* What is handed over is the next frame found.
LEMMA DeliverStep ==
  ASSUME RxDecodeInv, RxDecodeInv', SkipPayload
  PROVE  Sink!Deliver
<1>1. received' = received /\ delivered' = Append(delivered, buffer)
  BY DEF SkipPayload, isrVars
<1>2. /\ delivered \in Seq(Seq(Byte)) /\ buffer \in Seq(Byte)
      /\ delivered' \in Seq(Seq(Byte)) /\ Ahead' \in Seq(Byte) /\ received \in Seq(Byte)
  <2>1. /\ delivered \in Seq(Seq(Byte)) /\ buffer \in Seq(Byte) /\ received \in Seq(Byte)
        /\ rx' \in Ring
    BY DEF RxDecodeInv, RxInv, TypeOK
  <2>2. Contents(rx') \in Seq(Byte)
    BY <2>1, ContentsType
  <2>3. Ahead' = <<>> \o Contents(rx')
    BY DEF SkipPayload, Return, Ahead
  <2>4. Append(delivered, buffer) \in Seq(Seq(Byte))
    BY <2>1
  <2> QED  BY <1>1, <2>1, <2>2, <2>3, <2>4, ConcatEmptySeq
<1>3. Decode(received)' = delivered' \o Decode(Ahead')
  <2>1. <<>> \in Seq(Byte) /\ received \o <<>> = received /\ Ahead' \o <<>> = Ahead'
    BY <1>2, ConcatEmptySeq
  <2>2. Decode(received' \o <<>>) = delivered' \o Decode(Ahead' \o <<>>)
    BY <2>1 DEF RxDecodeInv, Decoding
  <2> QED  BY <1>1, <2>1, <2>2
<1> DEFINE f == Decode(received)
           d == Decode(Ahead')
           n == Len(delivered)
           e == delivered'
<1>4. f = e \o d /\ d \in Seq(Seq(Byte))
  BY <1>1, <1>2, <1>3, DecodeType
<1>5. /\ n \in Nat /\ Len(e) = n + 1 /\ e[n + 1] = buffer
  BY <1>1, <1>2
<1> HIDE DEF d, n, e
<1>6. Len(f) = n + 1 + Len(d) /\ f[n + 1] = buffer /\ Len(d) \in Nat
  <2>1. /\ Len(f) = Len(e) + Len(d) /\ Len(d) \in Nat
        /\ \A i \in 1 .. Len(e) + Len(d) : f[i] = IF i <= Len(e) THEN e[i] ELSE d[i - Len(e)]
    BY <1>2, <1>4, LenProperties, ConcatProperties DEF e
  <2> HIDE DEF f
  <2> QED  BY <1>5, <2>1
<1> HIDE DEF f
<1>7. n < Len(f) /\ delivered' = Append(delivered, f[n + 1])
  BY <1>1, <1>5, <1>6
<1>8. UNCHANGED f
  BY <1>1 DEF f
<1> QED  BY <1>7, <1>8 DEF Sink!Deliver, f, n

\* Nothing is found in nothing.
LEMMA DecodeEmpty == Decode(<<>>) = <<>>
<1>1. <<>> \in Seq(Byte) /\ Len(<<>>) + 1 = 1
  OBVIOUS
<1> QED  BY <1>1, ScanEnd DEF Decode

\* Every step of the receive path is a step of the sink, or none.
LEMMA SinkStep ==
  ASSUME RxDecodeInv, RxDecodeInv', [Next]_vars
  PROVE  [Sink!Find \/ Sink!Deliver]_<<Decode(received), delivered>>
<1>1. ASSUME NEW chunk \in Chunks, DataReceived(chunk)
      PROVE  [Sink!Find]_<<Decode(received), delivered>>
  <2>1. PICK r \in Seq(Seq(Byte)) : Decode(received)' = Decode(received) \o r
    BY <1>1, FindStep DEF RxDecodeInv
  <2>2. IsPrefix(Decode(received), Decode(received)') /\ delivered' = delivered
    BY <1>1, <2>1, FindStep, ConcatIsPrefix DEF RxDecodeInv
  <2> QED  BY <2>2 DEF Sink!Find, Sink!IsPrefix, IsPrefix
<1>2. ASSUME [GetMessage]_vars
      PROVE  [Sink!Deliver]_<<Decode(received), delivered>>
  <2>1. received' = received /\ (delivered' = delivered \/ SkipPayload)
    BY <1>2, SinkQuiet
  <2> QED  BY <2>1, DeliverStep
<1> QED  BY <1>1, <1>2 DEF Next

\* For every ring size, every cut of the host's bytes and every schedule of the
\* interrupt, get_message and data_received implement the sink of frames: a frame
\* that has been found stays found whatever is received after it, and each step of
\* get_message hands over nothing or exactly the next frame found.
THEOREM RxImplementsSink == Spec => SinkRefinement
<1>1. Init => RxDecodeInv
  BY RxInvInit, DecodeInit DEF RxDecodeInv
<1>2. Init => Sink!SinkInit
  <2> SUFFICES ASSUME Init PROVE Sink!SinkInit
    OBVIOUS
  <2>1. received = <<>> /\ delivered = <<>>
    BY DEF Init
  <2> QED  BY <2>1, DecodeEmpty DEF Sink!SinkInit
<1>3. RxDecodeInv /\ RxDecodeInv' /\ [Next]_vars
        => [Sink!Find \/ Sink!Deliver]_<<Decode(received), delivered>>
  BY SinkStep
<1> QED  BY <1>1, <1>2, <1>3, DecodeStep, PTL DEF Spec, SinkRefinement, Sink!SinkSpec

-----------------------------------------------------------------------------
(* The frames of a sender.                                                 *)

\* The recursion of FramedUpTo is well founded, so that it satisfies its equation.
LEMMA FramedEquation ==
  ASSUME NEW line, Len(line) \in Nat
  PROVE  /\ FramedUpTo(line)[0] = <<>>
         /\ \A n \in 1 .. Len(line) :
              FramedUpTo(line)[n] = FramedUpTo(line)[n - 1] \o Sent(line[n])
<1> DEFINE m == Len(line)
           Next1(g, n) == IF n = 0 THEN <<>> ELSE g[n - 1] \o Sent(line[n])
           Solved(k) == \E g : \A n \in 0 .. k : g[n] = Next1(g, n)
           Bad == {k \in 0 .. m : ~Solved(k)}
<1>1. Solved(0)
  <2> DEFINE g0 == [n \in {0} |-> <<>>]
  <2>1. \A n \in 0 .. 0 : g0[n] = <<>> /\ n = 0
    OBVIOUS
  <2> HIDE DEF g0
  <2>2. \A n \in 0 .. 0 : g0[n] = Next1(g0, n)
    BY <2>1
  <2> QED  BY <2>2
<1>2. ASSUME NEW k \in 0 .. m - 1, Solved(k) PROVE Solved(k + 1)
  <2>1. PICK g : \A n \in 0 .. k : g[n] = Next1(g, n)
    BY <1>2
  <2> DEFINE h == [n \in 0 .. k + 1 |-> IF n = k + 1 THEN g[k] \o Sent(line[k + 1]) ELSE g[n]]
  <2>2. (\A n \in 0 .. k : h[n] = g[n]) /\ h[k + 1] = g[k] \o Sent(line[k + 1])
    <3> DEFINE last == g[k] \o Sent(line[k + 1])
    <3> HIDE DEF last
    <3>1. k \in Nat /\ k + 1 \in 0 .. k + 1 /\ \A n \in 0 .. k : n \in 0 .. k + 1 /\ n # k + 1
      OBVIOUS
    <3>2. h = [n \in 0 .. k + 1 |-> IF n = k + 1 THEN last ELSE g[n]]
      BY DEF last
    <3> HIDE DEF h
    <3>3. (\A n \in 0 .. k : h[n] = g[n]) /\ h[k + 1] = last
      BY <3>1, <3>2
    <3> QED  BY <3>3 DEF last
  <2> HIDE DEF h
  <2>3. ASSUME NEW n \in 0 .. k + 1 PROVE h[n] = Next1(h, n)
    <3>1. CASE n = k + 1
      <4>1. h[n - 1] = g[k] /\ n # 0 /\ line[n] = line[k + 1]
        BY <2>2, <3>1
      <4> QED  BY <2>2, <3>1, <4>1
    <3>2. CASE n # k + 1
      <4>1. n \in 0 .. k /\ (n # 0 => n - 1 \in 0 .. k)
        BY <3>2
      <4>2. h[n] = g[n] /\ (n # 0 => h[n - 1] = g[n - 1])
        BY <2>2, <4>1
      <4>3. g[n] = Next1(g, n)
        BY <2>1, <4>1
      <4> QED  BY <4>2, <4>3
    <3> QED  BY <3>1, <3>2
  <2> HIDE DEF Next1
  <2> QED  BY <2>3
<1> HIDE DEF Solved
<1>3. Bad = {}
  <2> SUFFICES ASSUME Bad # {} PROVE FALSE
    OBVIOUS
  <2>0. Bad \in SUBSET Nat
    OBVIOUS
  <2>1. PICK k \in Bad : \A j \in Bad : k <= j
    <3> HIDE DEF Bad
    <3> QED  BY <2>0, LeastElement
  <2>2. k \in 1 .. m /\ ~Solved(k)
    BY <1>1, <2>1
  <2>3. k - 1 \in 0 .. m - 1 /\ Solved(k - 1)
    BY <2>1, <2>2
  <2>4. Solved(k - 1 + 1) /\ k - 1 + 1 = k
    BY <1>2, <2>2, <2>3
  <2> QED  BY <2>2, <2>4
<1>4. PICK g : \A n \in 0 .. m : g[n] = Next1(g, n)
  <2>1. Solved(m)
    BY <1>3
  <2> QED  BY <2>1 DEF Solved
<1> DEFINE f == [n \in 0 .. m |-> g[n]]
<1>5. f = [n \in 0 .. m |-> Next1(f, n)]
  <2> SUFFICES ASSUME NEW n \in 0 .. m PROVE g[n] = Next1(f, n)
    OBVIOUS
  <2>1. n # 0 => f[n - 1] = g[n - 1]
    OBVIOUS
  <2> HIDE DEF f
  <2> QED  BY <1>4, <2>1
<1> DEFINE F == FramedUpTo(line)
<1>6. F = CHOOSE h : h = [n \in 0 .. m |-> Next1(h, n)]
  BY DEF FramedUpTo
<1> HIDE DEF f, F
<1>7. F = [n \in 0 .. m |-> Next1(F, n)]
  BY <1>5, <1>6
<1> HIDE DEF Next1
<1>8. \A n \in 0 .. m : F[n] = Next1(F, n)
  BY <1>7
<1>9. F[0] = <<>>
  <2>1. F[0] = Next1(F, 0)
    BY <1>8
  <2> QED  BY <2>1 DEF Next1
<1>10. ASSUME NEW n \in 1 .. m PROVE F[n] = F[n - 1] \o Sent(line[n])
  <2>1. F[n] = Next1(F, n) /\ n # 0
    BY <1>8
  <2> QED  BY <2>1 DEF Next1
<1> QED  BY <1>9, <1>10 DEF F

\* The header of a sendable payload starts with the magic and holds the length.
LEMMA HeaderFacts ==
  ASSUME NEW p \in Sendable
  PROVE  /\ p \in Seq(Byte) /\ Header(Len(p)) \in Seq(Byte) /\ Len(Header(Len(p))) = 4
         /\ Header(Len(p))[1] = 172 /\ Header(Len(p))[2] = 190
         /\ Len(p) = Header(Len(p))[3] + 256 * Header(Len(p))[4] /\ Len(p) <= MaxEncoded
<1> DEFINE n == Len(p)
<1>1. p \in Seq(Byte) /\ n \in Nat /\ n <= MaxEncoded /\ n < 65536 /\ Header(n) \in Seq(Byte)
  BY LenProperties DEF Sendable
<1> HIDE DEF n
<1>2. n = (n % 256) + 256 * ((n \div 256) % 256)
  BY <1>1
<1>3. /\ Len(Header(n)) = 4 /\ Header(n)[1] = 172 /\ Header(n)[2] = 190
      /\ Header(n)[3] = n % 256 /\ Header(n)[4] = (n \div 256) % 256
  BY DEF Header
<1> QED  BY <1>1, <1>2, <1>3 DEF n

\* Bytes that cannot start a frame decode to nothing, whatever follows them.
LEMMA DecodeQuiet ==
  ASSUME NEW z \in Quiet, NEW t \in Seq(Byte)
  PROVE  z \in Seq(Byte) /\ Decode(z \o t) = Decode(t)
<1> DEFINE u == z \o t
           n == Len(z)
           Same(k) == Scan(u)[n + 1 - k] = Decode(t)
           Bad == {k \in 0 .. n : ~Same(k)}
<1>0. z \in Seq(Byte)
  <2>1. z \in Seq(Byte \ {172}) /\ Byte \ {172} \subseteq Byte
    BY DEF Quiet
  <2> QED  BY <2>1, SeqMonotonic
<1>1. /\ n \in Nat /\ u \in Seq(Byte) /\ Len(t) \in Nat /\ Len(u) = n + Len(t)
      /\ \A i \in 1 .. n : u[i] = z[i]
  BY <1>0, PrefixBytes
<1>2. \A i \in 1 .. n : z[i] # 172
  <2> SUFFICES ASSUME NEW i \in 1 .. n PROVE z[i] # 172
    OBVIOUS
  <2>1. z[i] \in Byte \ {172}
    BY ElementOfSeq DEF Quiet
  <2> QED  BY <2>1
<1> HIDE DEF u, n
<1>3. Same(0)
  <2>1. 1 \in 1 .. Len(t) + 1 /\ n + 1 - 0 = n + 1
    BY <1>1
  <2>2. Scan(u)[n + 1] = Scan(t)[1]
    BY <1>0, <2>1, ScanShift DEF u, n
  <2> QED  BY <2>1, <2>2 DEF Decode
<1>4. ASSUME NEW k \in 1 .. n, Same(k - 1) PROVE Same(k)
  <2> DEFINE c == n + 1 - k
  <2>1. c \in 1 .. Len(u) /\ c \in 1 .. n /\ n + 1 - (k - 1) = c + 1
    BY <1>1
  <2>2. u[c] # 172
    BY <1>1, <1>2, <2>1
  <2> HIDE DEF c
  <2>3. c \notin FrameStarts(u, c)
    BY <2>2 DEF FrameStarts
  <2>4. Scan(u)[c] = Scan(u)[c + 1]
    BY <1>1, <2>1, <2>3, ScanNoise
  <2> QED  BY <1>4, <2>1, <2>4 DEF c
<1> HIDE DEF Same
<1>5. Bad = {}
  <2> SUFFICES ASSUME Bad # {} PROVE FALSE
    OBVIOUS
  <2>0. Bad \in SUBSET Nat
    BY <1>1
  <2>1. PICK k \in Bad : \A j \in Bad : k <= j
    <3> HIDE DEF Bad
    <3> QED  BY <2>0, LeastElement
  <2>2. k \in 1 .. n /\ ~Same(k)
    BY <1>1, <1>3, <2>1
  <2>3. Same(k - 1)
    BY <1>1, <2>1, <2>2
  <2> QED  BY <1>4, <2>2, <2>3
<1>6. Same(n) /\ n + 1 - n = 1
  BY <1>1, <1>5
<1> QED  BY <1>0, <1>6 DEF Same, Decode, u

\* An item of a line decodes to its payload, whatever follows it.
LEMMA DecodeSent ==
  ASSUME NEW item \in [noise : Quiet, payload : Sendable], NEW t \in Seq(Byte)
  PROVE  /\ Sent(item) \in Seq(Byte) /\ item.payload \in Seq(Byte)
         /\ Decode(Sent(item) \o t) = <<item.payload>> \o Decode(t)
<1> DEFINE z == item.noise
           p == item.payload
           h == Header(Len(p))
           x == h \o p
           v == x \o t
<1>1. z \in Quiet /\ p \in Sendable
  OBVIOUS
<1>2. Sent(item) = z \o x
  BY DEF Sent, Encoded
<1> HIDE DEF z, p
<1>3. /\ p \in Seq(Byte) /\ h \in Seq(Byte) /\ Len(h) = 4 /\ h[1] = 172 /\ h[2] = 190
      /\ Len(p) = h[3] + 256 * h[4] /\ Len(p) <= MaxEncoded
  BY <1>1, HeaderFacts
<1> HIDE DEF h
<1>4. z \in Seq(Byte)
  BY <1>1, DecodeQuiet
<1>5. x \in Seq(Byte)
  BY <1>3, ConcatProperties
<1>6. Decode(x \o t) = <<p>> \o Decode(t)
  BY <1>3, DecodeFrame
<1> HIDE DEF x
<1>7. v \in Seq(Byte) /\ z \o x \in Seq(Byte)
  BY <1>4, <1>5, ConcatProperties
<1>8. (z \o x) \o t = z \o v
  BY ONLY <1>4, <1>5, t \in Seq(Byte), ConcatAssociative, SMTT(30)
<1>9. Decode(z \o v) = Decode(v)
  <2> HIDE DEF v
  <2> QED  BY <1>1, <1>7, DecodeQuiet
<1> QED  BY <1>2, <1>3, <1>6, <1>7, <1>8, <1>9 DEF p

\* The bytes of a line, and of its beginnings, decode to its payloads.
LEMMA DecodeUpTo ==
  ASSUME NEW line \in Lines, NEW t \in Seq(Byte), NEW n \in 0 .. Len(line)
  PROVE  /\ FramedUpTo(line)[n] \in Seq(Byte)
         /\ Payloads(line) \in Seq(Seq(Byte)) /\ Len(Payloads(line)) = Len(line)
         /\ Decode(FramedUpTo(line)[n] \o t) = SubSeq(Payloads(line), 1, n) \o Decode(t)
<1> DEFINE F(k) == FramedUpTo(line)[k]
           m == Len(line)
           ps == Payloads(line)
           Good(k) == /\ F(k) \in Seq(Byte)
                      /\ \A v \in Seq(Byte) : Decode(F(k) \o v) = SubSeq(ps, 1, k) \o Decode(v)
           Bad == {k \in 0 .. m : ~Good(k)}
<1>1. /\ m \in Nat /\ F(0) = <<>>
      /\ \A k \in 1 .. m : F(k) = F(k - 1) \o Sent(line[k])
      /\ \A k \in 1 .. m : line[k] \in [noise : Quiet, payload : Sendable]
  <2>1. m \in Nat /\ \A k \in 1 .. m : line[k] \in [noise : Quiet, payload : Sendable]
    BY LenProperties, ElementOfSeq DEF Lines
  <2> QED  BY <2>1, FramedEquation
<1>2. ps \in Seq(Seq(Byte)) /\ Len(ps) = m /\ \A k \in 1 .. m : ps[k] = line[k].payload
  <2>1. ASSUME NEW k \in 1 .. m PROVE line[k].payload \in Seq(Byte)
    <3>1. line[k].payload \in Sendable
      BY <1>1
    <3> QED  BY <3>1 DEF Sendable
  <2>2. ps = [k \in 1 .. m |-> line[k].payload]
    BY DEF Payloads
  <2> HIDE DEF ps, m
  <2>3. ps \in [1 .. m -> Seq(Byte)]
    BY <2>1, <2>2
  <2>4. ps \in Seq(Seq(Byte)) /\ Len(ps) = m
    BY <1>1, <2>3
  <2> QED  BY <2>2, <2>4
<1> HIDE DEF ps, m, F
<1>3. Good(0)
  <2>1. F(0) = <<>> /\ <<>> \in Seq(Byte)
    BY <1>1
  <2>2. SubSeq(ps, 1, 0) = <<>>
    BY SubSeqEmpty
  <2>3. ASSUME NEW v \in Seq(Byte) PROVE Decode(F(0) \o v) = SubSeq(ps, 1, 0) \o Decode(v)
    <3>1. <<>> \o v = v /\ <<>> \o Decode(v) = Decode(v)
      BY ConcatEmptySeq, DecodeType
    <3> QED  BY <2>1, <2>2, <3>1
  <2> QED  BY <2>1, <2>3
<1>4. ASSUME NEW k \in 1 .. m, Good(k - 1) PROVE Good(k)
  <2> DEFINE e == Sent(line[k])
             f == F(k - 1)
             q == SubSeq(ps, 1, k - 1)
             p == line[k].payload
  <2>1. /\ e \in Seq(Byte) /\ p \in Seq(Byte)
        /\ \A v \in Seq(Byte) : Decode(e \o v) = <<p>> \o Decode(v)
    BY <1>1, DecodeSent
  <2>2. F(k) = f \o e
    BY <1>1
  <2>3. f \in Seq(Byte) /\ \A v \in Seq(Byte) : Decode(f \o v) = q \o Decode(v)
    BY <1>4
  <2>4. q \in Seq(Seq(Byte)) /\ SubSeq(ps, 1, k) = q \o <<p>>
    <3>1. k \in 1 .. Len(ps) /\ 1 \in 1 .. Len(ps) /\ k \in 1 .. k /\ k - 1 \in Int
      BY <1>1, <1>2
    <3>2. SubSeq(ps, 1, k) = q \o <<ps[k]>>
      BY <1>2, <3>1, SubSeqRecursiveSecond
    <3>3. \A i \in 1 .. k - 1 : ps[i] \in Seq(Byte)
      <4> SUFFICES ASSUME NEW i \in 1 .. k - 1 PROVE ps[i] \in Seq(Byte)
        OBVIOUS
      <4>1. i \in 1 .. Len(ps)
        BY <1>1, <1>2
      <4> QED  BY <1>2, <4>1, ElementOfSeq
    <3>4. q \in Seq(Seq(Byte))
      BY <3>1, <3>3, SubSeqProperties
    <3> HIDE DEF q
    <3> QED  BY <1>2, <3>2, <3>4
  <2> HIDE DEF e, f, q, p
  <2>5. f \o e \in Seq(Byte)
    BY <2>1, <2>3, ConcatProperties
  <2>6. ASSUME NEW v \in Seq(Byte)
        PROVE  Decode((f \o e) \o v) = (q \o <<p>>) \o Decode(v)
    <3>1. (f \o e) \o v = f \o (e \o v) /\ e \o v \in Seq(Byte)
      <4>1. (f \o e) \o v = f \o (e \o v)
        <5>1. f \in Seq(Byte) /\ e \in Seq(Byte) /\ v \in Seq(Byte)
          BY <2>1, <2>3
        <5> QED  BY ONLY <5>1, ConcatAssociative, SMTT(30)
      <4>2. e \o v \in Seq(Byte)
        BY <2>1, ConcatProperties
      <4> QED  BY <4>1, <4>2
    <3>2. Decode(f \o (e \o v)) = q \o (<<p>> \o Decode(v))
      <4> DEFINE w == e \o v
      <4>1. Decode(w) = <<p>> \o Decode(v)
        BY <2>1
      <4> HIDE DEF w
      <4>2. Decode(f \o w) = q \o Decode(w)
        BY <2>3, <3>1 DEF w
      <4> QED  BY <4>1, <4>2 DEF w
    <3>3. q \o (<<p>> \o Decode(v)) = (q \o <<p>>) \o Decode(v)
      <4> DEFINE S == Seq(Byte)
                 a == <<p>>
                 d == Decode(v)
      <4>1. q \in Seq(S) /\ a \in Seq(S) /\ d \in Seq(S)
        BY <2>1, <2>4, DecodeType
      <4> HIDE DEF S, a, d
      <4>2. (q \o a) \o d = q \o (a \o d)
        BY ONLY <4>1, ConcatAssociative, SMTT(30)
      <4> QED  BY ONLY <4>2, Zenon DEF a, d
    <3> QED  BY <3>1, <3>2, <3>3
  <2> QED  BY <2>2, <2>4, <2>5, <2>6
<1> HIDE DEF Good
<1>5. Bad = {}
  <2> SUFFICES ASSUME Bad # {} PROVE FALSE
    OBVIOUS
  <2>0. Bad \in SUBSET Nat
    BY <1>1
  <2>1. PICK k \in Bad : \A j \in Bad : k <= j
    <3> HIDE DEF Bad
    <3> QED  BY <2>0, LeastElement
  <2>2. k \in 1 .. m /\ ~Good(k)
    BY <1>1, <1>3, <2>1
  <2>3. Good(k - 1)
    BY <1>1, <2>1, <2>2
  <2> QED  BY <1>4, <2>2, <2>3
<1>6. Good(n)
  BY <1>5 DEF m
<1> QED  BY <1>2, <1>6 DEF Good, F, ps, m

\* What send_message puts on the line is what get_message finds: the frames of
\* any sequence of payloads, with any noise before each of them, decode to these
\* payloads, in this order, each once.
THEOREM FramesRoundTrip ==
  ASSUME NEW line \in Lines
  PROVE  Framed(line) \in Seq(Byte) /\ Decode(Framed(line)) = Payloads(line)
<1> DEFINE n == Len(line)
           s == Framed(line)
           ps == Payloads(line)
<1>1. n \in Nat /\ n \in 0 .. n /\ <<>> \in Seq(Byte)
  BY LenProperties DEF Lines
<1>2. /\ s \in Seq(Byte) /\ ps \in Seq(Seq(Byte)) /\ Len(ps) = n
      /\ Decode(s \o <<>>) = SubSeq(ps, 1, n) \o Decode(<<>>)
  BY <1>1, DecodeUpTo DEF Framed
<1>3. Decode(<<>>) = <<>>
  BY DecodeEmpty
<1> HIDE DEF s, ps, n
<1>4. s \o <<>> = s /\ ps \o <<>> = ps /\ SubSeq(ps, 1, n) = ps
  <2>1. SubSeq(ps, 1, Len(ps)) = ps
    BY <1>2, SubSeqFull
  <2> QED  BY <1>2, <2>1, ConcatEmptySeq
<1> QED  BY <1>2, <1>3, <1>4 DEF s, ps

\* What has been received of a line and what has been delivered.
LEMMA ArrivesNow ==
  ASSUME RxDecodeInv, NEW line \in Lines
  PROVE  Arrives(line)
<1>1. /\ received \in Seq(Byte) /\ delivered \in Seq(Seq(Byte)) /\ Ahead \in Seq(Byte)
      /\ Decode(received) = delivered \o Decode(Ahead)
  BY DecodedNow, DecodingTypes DEF RxDecodeInv, DeliveredIsDecoding
<1>2. Framed(line) \in Seq(Byte) /\ Decode(Framed(line)) = Payloads(line)
  BY FramesRoundTrip
<1>3. ASSUME IsPrefix(received, Framed(line)) PROVE IsPrefix(delivered, Payloads(line))
  <2>1. PICK t \in Seq(Byte) : Framed(line) = received \o t
    <3> DEFINE b == Framed(line)
    <3>1. received \in Seq(Byte) /\ b \in Seq(Byte) /\ IsPrefix(received, b)
      BY <1>1, <1>2, <1>3
    <3> HIDE DEF b
    <3>2. \E t \in Seq(Byte) : b = received \o t
      BY ONLY <3>1, PrefixIsConcat
    <3> QED  BY <3>2 DEF b
  <2>2. PICK r \in Seq(Seq(Byte)) : Decode(received \o t) = Decode(received) \o r
    BY <1>1, DecodePrefix
  <2> DEFINE S == Seq(Byte)
             a == Decode(Ahead)
             d == delivered
  <2>3. a \in Seq(S) /\ d \in Seq(S) /\ r \in Seq(S)
    BY <1>1, DecodeType
  <2>4. Payloads(line) = (d \o a) \o r
    BY <1>1, <1>2, <2>1, <2>2
  <2> HIDE DEF S, a, d
  <2>5. (d \o a) \o r = d \o (a \o r)
    BY ONLY <2>3, ConcatAssociative, SMTT(30)
  <2>6. a \o r \in Seq(S)
    BY <2>3, ConcatProperties
  <2>7. IsPrefix(d, d \o (a \o r))
    BY <2>3, <2>6, ConcatIsPrefix
  <2> QED  BY <2>4, <2>5, <2>7 DEF d
<1> QED  BY <1>1, <1>2, <1>3 DEF Arrives

\* For every ring, every cut of the stream and every schedule: as long as the ring
\* has accepted what a sender of frames put on the line, noise included, what
\* get_message has delivered are the first payloads that were sent, in order and
\* each once; and when all the line has been accepted, the payloads delivered and
\* those still in the ring are all of them.
THEOREM RxFramesArrive == Spec => []LinesArrive
<1>1. Init => RxDecodeInv
  BY RxInvInit, DecodeInit DEF RxDecodeInv
<1>2. RxDecodeInv => LinesArrive
  <2> SUFFICES ASSUME RxDecodeInv, NEW line \in HostLines PROVE Arrives(line)
    BY DEF LinesArrive
  <2>1. line \in Lines
    BY LinesAssumption
  <2> QED  BY <2>1, ArrivesNow
<1> QED  BY <1>1, <1>2, DecodeStep, PTL DEF Spec

-----------------------------------------------------------------------------
(* Both ends of a line.                                                    *)

\* Being the beginning of a sequence carries over.
LEMMA PrefixTransitive ==
  ASSUME NEW S, NEW a \in Seq(S), NEW b \in Seq(S), NEW c \in Seq(S),
         IsPrefix(a, b), IsPrefix(b, c)
  PROVE  IsPrefix(a, c)
<1>1. PICK r \in Seq(S) : b = a \o r
  BY PrefixIsConcat
<1>2. PICK t \in Seq(S) : c = b \o t
  BY PrefixIsConcat
<1>3. c = a \o (r \o t) /\ r \o t \in Seq(S)
  <2>1. (a \o r) \o t = a \o (r \o t)
    BY ONLY a \in Seq(S), r \in Seq(S), t \in Seq(S), ConcatAssociative, SMTT(30)
  <2>2. r \o t \in Seq(S)
    BY ConcatProperties
  <2> QED  BY <1>1, <1>2, <2>1, <2>2
<1> QED  BY <1>3, ConcatIsPrefix

\* An item added to a line adds its bytes at the end.
LEMMA FramedAppend ==
  ASSUME NEW T, NEW line \in Seq(T), NEW item \in T
  PROVE  Framed(Append(line, item)) = Framed(line) \o Sent(item)
<1> DEFINE m == Len(line)
           long == Append(line, item)
           Same(k) == FramedUpTo(long)[k] = FramedUpTo(line)[k]
           Bad == {k \in 0 .. m : ~Same(k)}
<1>1. /\ m \in Nat /\ Len(long) = m + 1 /\ long[m + 1] = item
      /\ \A k \in 1 .. m : long[k] = line[k]
  OBVIOUS
<1>2. /\ FramedUpTo(line)[0] = <<>>
      /\ \A k \in 1 .. m : FramedUpTo(line)[k] = FramedUpTo(line)[k - 1] \o Sent(line[k])
  BY <1>1, FramedEquation
<1> HIDE DEF long
<1>3. /\ FramedUpTo(long)[0] = <<>>
      /\ \A k \in 1 .. m + 1 : FramedUpTo(long)[k] = FramedUpTo(long)[k - 1] \o Sent(long[k])
  <2>1. Len(long) \in Nat
    BY <1>1
  <2> QED  BY <1>1, <2>1, FramedEquation
<1> HIDE DEF m
<1>4. Same(0)
  BY <1>2, <1>3
<1>5. ASSUME NEW k \in 1 .. m, Same(k - 1) PROVE Same(k)
  <2>1. k \in 1 .. m + 1
    BY <1>1
  <2>2. FramedUpTo(long)[k] = FramedUpTo(long)[k - 1] \o Sent(line[k])
    BY <1>1, <1>3, <2>1
  <2>3. FramedUpTo(line)[k] = FramedUpTo(line)[k - 1] \o Sent(line[k])
    BY <1>2
  <2> QED  BY <1>5, <2>2, <2>3
<1> HIDE DEF Same
<1>6. Bad = {}
  <2> SUFFICES ASSUME Bad # {} PROVE FALSE
    OBVIOUS
  <2>0. Bad \in SUBSET Nat
    BY <1>1
  <2>1. PICK k \in Bad : \A j \in Bad : k <= j
    <3> HIDE DEF Bad
    <3> QED  BY <2>0, LeastElement
  <2>2. k \in 1 .. m /\ ~Same(k)
    BY <1>1, <1>4, <2>1
  <2>3. Same(k - 1)
    BY <1>1, <2>1, <2>2
  <2> QED  BY <1>5, <2>2, <2>3
<1>7. FramedUpTo(long)[m] = FramedUpTo(line)[m]
  BY <1>1, <1>6 DEF Same
<1>8. FramedUpTo(long)[m + 1] = FramedUpTo(long)[m] \o Sent(item)
  <2>1. m + 1 \in 1 .. m + 1 /\ m + 1 - 1 = m
    BY <1>1
  <2>2. PICK k \in 1 .. m + 1 : k = m + 1
    BY <2>1
  <2>3. FramedUpTo(long)[k] = FramedUpTo(long)[k - 1] \o Sent(long[k])
    BY <1>3
  <2>4. k - 1 = m /\ long[k] = item
    BY <1>1, <2>2
  <2>5. FramedUpTo(long)[k] = FramedUpTo(long)[m] \o Sent(item)
    BY ONLY <2>3, <2>4, Zenon
  <2> QED  BY ONLY <2>2, <2>5, Zenon
<1> QED  BY <1>1, <1>7, <1>8 DEF Framed, long, m

\* A line without noise is a line, and carries its payloads.
LEMMA CleanFacts ==
  ASSUME NEW ps \in Seq(Sendable)
  PROVE  /\ Clean(ps) \in Lines /\ Payloads(Clean(ps)) = ps
         /\ \A p \in Sendable :
              /\ Append(ps, p) \in Seq(Sendable)
              /\ Framed(Clean(Append(ps, p))) = Framed(Clean(ps)) \o Encoded(p)
<1> DEFINE n == Len(ps)
           Item(p) == [noise |-> <<>>, payload |-> p]
           T == [noise : Quiet, payload : Sendable]
<1>1. n \in Nat /\ \A i \in 1 .. n : ps[i] \in Sendable
  BY LenProperties, ElementOfSeq
<1>2. <<>> \in Quiet
  BY DEF Quiet
<1>3. \A p \in Sendable : Item(p) \in T /\ Item(p).payload = p
  BY <1>2
<1>4. Clean(ps) = [i \in 1 .. n |-> Item(ps[i])]
  BY DEF Clean
<1> DEFINE c == Clean(ps)
<1> HIDE DEF T, Item, c
<1>5. c \in Seq(T) /\ Len(c) = n /\ \A i \in 1 .. n : c[i] = Item(ps[i])
  <2>1. c \in [1 .. n -> T]
    BY <1>1, <1>3, <1>4 DEF c
  <2> QED  BY <1>1, <1>4, <2>1 DEF c
<1>6. Payloads(c) = ps
  <2> DEFINE q == Payloads(c)
  <2>1. q = [i \in 1 .. n |-> c[i].payload]
    BY <1>5 DEF Payloads
  <2>2. \A i \in 1 .. n : c[i].payload = ps[i]
    BY <1>1, <1>3, <1>5
  <2> HIDE DEF q
  <2>3. q = [i \in 1 .. n |-> ps[i]]
    BY <2>1, <2>2
  <2>4. ps = [i \in 1 .. n |-> ps[i]]
    BY LenProperties
  <2> QED  BY <2>3, <2>4 DEF q
<1>7. ASSUME NEW p \in Sendable
      PROVE  /\ Append(ps, p) \in Seq(Sendable)
             /\ Framed(Clean(Append(ps, p))) = Framed(c) \o Encoded(p)
  <2> DEFINE ls == Append(ps, p)
  <2>1. /\ ls \in Seq(Sendable) /\ Len(ls) = n + 1 /\ ls[n + 1] = p
        /\ \A i \in 1 .. n : ls[i] = ps[i]
    OBVIOUS
  <2> HIDE DEF ls, n
  <2>2. Clean(ls) = [i \in 1 .. n + 1 |-> Item(ls[i])]
    BY <2>1 DEF Clean, Item
  <2>3. Item(p) \in T
    BY <1>3
  <2>4. Clean(ls) = Append(c, Item(p))
    <3> DEFINE d == Append(c, Item(p))
               e == Clean(ls)
               x == Item(p)
    <3>1. /\ d \in Seq(T) /\ Len(d) = n + 1 /\ d[n + 1] = x
          /\ \A i \in 1 .. n : d[i] = c[i]
      <4>1. x \in T
        BY <2>3
      <4> HIDE DEF x
      <4> QED  BY <1>5, <4>1 DEF x
    <3>2. \A i \in 1 .. n + 1 : ls[i] \in Sendable
      BY <1>1, <2>1
    <3>3. e \in Seq(T) /\ Len(e) = n + 1 /\ \A i \in 1 .. n + 1 : e[i] = Item(ls[i])
      <4> HIDE DEF e
      <4>1. e = [i \in 1 .. n + 1 |-> Item(ls[i])]
        BY <2>2 DEF e
      <4>2. e \in [1 .. n + 1 -> T]
        BY <1>3, <3>2, <4>1
      <4>3. n + 1 \in Nat
        BY <1>1
      <4> QED  BY <4>1, <4>2, <4>3
    <3> HIDE DEF d, e, x
    <3>4. ASSUME NEW i \in 1 .. Len(d) PROVE d[i] = e[i]
      <4>1. CASE i = n + 1
        BY <2>1, <3>1, <3>3, <4>1 DEF x
      <4>2. CASE i # n + 1
        <5>1. i \in 1 .. n /\ i \in 1 .. n + 1
          BY <1>1, <3>1, <4>2
        <5> QED  BY <1>5, <2>1, <3>1, <3>3, <5>1
      <4> QED  BY <4>1, <4>2
    <3>5. Len(d) = Len(e)
      BY <3>1, <3>3
    <3>6. d = e
      BY <3>1, <3>3, <3>4, <3>5, SeqEqual
    <3> QED  BY <3>6 DEF d, e
  <2>5. Framed(Append(c, Item(p))) = Framed(c) \o Sent(Item(p))
    <3> DEFINE x == Item(p)
    <3>1. x \in T /\ c \in Seq(T)
      BY <1>5, <2>3
    <3> HIDE DEF x
    <3> QED  BY <3>1, FramedAppend DEF x
  <2>6. Sent(Item(p)) = Encoded(p)
    <3>1. Encoded(p) \in Seq(Byte)
      <4>1. p \in Seq(Byte) /\ Header(Len(p)) \in Seq(Byte)
        BY HeaderFacts
      <4> QED  BY <4>1, ConcatProperties DEF Encoded
    <3>2. Sent(Item(p)) = <<>> \o Encoded(p)
      BY DEF Sent, Item
    <3> QED  BY <3>1, <3>2, ConcatEmptySeq
  <2> QED  BY <2>1, <2>4, <2>5, <2>6 DEF ls
<1> QED  BY <1>5, <1>6, <1>7 DEF c, T, Lines

\* What the sender owes is the line of what it has accepted, and it sends it in
\* order.
SenderInv ==
  \E ps \in Seq(Sendable) : owed = Framed(Clean(ps)) /\ wire \in Seq(Byte) /\ IsPrefix(wire, owed)

\* Before it has accepted anything.
LEMMA SenderInit == Sender!StreamInit => SenderInv
<1> SUFFICES ASSUME Sender!StreamInit PROVE SenderInv
  OBVIOUS
<1>1. owed = <<>> /\ wire = <<>>
  BY DEF Sender!StreamInit
<1> DEFINE ps == <<>>
<1>2. ps \in Seq(Sendable) /\ Len(Clean(ps)) = 0
  BY DEF Clean
<1>3. Framed(Clean(ps)) = <<>>
  <2> DEFINE line == Clean(ps)
  <2>1. Len(line) = 0
    BY <1>2
  <2> HIDE DEF line
  <2>2. Len(line) \in Nat
    BY <2>1
  <2>3. FramedUpTo(line)[0] = <<>>
    BY <2>2, FramedEquation
  <2>4. Framed(line) = <<>>
    BY <2>1, <2>3 DEF Framed
  <2> QED  BY <2>4 DEF line
<1>4. wire \in Seq(Byte) /\ IsPrefix(wire, owed)
  BY <1>1 DEF IsPrefix
<1> QED  BY <1>1, <1>2, <1>3, <1>4 DEF SenderInv

\* Accepting a frame adds to the line, emitting moves along it.
LEMMA SenderStep == SenderInv /\ [Sender!StreamNext]_<<owed, wire>> => SenderInv'
<1> SUFFICES ASSUME SenderInv, [Sender!StreamNext]_<<owed, wire>> PROVE SenderInv'
  OBVIOUS
<1>1. PICK ps \in Seq(Sendable) :
         owed = Framed(Clean(ps)) /\ wire \in Seq(Byte) /\ IsPrefix(wire, owed)
  BY DEF SenderInv
<1>2. owed \in Seq(Byte)
  BY <1>1, CleanFacts, FramesRoundTrip
<1>3. CASE Sender!Accept
  <2>1. PICK p \in Sendable : owed' = owed \o Encoded(p)
    BY <1>3 DEF Sender!Accept
  <2>2. wire' = wire
    BY <1>3 DEF Sender!Accept
  <2>3. Append(ps, p) \in Seq(Sendable) /\ owed' = Framed(Clean(Append(ps, p)))
    BY <1>1, <2>1, CleanFacts
  <2>4. Encoded(p) \in Seq(Byte)
    <3>1. p \in Seq(Byte) /\ Header(Len(p)) \in Seq(Byte)
      BY HeaderFacts
    <3> QED  BY <3>1, ConcatProperties DEF Encoded
  <2>5. IsPrefix(wire, owed')
    <3> DEFINE e == Encoded(p)
    <3>1. e \in Seq(Byte)
      BY <2>4
    <3> HIDE DEF e
    <3>2. IsPrefix(owed, owed \o e) /\ owed \o e \in Seq(Byte)
      BY <1>2, <3>1, ConcatIsPrefix, ConcatProperties
    <3>3. IsPrefix(wire, owed \o e)
      BY <1>1, <1>2, <3>2, PrefixTransitive
    <3> QED  BY <2>1, <3>3 DEF e
  <2> QED  BY <1>1, <2>2, <2>3, <2>5 DEF SenderInv
<1>4. CASE Sender!Emit
  <2>1. PICK n \in Len(wire) + 1 .. Len(owed) : wire' = SubSeq(owed, 1, n)
    BY <1>4 DEF Sender!Emit
  <2>2. owed' = owed
    BY <1>4 DEF Sender!Emit
  <2>3. n \in 1 .. Len(owed) /\ Len(owed) \in Nat
    BY <1>1, <1>2, LenProperties
  <2>4. wire' \in Seq(Byte) /\ IsPrefix(wire', owed)
    <3> DEFINE a == SubSeq(owed, 1, n)
               r == SubSeq(owed, n + 1, Len(owed))
    <3>1. a \in Seq(Byte) /\ r \in Seq(Byte)
      <4>1. \A i \in 1 .. Len(owed) : owed[i] \in Byte
        BY <1>2, ElementOfSeq
      <4>2. (\A i \in 1 .. n : owed[i] \in Byte) /\ \A i \in n + 1 .. Len(owed) : owed[i] \in Byte
        BY <2>3, <4>1
      <4>3. n \in Int /\ n + 1 \in Int /\ Len(owed) \in Int
        BY <2>3
      <4> QED  BY <4>2, <4>3, SubSeqProperties
    <3>2. a \o r = owed
      <4>1. 1 \in 1 .. Len(owed) + 1 /\ n \in 1 - 1 .. Len(owed) /\ Len(owed) \in n .. Len(owed)
        BY <2>3
      <4>2. a \o r = SubSeq(owed, 1, Len(owed))
        BY <1>2, <4>1, ConcatAdjacentSubSeq
      <4> QED  BY <1>2, <4>2, SubSeqFull
    <3> HIDE DEF a, r
    <3>3. IsPrefix(a, a \o r)
      BY <3>1, ConcatIsPrefix
    <3> QED  BY <2>1, <3>1, <3>2, <3>3 DEF a
  <2> QED  BY <1>1, <2>2, <2>4 DEF SenderInv
<1>5. CASE UNCHANGED <<owed, wire>>
  BY <1>5 DEF SenderInv
<1> QED  BY <1>3, <1>4, <1>5 DEF Sender!StreamNext

\* A transmit half that keeps its promise, a line that keeps the order of the
\* bytes, and a receive half: whatever the sizes of both queues, the chunks, the
\* polling and the interrupts, the payloads delivered at one end are the first that
\* were accepted at the other, each once, in order, and unaltered.
THEOREM LinkDelivers == LinkSpec => []EndToEnd
<1>1. Init => RxDecodeInv
  BY RxInvInit, DecodeInit DEF RxDecodeInv
<1>2. SenderInv /\ RxDecodeInv /\ LineOrder => EndToEnd
  <2> SUFFICES ASSUME SenderInv, RxDecodeInv, LineOrder PROVE EndToEnd
    OBVIOUS
  <2>1. PICK ps \in Seq(Sendable) :
           owed = Framed(Clean(ps)) /\ wire \in Seq(Byte) /\ IsPrefix(wire, owed)
    BY DEF SenderInv
  <2> DEFINE line == Clean(ps)
  <2>2. line \in Lines /\ Payloads(line) = ps
    BY CleanFacts
  <2> HIDE DEF line
  <2>3. owed \in Seq(Byte) /\ owed = Framed(line)
    BY <2>1, <2>2, FramesRoundTrip DEF line
  <2>4. received \in Seq(Byte)
    BY DecodingTypes DEF RxDecodeInv
  <2>5. IsPrefix(received, owed)
    BY <2>1, <2>3, <2>4, PrefixTransitive DEF LineOrder
  <2>6. Arrives(line)
    BY <2>2, ArrivesNow
  <2>7. IsPrefix(delivered, ps)
    BY <2>2, <2>3, <2>5, <2>6 DEF Arrives
  <2> QED  BY <2>1, <2>7 DEF EndToEnd
<1> QED  BY <1>1, <1>2, DecodeStep, SenderInit, SenderStep, PTL
         DEF LinkSpec, Spec, Sender!StreamSafety
=============================================================================
