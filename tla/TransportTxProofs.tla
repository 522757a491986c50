------------------------- MODULE TransportTxProofs -------------------------
(***************************************************************************)
(* Safety of the transmit path, for every ring size, header size, set of   *)
(* payload sizes, chunk limit, callback kind and number of messages, and   *)
(* what it does to the stream of bytes: where each byte comes from, and    *)
(* that the frames one sender has accepted go out whole, once and in       *)
(* order.                                                                  *)
(***************************************************************************)
EXTENDS TransportTx, RingBufProofs

\* Refilling the static tx_buf keeps it as long as it was, at least.
LEMMA FillFacts ==
  ASSUME NEW buf \in Seq(Byte), NEW bytes \in Seq(Byte),
         Len(buf) <= RingCapacity, Len(bytes) <= RingCapacity
  PROVE  /\ Fill(buf, bytes) \in Seq(Byte)
         /\ Len(bytes) <= Len(Fill(buf, bytes))
         /\ Len(buf) <= Len(Fill(buf, bytes))
         /\ Len(Fill(buf, bytes)) <= RingCapacity
<1> DEFINE rest == SubSeq(buf, Len(bytes) + 1, Len(buf))
<1>1. Len(buf) \in Nat /\ Len(bytes) \in Nat /\ RingCapacity \in Nat
  BY RingAssumption DEF RingCapacity
<1>2. \A i \in Len(bytes) + 1 .. Len(buf) : buf[i] \in Byte
  BY <1>1, ElementOfSeq
<1>3. /\ rest \in Seq(Byte)
      /\ Len(rest) = IF Len(bytes) + 1 <= Len(buf)
                     THEN Len(buf) - (Len(bytes) + 1) + 1 ELSE 0
  <2>1. Len(bytes) + 1 \in Int /\ Len(buf) \in Int
    BY <1>1
  <2> QED BY <1>2, <2>1, SubSeqProperties
<1>4. /\ bytes \o rest \in Seq(Byte)
      /\ Len(bytes \o rest) = Len(bytes) + Len(rest)
  BY <1>3, ConcatProperties
<1> HIDE DEF rest
<1>5. Fill(buf, bytes) = bytes \o rest
  BY DEF Fill, rest
<1> QED BY <1>1, <1>3, <1>4, <1>5

\* The beginning of a frame that fits the ring, and the stream it is added to.
LEMMA FrameType ==
  ASSUME NEW m \in Ids, NEW n \in 0 .. RingCapacity
  PROVE  /\ Frame(m, n) \in Seq(Byte) /\ Len(Frame(m, n)) = n
         /\ \A i \in 1 .. n : Frame(m, n)[i] = <<m, i>>
         /\ owed \in Seq(Byte) => owed \o Frame(m, n) \in Seq(Byte)
<1>0. n \in Nat /\ n <= RingCapacity /\ RingCapacity \in Nat
  BY RingAssumption DEF RingCapacity
<1>1. \A i \in 1 .. n : <<m, i>> \in Byte
  <2> SUFFICES ASSUME NEW i \in 1 .. n
               PROVE  <<m, i>> \in Ids \X (1 .. RingCapacity)
    BY TxAssumption
  <2> QED BY <1>0
<1>2. Frame(m, n) \in [1 .. n -> Byte]
  BY <1>1 DEF Frame
<1>3. Frame(m, n) \in Seq(Byte) /\ Len(Frame(m, n)) = n
  BY <1>0, <1>2
<1>4. owed \in Seq(Byte) => owed \o Frame(m, n) \in Seq(Byte)
  BY <1>3, ConcatProperties
<1> QED BY <1>3, <1>4 DEF Frame

\* What the assumptions say of the constants.
LEMMA Constants ==
  /\ RingSize \in Nat /\ RingSize > 1 /\ RingCapacity = RingSize - 1
  /\ HeaderSize \in Nat /\ HeaderSize > 0
  /\ MaxEncoded \in Nat /\ MaxEncoded + HeaderSize = RingCapacity
  /\ LoopMsgs \in Nat /\ 1 .. LoopMsgs \subseteq Ids /\ IsrIds \subseteq Ids
  /\ Sizes \subseteq Nat
BY RingAssumption, TxAssumption DEF RingCapacity, MaxEncoded, Ids, IsrIds

\* The message the loop holds has a frame.
LEMMA FrameFacts ==
  ASSUME TypeOK, pending # 0
  PROVE  /\ pending \in Ids /\ size[pending] \in Nat
         /\ FrameLen(pending) \in Nat /\ FrameLen(pending) > 0
         /\ size[pending] <= MaxEncoded <=> FrameLen(pending) <= RingCapacity
<1>1. pending \in Ids
  BY Constants DEF TypeOK
<1>2. size[pending] \in Sizes \cup {0}
  BY <1>1 DEF TypeOK
<1>3. Sizes \subseteq Nat
  BY TxAssumption
<1>4. size[pending] \in Nat
  <2>1. 0 \in Nat
    OBVIOUS
  <2>2. CASE size[pending] \in Sizes
    BY <2>2, <1>3, Zenon
  <2>3. CASE size[pending] = 0
    BY <2>1, <2>3
  <2> QED BY <1>2, <2>2, <2>3, Zenon
<1> QED BY <1>1, <1>4, Constants DEF FrameLen

\* The chunk send_pending takes is a part of the queue.
LEMMA ChunkFacts ==
  ASSUME TypeOK, RingUsed(tx) > 0
  PROVE  /\ Chunk \in 1 .. RingCapacity
         /\ CanCopy(tx, Chunk) /\ CanSkip(tx, Chunk)
         /\ Copy(tx, Chunk) \in Seq(Byte) /\ Len(Copy(tx, Chunk)) = Chunk
<1>1. RingUsed(tx) \in 0 .. RingCapacity
  BY UsedCases DEF TypeOK
<1>2. config.max_txbuf_size \in Nat \ {0}
  BY TxAssumption DEF TypeOK
<1>3. Chunk \in 1 .. RingUsed(tx)
  BY <1>1, <1>2 DEF Chunk, Smaller
<1>4. CanCopy(tx, Chunk) /\ CanSkip(tx, Chunk) /\ Chunk \in Nat
  BY <1>1, <1>3 DEF CanCopy, CanSkip
<1>5. tx \in Ring
  BY DEF TypeOK
<1>6. Copy(tx, Chunk) \in Seq(Byte) /\ Len(Copy(tx, Chunk)) = Chunk
  BY <1>4, <1>5, CopyFacts
<1>7. RingCapacity \in Nat
  BY Constants
<1>8. Chunk \in 1 .. RingCapacity
  BY <1>1, <1>3, <1>7
<1> QED BY <1>4, <1>6, <1>8

\* Starting a transfer of the first n bytes of a buffer.
LEMMA TransmitType ==
  ASSUME TypeOK, NEW buf \in Seq(Byte), NEW n \in 0 .. Len(buf), Transmit(buf, n)
  PROVE  /\ state' \in {"IDLE", "SENDING"}
         /\ wire' \in Seq(Byte)
         /\ uart' = uart \/ uart' = [pos |-> 0, len |-> n]
<1>1. CASE config.cb = "sync"
  <2>1. \A i \in 1 .. n : buf[i] \in Byte
    BY ElementOfSeq
  <2>2. SubSeq(buf, 1, n) \in Seq(Byte)
    BY <2>1, SubSeqProperties
  <2>3. wire \o SubSeq(buf, 1, n) \in Seq(Byte)
    BY <2>2, ConcatProperties DEF TypeOK
  <2>4. wire' = wire \o SubSeq(buf, 1, n) /\ state' = "IDLE" /\ uart' = uart
    BY <1>1 DEF Transmit
  <2> QED BY <2>3, <2>4
<1>2. CASE config.cb # "sync"
  BY <1>2 DEF Transmit, TypeOK
<1> QED BY <1>1, <1>2

-----------------------------------------------------------------------------
\* The inductive invariant: the types, and what the locals of send_message,
\* wait_tx_space and send_pending hold at each point of their code.
TypeInv == TypeOK /\ Locals

\* The state whad_transport_init leaves.
LEMMA TypeInvInit == Init => TypeInv
<1> SUFFICES ASSUME Init
             PROVE  TypeInv
  OBVIOUS
<1>1. EmptyRing \in Ring /\ 0 \in 0 .. RingCapacity /\ 0 \in Index
  BY RingAssumption, Constants DEF EmptyRing, Ring, Index
<1>2. /\ <<>> \in Seq(Byte) /\ Len(<<>>) = 0
      /\ UartOff \in [pos : 0 .. RingCapacity, len : 0 .. 0] /\ UartOff.pos <= UartOff.len
  BY Constants DEF UartOff
<1> QED BY <1>1, <1>2, Constants DEF Init, TypeInv, TypeOK, Locals, InSend, Pushing

\* The main loop's steps that move only control.
LEMMA ControlStep ==
  ASSUME TypeInv,
         (\E s \in Sizes : Offer(s)) \/ NoSend \/ SendCall \/ Wait \/ WaitDrain
           \/ Rewait \/ PushTest \/ Rollback \/ Flush \/ SpBusy \/ SpNothing \/ SpSize
           \/ SpSkip \/ Reread
  PROVE  TypeInv'
<1> USE Constants DEF TypeInv, TypeOK, Locals, InSend, Pushing, FrameLen
<1>0. tx.head \in Index /\ tx.tail \in Index
  BY DEF Ring
<1>1. ASSUME NEW s \in Sizes, Offer(s)
      PROVE  TypeInv'
  BY <1>1 DEF Offer, port
<1>2. CASE NoSend
  BY <1>2 DEF NoSend, port, msgs
<1>3. CASE SendCall
  BY <1>3 DEF SendCall, port, msgs
<1>4. CASE Wait
  <2>1. pending # 0 /\ size[pending] \in Nat
    BY <1>4, FrameFacts DEF Wait
  <2> QED BY <1>4, <2>1 DEF Wait, port, msgs
<1>5. CASE WaitDrain
  BY <1>5 DEF WaitDrain, port, msgs
<1>6. CASE Rewait
  <2>1. pending # 0 /\ size[pending] \in Nat
    BY <1>6, FrameFacts DEF Rewait
  <2> QED BY <1>6, <2>1 DEF Rewait, port, msgs
<1>7. CASE Flush
  BY <1>7 DEF Flush, port, msgs
<1>8. CASE SpBusy
  BY <1>8 DEF SpBusy, port, msgs
<1>9. CASE SpNothing
  BY <1>9 DEF SpNothing, port, msgs
<1>10. CASE SpSize
  <2>1. RingUsed(tx) > 0 /\ bufSize' = Chunk
    BY <1>10 DEF SpSize, Chunk
  <2>2. Chunk \in 0 .. RingCapacity
    BY <2>1, ChunkFacts
  <2> QED BY <1>10, <2>1, <2>2 DEF SpSize, port, msgs
<1>11. CASE PushTest
  BY <1>0, <1>11 DEF PushTest, port, msgs
<1>12. CASE Rollback
  BY <1>12 DEF Rollback, port, msgs
<1>13. CASE SpSkip
  BY <1>0, <1>13 DEF SpSkip, port, msgs
<1>14. CASE Reread
  BY <1>0, <1>14 DEF Reread, port, msgs
<1> QED BY <1>1, <1>2, <1>3, <1>4, <1>5, <1>6, <1>7, <1>8, <1>9, <1>10, <1>11, <1>12,
           <1>13, <1>14

\* The main loop's steps that touch the ring, the static buffer or the UART.
LEMMA DataStep ==
  ASSUME TypeInv, PushStore \/ PushHead \/ SpCopy \/ SpStart \/ SpTail
  PROVE  TypeInv'
<1> USE Constants DEF TypeInv
<1>1. CASE PushStore \/ PushHead
  <2>0. /\ Pushing /\ pending # 0 /\ size[pending] <= MaxEncoded
        /\ pushed < FrameLen(pending)
    BY <1>1 DEF PushStore, PushHead, Locals, InSend, Pushing
  <2>1. /\ pending \in Ids /\ size[pending] \in Nat
        /\ FrameLen(pending) \in Nat /\ FrameLen(pending) <= RingCapacity
    BY <2>0, FrameFacts
  <2>2. pushed \in Nat /\ pushed + 1 \in 1 .. RingCapacity
    BY <2>0, <2>1 DEF TypeOK
  <2>3. <<pending, pushed + 1>> \in Byte
    BY <2>1, <2>2, TxAssumption
  <2>4. CASE PushStore
    <3>1. tx' \in Ring
      <4>1. PICK slot \in {seen, tx.head} :
              tx' = [tx EXCEPT !.data[slot] = <<pending, pushed + 1>>]
        BY <2>4 DEF PushStore
      <4>2. tx \in Ring /\ slot \in Index
        BY <4>1 DEF TypeOK, Ring
      <4> DEFINE b == <<pending, pushed + 1>>
      <4> HIDE DEF b
      <4>3. tx' = [tx EXCEPT !.data[slot] = b] /\ b \in Byte
        BY <2>3, <4>1 DEF b
      <4> QED BY ONLY <4>2, <4>3 DEF Ring
    <3> QED BY <2>4, <3>1 DEF PushStore, TypeOK, Locals, InSend, Pushing, FrameLen, msgs
  <2>5. CASE PushHead
    <3> USE <2>5 DEF PushHead
    <3>1. (seen + 1) % RingSize \in Index
      <4>1. seen \in Index
        BY DEF TypeOK
      <4> QED BY <4>1, NextIndex, RingAssumption
    <3>2. tx' \in Ring /\ pushed' \in 0 .. RingCapacity
      <4>1. tx \in Ring /\ tx' = [tx EXCEPT !.head = (seen + 1) % RingSize]
        BY DEF TypeOK
      <4>2. tx' \in Ring
        BY ONLY <3>1, <4>1 DEF Ring
      <4> QED BY <2>2, <4>2
    <3>3. /\ accepted \cup {pending} \subseteq Ids
          /\ owed \o Frame(pending, FrameLen(pending)) \in Seq(Byte)
      <4>1. FrameLen(pending) \in 0 .. RingCapacity /\ owed \in Seq(Byte)
        BY <2>1 DEF TypeOK
      <4> QED BY <2>1, <4>1, FrameType DEF TypeOK
    <3>4. CASE pushed + 1 = FrameLen(pending)
      <4>1. /\ accepted' = accepted \cup {pending}
            /\ owed' = owed \o Frame(pending, FrameLen(pending))
            /\ pending' = 0 /\ pc' = "flush"
        BY <3>4
      <4>2. /\ config' = config /\ state' = state /\ txbuf' = txbuf /\ uart' = uart
            /\ wire' = wire /\ ret' = ret /\ next' = next /\ size' = size
            /\ bufSize' = bufSize /\ seen' = seen
        OBVIOUS
      <4> HIDE <2>5
      <4>3. accepted' \subseteq Ids /\ owed' \in Seq(Byte) /\ 0 \in 0 .. LoopMsgs
        BY <3>3, <4>1
      <4>4. TypeOK'
        BY <3>2, <4>1, <4>2, <4>3 DEF TypeOK
      <4> QED BY <4>1, <4>4 DEF Locals, InSend, Pushing
    <3>5. CASE pushed + 1 # FrameLen(pending)
      <4>1. accepted' = accepted /\ owed' = owed /\ pending' = pending /\ pc' = "push"
        BY <3>5
      <4>2. TypeOK'
        BY <3>2, <4>1 DEF TypeOK
      <4>3. pushed' < FrameLen(pending)'
        BY <2>0, <2>1, <2>2, <3>5, <4>1 DEF FrameLen
      <4> QED BY <2>0, <4>1, <4>2, <4>3 DEF Locals, InSend, Pushing
    <3> QED BY <3>4, <3>5
  <2> QED BY <1>1, <2>4, <2>5
<1>2. CASE SpCopy
  <2>1. CASE CanCopy(tx, bufSize)
    <3>1. /\ Copy(tx, bufSize) \in Seq(Byte) /\ Len(Copy(tx, bufSize)) = bufSize
          /\ txbuf' = Fill(txbuf, Copy(tx, bufSize))
      BY <1>2, <2>1, CopyFacts DEF SpCopy, TypeOK
    <3>2. /\ txbuf' \in Seq(Byte) /\ bufSize <= Len(txbuf')
          /\ Len(txbuf) <= Len(txbuf') /\ Len(txbuf') <= RingCapacity
      BY <3>1, FillFacts DEF TypeOK
    <3> QED BY <1>2, <2>1, <3>2 DEF SpCopy, TypeOK, Locals, InSend, Pushing, FrameLen, msgs
  <2>2. CASE ~CanCopy(tx, bufSize)
    BY <1>2, <2>2 DEF SpCopy, TypeOK, Locals, InSend, Pushing, FrameLen, msgs
  <2> QED BY <2>1, <2>2
<1>3. CASE SpStart
  <2>1. bufSize \in 0 .. Len(txbuf)
    BY <1>3 DEF SpStart, TypeOK, Locals
  <2>2. /\ state' \in {"IDLE", "SENDING"} /\ wire' \in Seq(Byte)
        /\ uart' = uart \/ uart' = [pos |-> 0, len |-> bufSize]
    BY <1>3, <2>1, TransmitType DEF SpStart, TypeOK
  <2>3. uart' \in [pos : 0 .. RingCapacity, len : 0 .. Len(txbuf)] /\ uart'.pos <= uart'.len
    BY <2>1, <2>2 DEF TypeOK
  <2> QED BY <1>3, <2>2, <2>3 DEF SpStart, TypeOK, Locals, InSend, Pushing, FrameLen, msgs
<1>4. CASE SpTail
  <2>1. (seen + bufSize) % RingSize \in Index
    <3>1. bufSize \in 0 .. RingSize /\ seen \in Index
      BY DEF TypeOK
    <3> QED BY <3>1, NextIndex
  <2>2. tx' \in Ring
    BY <1>4, <2>1 DEF SpTail, TypeOK, Ring
  <2> QED BY <1>4, <2>2 DEF SpTail, TypeOK, Locals, InSend, Pushing, FrameLen, msgs
<1> QED BY <1>1, <1>2, <1>3, <1>4

\* Sending one chunk from an interrupt: the static buffer and the UART.
LEMMA ChunkStep ==
  ASSUME TypeOK, RingUsed(tx) > 0,
         txbuf' = Fill(txbuf, Copy(tx, Chunk)), Transmit(Copy(tx, Chunk), Chunk)
  PROVE  /\ txbuf' \in Seq(Byte) /\ Len(txbuf') <= RingCapacity /\ Len(txbuf) <= Len(txbuf')
         /\ state' \in {"IDLE", "SENDING"} /\ wire' \in Seq(Byte)
         /\ uart' \in [pos : 0 .. RingCapacity, len : 0 .. Len(txbuf')]
         /\ uart'.pos <= uart'.len
<1> DEFINE c == Copy(tx, Chunk)
<1>1. c \in Seq(Byte) /\ Len(c) = Chunk /\ Chunk \in 1 .. RingCapacity
  BY ChunkFacts
<1>2. /\ txbuf' \in Seq(Byte) /\ Len(c) <= Len(txbuf')
      /\ Len(txbuf) <= Len(txbuf') /\ Len(txbuf') <= RingCapacity
  <2>1. Len(c) <= RingCapacity
    BY <1>1, Constants
  <2> QED BY <1>1, <2>1, FillFacts DEF TypeOK
<1>3. Chunk \in 0 .. Len(c)
  BY <1>1, Constants
<1>4. /\ state' \in {"IDLE", "SENDING"} /\ wire' \in Seq(Byte)
      /\ uart' = uart \/ uart' = [pos |-> 0, len |-> Chunk]
  BY <1>1, <1>3, TransmitType
<1>5. Len(txbuf) \in Nat /\ Len(txbuf') \in Nat /\ RingCapacity \in Nat
  BY <1>2, Constants, LenProperties DEF TypeOK
<1>6. uart' \in [pos : 0 .. RingCapacity, len : 0 .. Len(txbuf')] /\ uart'.pos <= uart'.len
  <2>1. CASE uart' = uart
    BY <1>2, <1>5, <2>1 DEF TypeOK
  <2>2. CASE uart' = [pos |-> 0, len |-> Chunk]
    BY <1>1, <1>2, <1>5, <2>2
  <2> QED BY <1>4, <2>1, <2>2
<1> QED BY <1>2, <1>4, <1>6

\* A step of the UART or of an interrupt: it starts, advances or ends a transfer,
\* or accepts a frame, and changes none of the loop's locals.
LEMMA IsrStep ==
  ASSUME TypeInv,
         UartByte \/ DataSent \/ IsrSendPending
           \/ (\E m \in IsrIds, s \in Sizes : IsrSend(m, s))
  PROVE  TypeInv'
<1> USE Constants DEF TypeInv
<1>1. CASE UartByte
  <2>1. txbuf[uart.pos + 1] \in Byte
    <3>1. uart.pos + 1 \in 1 .. Len(txbuf)
      BY <1>1, SMTT(30) DEF UartByte, TypeOK
    <3> QED BY <3>1, ElementOfSeq DEF TypeOK
  <2>2. wire' \in Seq(Byte)
    BY <1>1, <2>1, AppendProperties DEF UartByte, TypeOK
  <2>3. uart' \in [pos : 0 .. RingCapacity, len : 0 .. Len(txbuf)] /\ uart'.pos <= uart'.len
    <3>1. Len(txbuf) \in Nat /\ Len(txbuf) <= RingCapacity
      BY LenProperties DEF TypeOK
    <3>2. /\ uart \in [pos : 0 .. RingCapacity, len : 0 .. Len(txbuf)]
          /\ uart.pos < uart.len /\ uart' = [uart EXCEPT !.pos = @ + 1]
      BY <1>1 DEF UartByte, TypeOK
    <3>3. uart.pos + 1 \in 0 .. RingCapacity /\ uart.pos + 1 <= uart.len
      BY <3>1, <3>2
    <3> QED BY <3>2, <3>3
  <2> QED BY <1>1, <2>2, <2>3 DEF UartByte, TypeOK, Locals, InSend, Pushing, FrameLen, msgs
<1>2. CASE DataSent
  <2>1. uart' \in [pos : 0 .. RingCapacity, len : 0 .. Len(txbuf)] /\ uart'.pos <= uart'.len
    BY <1>2 DEF DataSent, UartOff, TypeOK
  <2> QED BY <1>2, <2>1 DEF DataSent, TypeOK, Locals, InSend, Pushing, FrameLen, msgs
<1>3. CASE IsrSendPending
  <2>1. RingUsed(tx) > 0
    BY <1>3 DEF IsrSendPending, CanSendPending
  <2>2. /\ txbuf' \in Seq(Byte) /\ Len(txbuf') <= RingCapacity /\ Len(txbuf) <= Len(txbuf')
        /\ state' \in {"IDLE", "SENDING"} /\ wire' \in Seq(Byte)
        /\ uart' \in [pos : 0 .. RingCapacity, len : 0 .. Len(txbuf')]
        /\ uart'.pos <= uart'.len
    BY <1>3, <2>1, ChunkStep DEF IsrSendPending
  <2>3. tx' \in Ring
    BY <1>3, <2>1, ChunkFacts, SkipFacts DEF IsrSendPending, TypeOK
  <2>4. TypeOK'
    BY <1>3, <2>2, <2>3 DEF IsrSendPending, TypeOK, msgs
  <2> QED BY <1>3, <2>2, <2>4 DEF IsrSendPending, TypeOK, Locals, InSend, Pushing, FrameLen, msgs
<1>4. ASSUME NEW m \in IsrIds, NEW s \in Sizes, IsrSend(m, s)
      PROVE  TypeInv'
  <2>1. /\ m \in Ids /\ s \in Nat /\ s <= MaxEncoded /\ HeaderSize + s \in 0 .. RingCapacity
        /\ m \notin 0 .. LoopMsgs
    <3>1. m \in Ids /\ m \notin 0 .. LoopMsgs
      BY DEF IsrIds, Ids
    <3>2. s \in Nat
      BY TxAssumption
    <3>3. s <= MaxEncoded
      BY <1>4 DEF IsrSend
    <3> QED BY <3>1, <3>2, <3>3
  <2>2. ASSUME NEW r \in Ring, RingFree(r) >= HeaderSize + s, IsrAccept(r, m, s)
        PROVE  /\ tx' \in Ring /\ accepted' \subseteq Ids /\ owed' \in Seq(Byte)
               /\ size' = [size EXCEPT ![m] = s] /\ size' \in [Ids -> Sizes \cup {0}]
    <3>1. tx' \in Ring
      BY <2>1, <2>2, FrameType, PushAllFacts DEF IsrAccept
    <3>2. accepted' \subseteq Ids /\ owed' \in Seq(Byte)
      BY <2>1, <2>2, FrameType DEF IsrAccept, TypeOK
    <3>3. size' = [size EXCEPT ![m] = s] /\ size \in [Ids -> Sizes \cup {0}]
      BY <2>2 DEF IsrAccept, TypeOK
    <3> QED BY <2>1, <3>1, <3>2, <3>3
  <2>3. /\ tx' \in Ring /\ accepted' \subseteq Ids /\ owed' \in Seq(Byte)
        /\ size' \in [Ids -> Sizes \cup {0}]
        /\ size' = size \/ size' = [size EXCEPT ![m] = s]
        /\ txbuf' \in Seq(Byte) /\ Len(txbuf') <= RingCapacity /\ Len(txbuf) <= Len(txbuf')
        /\ state' \in {"IDLE", "SENDING"} /\ wire' \in Seq(Byte)
        /\ uart' \in [pos : 0 .. RingCapacity, len : 0 .. Len(txbuf')]
        /\ uart'.pos <= uart'.len
    <3>1. CASE /\ RingFree(tx) >= HeaderSize + s
               /\ IsrAccept(tx, m, s) /\ UNCHANGED <<state, txbuf, uart, wire>>
      BY <3>1, <2>2, LenProperties DEF TypeOK
    <3>2. CASE /\ CanSendPending
               /\ txbuf' = Fill(txbuf, Copy(tx, Chunk))
               /\ Transmit(Copy(tx, Chunk), Chunk)
               /\ IF RingFree(Skip(tx, Chunk)) >= HeaderSize + s
                  THEN IsrAccept(Skip(tx, Chunk), m, s)
                  ELSE tx' = Skip(tx, Chunk) /\ UNCHANGED <<size, accepted, owed>>
      <4>1. RingUsed(tx) > 0
        BY <3>2 DEF CanSendPending
      <4>2. Skip(tx, Chunk) \in Ring
        BY <4>1, ChunkFacts, SkipFacts DEF TypeOK
      <4>3. /\ txbuf' \in Seq(Byte) /\ Len(txbuf') <= RingCapacity
            /\ Len(txbuf) <= Len(txbuf')
            /\ state' \in {"IDLE", "SENDING"} /\ wire' \in Seq(Byte)
            /\ uart' \in [pos : 0 .. RingCapacity, len : 0 .. Len(txbuf')]
            /\ uart'.pos <= uart'.len
        BY <3>2, <4>1, ChunkStep
      <4>4. CASE /\ RingFree(Skip(tx, Chunk)) >= HeaderSize + s
                 /\ IsrAccept(Skip(tx, Chunk), m, s)
        BY <2>2, <4>2, <4>3, <4>4
      <4>5. CASE tx' = Skip(tx, Chunk) /\ UNCHANGED <<size, accepted, owed>>
        BY <4>2, <4>3, <4>5 DEF TypeOK
      <4> QED BY <3>2, <4>4, <4>5
    <3> QED BY <1>4, <3>1, <3>2 DEF IsrSend
  <2>4. TypeOK'
    BY <1>4, <2>3 DEF IsrSend, TypeOK
  <2>5. pending # 0 => size'[pending] = size[pending]
    BY <2>1, <2>3, SMTT(30) DEF TypeOK
  <2>6. Len(txbuf) \in Nat /\ Len(txbuf') \in Nat
    BY <2>3, LenProperties DEF TypeOK
  <2>7. Locals'
    BY <1>4, <2>3, <2>5, <2>6, SMTT(30) DEF IsrSend, TypeOK, Locals, InSend, Pushing, FrameLen
  <2> QED BY <2>4, <2>7
<1> QED BY <1>1, <1>2, <1>3, <1>4

\* Every step of the loop, the UART and the interrupts keeps the invariant.
LEMMA TypeInvStep == TypeInv /\ [Next]_vars => TypeInv'
<1> SUFFICES ASSUME TypeInv, [Next]_vars
             PROVE  TypeInv'
  OBVIOUS
<1>1. CASE UNCHANGED vars
  BY <1>1 DEF vars, port, msgs, TypeInv, TypeOK, Locals, InSend, Pushing, FrameLen
<1>2. CASE Next
  BY <1>2, ControlStep, DataStep, IsrStep DEF Next, MainLoop, Uart
<1> QED BY <1>1, <1>2

\* Whatever senders and interrupts run between the steps of the loop, the indices
\* stay in their arrays even where a push or a skip uses one it read before, the
\* locals in their ranges, and the UART inside what was copied to tx_buf.
THEOREM TxTypeCorrect == Spec => []TypeOK
<1>1. TypeInv => TypeOK
  BY DEF TypeInv
<1> QED BY <1>1, TypeInvInit, TypeInvStep, PTL DEF Spec
-----------------------------------------------------------------------------
\* Until an interrupt's own frame is accepted nothing but the loop moves the head:
\* the one its push has read is still the current one.
HeadRead == pc \in {"store", "head"} /\ accepted \cap IsrIds = {} => seen = tx.head

SendInv == TypeInv /\ ReservationHolds /\ HeadRead

\* A frame accepted stays accepted, and the loop never accepts one of the others.
LEMMA AcceptedGrows ==
  ASSUME TypeInv, [Next]_vars
  PROVE  accepted \subseteq accepted'
BY DEF Next, MainLoop, Offer, NoSend, SendCall, Wait, WaitDrain, Rewait, PushTest, PushStore,
       PushHead, Rollback, Flush, SpBusy, SpNothing, SpSize, SpCopy, SpStart, SpSkip, SpTail,
       Reread, Uart, UartByte, DataSent, IsrSendPending, IsrSend, IsrAccept, vars, msgs

\* What a drain in an interrupt does to the ring.
LEMMA DrainFacts ==
  ASSUME TypeInv, RingUsed(tx) > 0, tx' = Skip(tx, Chunk)
  PROVE  /\ RingFree(tx') >= RingFree(tx) /\ tx'.head = tx.head
         /\ RingFree(tx) \in Int /\ RingFree(tx') \in Int
<1>0. tx \in Ring /\ RingUsed(tx) \in Nat /\ RingFree(tx) = RingCapacity - RingUsed(tx)
  BY UsedCases DEF TypeInv, TypeOK, RingFree
<1>1. Chunk \in Nat /\ CanSkip(tx, Chunk)
  BY ChunkFacts, Constants DEF TypeInv
<1>2. RingUsed(tx') = RingUsed(tx) - Chunk /\ tx'.head = tx.head
  BY <1>0, <1>1, SkipFacts DEF Skip, Ring
<1> QED BY <1>0, <1>1, <1>2, Constants DEF RingFree

\* A step of an interrupt that leaves the loop in its push: it drained the queue,
\* or it has had a frame of its own accepted.
LEMMA IsrReservation ==
  ASSUME SendInv, Pushing, accepted' \cap IsrIds = {},
         IsrSendPending \/ \E m \in IsrIds, s \in Sizes : IsrSend(m, s)
  PROVE  /\ RingFree(tx') >= FrameLen(pending)' - pushed' /\ tx'.head = tx.head
         /\ seen' = seen /\ pc' = pc
<1>1. /\ RingUsed(tx) > 0 /\ tx' = Skip(tx, Chunk) /\ accepted' = accepted
      /\ pending' = pending /\ size' = size /\ pushed' = pushed /\ seen' = seen /\ pc' = pc
  <2>1. CASE IsrSendPending
    BY <2>1 DEF IsrSendPending, CanSendPending, msgs
  <2>2. CASE \E m \in IsrIds, s \in Sizes : IsrSend(m, s)
    <3>1. PICK m \in IsrIds, s \in Sizes : IsrSend(m, s)
      BY <2>2
    <3>2. ~\E r : IsrAccept(r, m, s)
      BY DEF IsrAccept
    <3> QED BY <3>1, <3>2 DEF IsrSend, CanSendPending
  <2> QED BY <2>1, <2>2
<1>2. /\ RingFree(tx') >= RingFree(tx) /\ tx'.head = tx.head
      /\ RingFree(tx) \in Int /\ RingFree(tx') \in Int
  BY <1>1, DrainFacts DEF SendInv
<1>3. pushed \in Nat /\ FrameLen(pending) \in Nat
  BY FrameFacts, Constants DEF SendInv, TypeInv, TypeOK, Locals, InSend
<1>4. RingFree(tx) >= FrameLen(pending) - pushed /\ FrameLen(pending)' = FrameLen(pending)
  BY <1>1 DEF SendInv, ReservationHolds, FrameLen
<1> QED BY <1>1, <1>2, <1>3, <1>4

\* Once wait_tx_space has found room no push is refused.
LEMMA PushFits ==
  ASSUME TypeInv, Pushing
  PROVE  /\ pending \in Ids /\ pending # 0 /\ pushed \in Nat /\ pushed + 1 \in 1 .. FrameLen(pending)
         /\ FrameLen(pending) \in 1 .. RingCapacity /\ <<pending, pushed + 1>> \in Byte
         /\ ReservationHolds /\ accepted \cap IsrIds = {} => CanPush(tx)
<1>1. pending # 0 /\ size[pending] <= MaxEncoded /\ pushed < FrameLen(pending)
  BY DEF TypeInv, Locals, InSend
<1>2. /\ pending \in Ids /\ FrameLen(pending) \in Nat /\ FrameLen(pending) > 0
      /\ FrameLen(pending) <= RingCapacity
  BY <1>1, FrameFacts DEF TypeInv
<1>3. pushed \in Nat /\ RingFree(tx) \in Int
  BY UsedCases, Constants DEF TypeInv, TypeOK
<1>4. pushed + 1 \in 1 .. FrameLen(pending)
  BY <1>1, <1>2, <1>3
<1>5. FrameLen(pending) \in 1 .. RingCapacity
  BY <1>2, Constants
<1>6. pushed + 1 \in 1 .. RingCapacity
  BY <1>1, <1>2, <1>3, Constants
<1>7. <<pending, pushed + 1>> \in Ids \X (1 .. RingCapacity)
  BY <1>2, <1>6
<1>8. ReservationHolds /\ accepted \cap IsrIds = {} => RingFree(tx) >= FrameLen(pending) - pushed
  BY DEF ReservationHolds
<1>9. ReservationHolds /\ accepted \cap IsrIds = {} => CanPush(tx)
  <2> HIDE DEF FrameLen
  <2> QED BY <1>1, <1>2, <1>3, <1>8 DEF CanPush
<1> QED BY <1>1, <1>2, <1>3, <1>4, <1>5, <1>7, <1>9, TxAssumption

\* The two steps that change the ring in a push, while the head is the one read:
\* the byte is stored where nothing is queued, and then it is queued.
LEMMA PushSteps ==
  ASSUME SendInv, accepted \cap IsrIds = {}
  PROVE  /\ PushStore => /\ tx' = [tx EXCEPT !.data[tx.head] = <<pending, pushed + 1>>]
                         /\ tx' \in Ring /\ tx'.head = tx.head /\ tx'.tail = tx.tail
                         /\ tx'.data[tx.head] = <<pending, pushed + 1>>
                         /\ RingUsed(tx') = RingUsed(tx) /\ Contents(tx') = Contents(tx)
         /\ PushHead => /\ CanPush(tx) /\ tx.data[tx.head] \in Byte
                        /\ tx' = Push(tx, tx.data[tx.head])
<1>0. tx \in Ring
  BY DEF SendInv, TypeInv, TypeOK
<1>1. CASE PushStore
  <2>1. Pushing /\ seen = tx.head /\ ~PushHead
    BY <1>1 DEF PushStore, PushHead, Pushing, SendInv, HeadRead
  <2>2. <<pending, pushed + 1>> \in Byte
    BY <2>1, PushFits DEF SendInv
  <2>3. tx' = [tx EXCEPT !.data[tx.head] = <<pending, pushed + 1>>]
    BY <1>1, <2>1 DEF PushStore
  <2> QED BY <1>0, <2>1, <2>2, <2>3, StoreFacts
<1>2. CASE PushHead
  <2>1. Pushing /\ seen = tx.head /\ ~PushStore
    BY <1>2 DEF PushStore, PushHead, Pushing, SendInv, HeadRead
  <2>2. CanPush(tx)
    BY <2>1, PushFits DEF SendInv
  <2>3. tx' = [tx EXCEPT !.head = (tx.head + 1) % RingSize]
    BY <1>2, <2>1 DEF PushHead
  <2> QED BY <1>0, <2>1, <2>2, <2>3, HeadFacts
<1> QED BY <1>1, <1>2

\* No step of the loop and no drain takes reserved space away.
LEMMA ReservationStep == SendInv /\ [Next]_vars => SendInv'
<1> SUFFICES ASSUME SendInv, [Next]_vars
             PROVE  SendInv'
  OBVIOUS
<1>0. TypeInv /\ TypeInv'
  BY TypeInvStep DEF SendInv
<1> DEFINE Fits == RingFree(tx') >= FrameLen(pending)' - pushed'
           Same == pc' \in {"store", "head"} => seen' = tx'.head
<1> SUFFICES ASSUME accepted' \cap IsrIds = {}, pc' \in {"push", "store", "head"}
             PROVE  Fits /\ Same
  BY <1>0 DEF SendInv, ReservationHolds, HeadRead, Pushing, FrameLen
<1>00. /\ accepted \cap IsrIds = {}
       /\ tx \in Ring /\ RingUsed(tx) \in Nat /\ RingFree(tx) = RingCapacity - RingUsed(tx)
       /\ Pushing => RingFree(tx) >= FrameLen(pending) - pushed
  <2>1. accepted \cap IsrIds = {}
    BY <1>0, AcceptedGrows
  <2>2. tx \in Ring /\ RingUsed(tx) \in Nat
    BY <1>0, UsedCases DEF TypeInv, TypeOK
  <2> QED BY <2>1, <2>2 DEF SendInv, RingFree, ReservationHolds
<1>1. CASE Wait \/ Rewait
  <2>1. /\ pc \in {"wait", "rewait"} /\ pending # 0 /\ pushed = 0 /\ pc' = "push"
        /\ tx' = tx /\ pending' = pending /\ size' = size /\ pushed' = pushed
    BY <1>0, <1>1 DEF Wait, Rewait, TypeInv, Locals, InSend, Pushing, port, msgs
  <2>2. FrameLen(pending) \in Nat /\ FrameLen(pending)' = FrameLen(pending)
    BY <1>0, <2>1, FrameFacts DEF TypeInv, FrameLen
  <2>3. RingFree(tx) >= FrameLen(pending)
    BY <1>1, <2>1 DEF Wait, Rewait
  <2> QED BY <2>1, <2>2, <2>3
<1>2. CASE PushStore
  <2>1. /\ tx'.head = tx.head /\ RingUsed(tx') = RingUsed(tx) /\ Pushing
        /\ seen = tx.head /\ seen' = seen
        /\ pending' = pending /\ size' = size /\ pushed' = pushed
    BY <1>2, <1>00, PushSteps DEF PushStore, Pushing, SendInv, HeadRead, msgs
  <2> QED BY <1>00, <2>1 DEF RingFree, FrameLen
<1>3. CASE PushHead
  <2>1. /\ pc = "head" /\ pc' = "push" /\ pushed' = pushed + 1 /\ pending' = pending
        /\ size' = size /\ Pushing
    BY <1>3 DEF PushHead, Pushing
  <2>2. CanPush(tx) /\ tx.data[tx.head] \in Byte /\ tx' = Push(tx, tx.data[tx.head])
    BY <1>3, <1>00, PushSteps
  <2>3. RingUsed(tx') = RingUsed(tx) + 1
    BY <1>00, <2>2, PushFacts
  <2>4. RingFree(tx') = RingFree(tx) - 1
    BY <1>00, <2>3, Constants DEF RingFree
  <2>5. pushed \in Nat /\ FrameLen(pending) \in Nat /\ FrameLen(pending)' = FrameLen(pending)
    BY <1>0, <2>1, PushFits, Constants DEF FrameLen
  <2> HIDE DEF FrameLen
  <2> QED BY <1>00, <2>1, <2>4, <2>5, Constants
<1>4. CASE IsrSendPending \/ \E m \in IsrIds, s \in Sizes : IsrSend(m, s)
  <2>1. pc' = pc
    BY <1>4 DEF IsrSendPending, IsrSend
  <2>2. Pushing
    BY <2>1 DEF Pushing
  <2>3. /\ Fits /\ tx'.head = tx.head /\ seen' = seen
    BY <1>4, <2>2, IsrReservation
  <2> QED BY <1>00, <2>1, <2>3 DEF SendInv, HeadRead
<1>5. CASE PushTest \/ Reread \/ Uart \/ UNCHANGED vars
  <2>1. /\ tx' = tx /\ pending' = pending /\ size' = size /\ pushed' = pushed
        /\ pc \in {"push", "store", "head"} /\ (pc' = pc \/ seen' = tx.head)
        /\ seen' = seen \/ seen' = tx.head
    BY <1>5 DEF PushTest, Reread, Uart, UartByte, DataSent, vars, port, msgs
  <2> QED BY <1>00, <2>1 DEF Pushing, FrameLen, SendInv, HeadRead
<1>6. CASE \/ (\E s \in Sizes : Offer(s)) \/ NoSend \/ SendCall \/ WaitDrain \/ Rollback
           \/ Flush \/ SpBusy \/ SpNothing \/ SpSize \/ SpCopy \/ SpStart \/ SpSkip \/ SpTail
  BY <1>0, <1>6 DEF Offer, NoSend, SendCall, WaitDrain, Rollback, Flush, SpBusy, SpNothing,
              SpSize, SpCopy, SpStart, SpSkip, SpTail, TypeInv, TypeOK
<1> QED BY <1>1, <1>2, <1>3, <1>4, <1>5, <1>6 DEF Next, MainLoop

\* No push is under way at the start.
LEMMA SendInvInit == Init => SendInv
BY TypeInvInit DEF Init, SendInv, ReservationHolds, HeadRead, Pushing

\* Until a second sender has had a frame accepted, no interrupt that completes
\* transfers or drains the queue, between any two steps of a push, can make a push
\* of send_message fail after wait_tx_space has found room.
THEOREM TxReservation == Spec => []ReservationHolds
<1>1. SendInv => ReservationHolds
  BY DEF SendInv
<1> QED BY <1>1, SendInvInit, ReservationStep, PTL DEF Spec
-----------------------------------------------------------------------------
\* The queue p is what is left of the queue r, with new bytes after it.
Shifts(r, p) ==
  LET k == (RingSize + p.tail - r.tail) % RingSize
  IN  IsPrefix(SubSeq(Contents(r), k + 1, RingUsed(r)), Contents(p))

\* Dropping the n oldest bytes and adding others at the end shifts the queue.
LEMMA ShiftFacts ==
  ASSUME NEW r \in Ring, NEW p \in Ring, NEW n \in Nat, CanSkip(r, n),
         p.tail = (r.tail + n) % RingSize,
         NEW s \in Seq(Byte), Contents(p) = Contents(Skip(r, n)) \o s
  PROVE  Shifts(r, p)
<1> DEFINE k == (RingSize + p.tail - r.tail) % RingSize
           x == RingSize + p.tail - r.tail
           a == Contents(Skip(r, n))
<1>1. /\ RingSize \in Nat \ {0} /\ r.tail \in Index /\ r.tail \in Nat /\ r.tail < RingSize
      /\ n < RingSize /\ n \in 0 .. RingSize
  <2>1. RingSize \in Nat \ {0} /\ r.tail \in 0 .. RingSize - 1
    BY RingAssumption DEF Ring, Index
  <2>2. n <= RingUsed(r) /\ RingUsed(r) \in 0 .. RingSize - 1
    BY UsedCases DEF CanSkip, RingCapacity
  <2> QED  BY ONLY <2>1, <2>2, n \in Nat DEF Index
<1>2. k = n
  <2> DEFINE h == p.tail
             l == r.tail
  <2>1. h = IF l + n < RingSize THEN l + n ELSE l + n - RingSize
    BY <1>1, NextIndex
  <2>2. x = RingSize + h - l /\ l \in Nat /\ l < RingSize
    BY <1>1
  <2> HIDE DEF x, h, l
  <2>3. x \in Nat /\ x < RingSize + RingSize /\ (x = n \/ x = RingSize + n)
    BY <1>1, <2>1, <2>2
  <2>4. x % RingSize = IF x < RingSize THEN x ELSE x - RingSize
    BY <1>1, <2>3, ModCases
  <2>5. x % RingSize = n
    BY <1>1, <2>3, <2>4
  <2> QED  BY <2>5 DEF x
<1>3. SubSeq(Contents(r), k + 1, RingUsed(r)) = a
  BY <1>2, SkipFacts
<1>4. a \in Seq(Byte) /\ Len(a) \in Nat
  BY SkipFacts, ContentsType, LenProperties
<1> HIDE DEF a
<1>5. IsPrefix(a, a \o s)
  <2>1. Len(a \o s) = Len(a) + Len(s) /\ Len(s) \in Nat
    BY <1>4, ConcatProperties, LenProperties
  <2>2. SubSeq(a \o s, 1, Len(a)) = SubSeq(a, 1, Len(a))
    <3>1. CASE Len(a) = 0
      <4>1. 0 < 1 /\ 0 \in Int /\ 1 \in Int
        OBVIOUS
      <4>2. SubSeq(a \o s, 1, 0) = <<>> /\ SubSeq(a, 1, 0) = <<>>
        BY <4>1, SubSeqEmpty
      <4> QED  BY <3>1, <4>2
    <3>2. CASE Len(a) # 0
      <4>1. 1 \in 1 .. Len(a) /\ Len(a) \in 1 .. Len(a)
        BY <1>4, <3>2
      <4> QED  BY <1>4, <4>1, SubSeqOfConcat1
    <3> QED  BY <3>1, <3>2
  <2> QED  BY <1>4, <2>1, <2>2 DEF IsPrefix
<1>6. Contents(p) = a \o s
  BY DEF a
<1> QED  BY <1>3, <1>5, <1>6 DEF Shifts

\* A queue that only grows, or only loses bytes, shifts too.
LEMMA ShiftGrow ==
  ASSUME NEW r \in Ring, NEW p \in Ring, p.tail = r.tail,
         NEW s \in Seq(Byte), Contents(p) = Contents(r) \o s
  PROVE  Shifts(r, p)
<1>1. r.tail \in Index /\ 0 \in Nat /\ 0 \in 0 .. RingSize /\ CanSkip(r, 0)
  <2>1. RingSize \in Nat \ {0} /\ r.tail \in Index
    BY RingAssumption DEF Ring
  <2>2. RingUsed(r) \in 0 .. RingSize - 1
    BY UsedCases DEF RingCapacity
  <2> QED  BY ONLY <2>1, <2>2 DEF CanSkip
<1>2. (r.tail + 0) % RingSize = r.tail
  <2>1. r.tail \in Nat /\ r.tail + 0 = r.tail /\ r.tail < RingSize /\ RingSize \in Nat
    BY <1>1, RingAssumption DEF Index
  <2> QED  BY <1>1, <2>1, NextIndex
<1>3. Skip(r, 0) = r
  BY <1>2 DEF Skip, Ring
<1> QED  BY <1>1, <1>2, <1>3, ShiftFacts

\* whad_ringbuf_skip drops bytes at the old end only.
LEMMA ShiftSkip ==
  ASSUME NEW r \in Ring, NEW n \in Nat, CanSkip(r, n)
  PROVE  Shifts(r, Skip(r, n)) /\ Skip(r, n) \in Ring
<1>1. Skip(r, n) \in Ring /\ Skip(r, n).tail = (r.tail + n) % RingSize
  BY SkipFacts DEF Skip, Ring
<1>2. Contents(Skip(r, n)) = Contents(Skip(r, n)) \o <<>> /\ <<>> \in Seq(Byte)
  BY <1>1, ContentsType, ConcatEmptySeq
<1> QED  BY <1>1, <1>2, ShiftFacts

\* A ring that stays as it is.
LEMMA ShiftSame ==
  ASSUME NEW r \in Ring
  PROVE  Shifts(r, r)
<1>1. Contents(r) = Contents(r) \o <<>> /\ <<>> \in Seq(Byte)
  BY ContentsType, ConcatEmptySeq
<1> QED  BY <1>1, ShiftGrow

\* No step but the assignment of a tail overwrites a queued byte.
LEMMA ShiftStep ==
  ASSUME SendInv, [Next]_vars, accepted \cap IsrIds = {}, pc # "tail"
  PROVE  Shifts(tx, tx')
<1>0. tx \in Ring /\ tx' \in Ring /\ TypeInv
  BY TypeInvStep DEF SendInv, TypeInv, TypeOK
<1>1. CASE PushHead
  <2> DEFINE b == tx.data[tx.head]
  <2>1. CanPush(tx) /\ b \in Byte /\ tx' = Push(tx, b)
    BY <1>1, PushSteps
  <2> HIDE DEF b
  <2>3. Contents(tx') = Append(Contents(tx), b) /\ tx'.tail = tx.tail
    BY <1>0, <2>1, PushFacts DEF Push
  <2>4. Contents(tx') = Contents(tx) \o <<b>> /\ <<b>> \in Seq(Byte)
    BY <1>0, <2>1, <2>3, ContentsType, AppendIsConcat
  <2> QED  BY <1>0, <2>3, <2>4, ShiftGrow
<1>2. CASE PushStore
  <2>1. Contents(tx') = Contents(tx) /\ tx'.tail = tx.tail
    BY <1>2, PushSteps
  <2>2. Contents(tx') = Contents(tx) \o <<>> /\ <<>> \in Seq(Byte)
    BY <1>0, <2>1, ContentsType, ConcatEmptySeq
  <2> QED  BY <1>0, <2>1, <2>2, ShiftGrow
<1>3. CASE IsrSendPending
  <2>1. RingUsed(tx) > 0 /\ tx' = Skip(tx, Chunk)
    BY <1>3 DEF IsrSendPending, CanSendPending
  <2>2. Chunk \in Nat /\ CanSkip(tx, Chunk)
    BY <1>0, <2>1, ChunkFacts, Constants DEF TypeInv
  <2> QED  BY <1>0, <2>1, <2>2, ShiftSkip
<1>4. ASSUME NEW m \in IsrIds, NEW s \in Sizes, IsrSend(m, s)
      PROVE  Shifts(tx, tx')
  <2> DEFINE n == HeaderSize + s
             f == Frame(m, n)
  <2>1. m \in Ids /\ n \in 0 .. RingCapacity
    <3>1. m \in Ids /\ s \in Nat /\ s <= MaxEncoded
      BY <1>4, TxAssumption DEF IsrIds, Ids, IsrSend
    <3> QED  BY <3>1, Constants
  <2>2. f \in Seq(Byte) /\ Len(f) = n
    BY <2>1, FrameType
  <2> HIDE DEF f, n
  <2>3. ASSUME NEW r \in Ring, RingFree(r) >= n, tx' = PushAll(r, f)
        PROVE  tx'.tail = r.tail /\ Contents(tx') = Contents(r) \o f
    BY <2>2, <2>3, PushAllContents DEF PushAll, Ring
  <2>4. CASE RingFree(tx) >= n /\ IsrAccept(tx, m, s)
    <3>1. tx' = PushAll(tx, f)
      BY <2>4 DEF IsrAccept, f, n
    <3> QED  BY <1>0, <2>2, <2>3, <2>4, <3>1, ShiftGrow
  <2>5. CASE /\ CanSendPending
             /\ IF RingFree(Skip(tx, Chunk)) >= n
                THEN IsrAccept(Skip(tx, Chunk), m, s) ELSE tx' = Skip(tx, Chunk)
    <3>1. Chunk \in Nat /\ CanSkip(tx, Chunk) /\ Skip(tx, Chunk) \in Ring
      <4>1. RingUsed(tx) > 0
        BY <2>5 DEF CanSendPending
      <4> QED  BY <1>0, <4>1, ChunkFacts, Constants, SkipFacts DEF TypeInv
    <3>2. CASE ~(RingFree(Skip(tx, Chunk)) >= n)
      BY <1>0, <2>5, <3>1, <3>2, ShiftSkip
    <3>3. CASE RingFree(Skip(tx, Chunk)) >= n
      <4>1. tx' = PushAll(Skip(tx, Chunk), f)
        BY <2>5, <3>3 DEF IsrAccept, f, n
      <4>2. /\ tx'.tail = Skip(tx, Chunk).tail
            /\ Contents(tx') = Contents(Skip(tx, Chunk)) \o f
        BY <2>3, <3>1, <3>3, <4>1
      <4>3. Skip(tx, Chunk).tail = (tx.tail + Chunk) % RingSize
        BY <1>0 DEF Skip, Ring
      <4> QED  BY <1>0, <2>2, <3>1, <4>2, <4>3, ShiftFacts
    <3> QED  BY <3>2, <3>3
  <2> QED  BY <1>4, <2>4, <2>5 DEF IsrSend, n
<1>5. CASE \/ UNCHANGED vars \/ (\E s \in Sizes : Offer(s)) \/ NoSend \/ SendCall \/ Wait
           \/ WaitDrain \/ Rewait \/ PushTest \/ Rollback \/ Flush \/ SpBusy \/ SpNothing
           \/ SpSize \/ SpCopy \/ SpStart \/ SpSkip \/ Reread \/ Uart
  <2>1. tx' = tx
    BY <1>5 DEF vars, port, Offer, NoSend, SendCall, Wait, WaitDrain, Rewait, PushTest,
         Rollback, Flush, SpBusy, SpNothing, SpSize, SpCopy, SpStart, SpSkip, Reread, Uart,
         UartByte, DataSent
  <2> QED  BY <1>0, <2>1, ShiftSame
<1>6. ~SpTail
  BY DEF SpTail
<1> QED  BY <1>1, <1>2, <1>3, <1>4, <1>5, <1>6 DEF Next, MainLoop

\* Until a second sender has had a frame accepted: whatever interrupts drain the
\* queue between the test, the store and the head of a push, no queued byte is
\* overwritten or moved, and the queue only loses bytes at its old end and gains them
\* at its new one.  Only the assignment of the tail in the loop's own skip, which an
\* interrupt may have overtaken, is not covered.
THEOREM TxQueueShifts == Spec => QueueShifts
<1>1. SendInv /\ [Next]_vars =>
        [accepted \cap IsrIds = {} /\ pc # "tail" =>
           LET k == (RingSize + tx'.tail - tx.tail) % RingSize
           IN  IsPrefix(SubSeq(Contents(tx), k + 1, RingUsed(tx)), Contents(tx'))]_vars
  BY ShiftStep DEF Shifts
<1> QED  BY <1>1, SendInvInit, ReservationStep, PTL DEF Spec, QueueShifts

--------------------------------------------------------------------------
(* The stream of bytes.                                                    *)

\* Every byte of s belongs to a message of S.
From(s, S) == \A i \in 1 .. Len(s) : s[i][1] \in S

\* Sequences of bytes keep their origin when they are cut, joined or extended.
LEMMA FromSubSeq ==
  ASSUME NEW S, NEW s \in Seq(Byte), From(s, S), NEW a \in Nat \ {0}, NEW b \in 0 .. Len(s)
  PROVE  SubSeq(s, a, b) \in Seq(Byte) /\ From(SubSeq(s, a, b), S)
<1> DEFINE t == SubSeq(s, a, b)
<1>0. Len(s) \in Nat /\ a \in Int /\ b \in Int
  BY LenProperties
<1>1. \A i \in a .. b : s[i] \in Byte
  <2> SUFFICES ASSUME NEW i \in a .. b PROVE i \in 1 .. Len(s)
    BY ElementOfSeq
  <2> QED BY <1>0
<1>2. /\ t \in Seq(Byte) /\ Len(t) = IF a <= b THEN b - a + 1 ELSE 0
      /\ \A i \in 1 .. b - a + 1 : t[i] = s[a + i - 1]
  BY <1>0, <1>1, SubSeqProperties
<1> HIDE DEF t
<1>3. ASSUME NEW i \in 1 .. Len(t)
      PROVE  t[i][1] \in S
  <2>1. i \in 1 .. b - a + 1 /\ a + i - 1 \in 1 .. Len(s)
    BY <1>0, <1>2
  <2>2. t[i] = s[a + i - 1]
    BY <1>2, <2>1
  <2> QED BY <2>1, <2>2 DEF From
<1> QED BY <1>2, <1>3 DEF From, t

\* Sequences of bytes of the messages S, put together.
LEMMA FromConcat ==
  ASSUME NEW S, NEW s \in Seq(Byte), NEW t \in Seq(Byte), From(s, S), From(t, S)
  PROVE  s \o t \in Seq(Byte) /\ From(s \o t, S)
<1> DEFINE u == s \o t
<1>0. Len(s) \in Nat /\ Len(t) \in Nat
  BY LenProperties
<1>1. /\ u \in Seq(Byte) /\ Len(u) = Len(s) + Len(t)
      /\ \A i \in 1 .. Len(s) + Len(t) : u[i] = IF i <= Len(s) THEN s[i] ELSE t[i - Len(s)]
  BY ConcatProperties
<1> HIDE DEF u
<1>2. ASSUME NEW i \in 1 .. Len(u)
      PROVE  u[i][1] \in S
  <2>1. CASE i <= Len(s)
    BY <1>0, <1>1, <2>1 DEF From
  <2>2. CASE ~(i <= Len(s))
    <3>1. i - Len(s) \in 1 .. Len(t) /\ u[i] = t[i - Len(s)]
      BY <1>0, <1>1, <2>2
    <3> QED BY <3>1 DEF From
  <2> QED BY <2>1, <2>2
<1> QED BY <1>1, <1>2 DEF From, u

\* One more byte of a message of S.
LEMMA FromAppend ==
  ASSUME NEW S, NEW s \in Seq(Byte), NEW b \in Byte, From(s, S), b[1] \in S
  PROVE  Append(s, b) \in Seq(Byte) /\ From(Append(s, b), S)
<1> DEFINE u == Append(s, b)
<1>0. Len(s) \in Nat
  BY LenProperties
<1>1. /\ u \in Seq(Byte) /\ Len(u) = Len(s) + 1 /\ u[Len(s) + 1] = b
      /\ \A i \in 1 .. Len(s) : u[i] = s[i]
  BY AppendProperties
<1> HIDE DEF u
<1>2. ASSUME NEW i \in 1 .. Len(u)
      PROVE  u[i][1] \in S
  <2>1. CASE i = Len(s) + 1
    BY <1>1, <2>1
  <2>2. CASE i # Len(s) + 1
    <3>1. i \in 1 .. Len(s)
      BY <1>0, <1>1, <2>2
    <3> QED BY <1>1, <3>1 DEF From
  <2> QED BY <2>1, <2>2
<1> QED BY <1>1, <1>2 DEF From, u

\* Refilling the static tx_buf, and starting a transfer from a buffer.
LEMMA FromFill ==
  ASSUME NEW S, TypeOK, NEW bytes \in Seq(Byte), From(txbuf, S), From(bytes, S)
  PROVE  Fill(txbuf, bytes) \in Seq(Byte) /\ From(Fill(txbuf, bytes), S)
<1>1. txbuf \in Seq(Byte) /\ Len(bytes) + 1 \in Nat \ {0} /\ Len(txbuf) \in 0 .. Len(txbuf)
  BY LenProperties DEF TypeOK
<1>2. /\ SubSeq(txbuf, Len(bytes) + 1, Len(txbuf)) \in Seq(Byte)
      /\ From(SubSeq(txbuf, Len(bytes) + 1, Len(txbuf)), S)
  BY <1>1, FromSubSeq
<1> QED BY <1>2, FromConcat DEF Fill

\* What a transfer puts on the wire is what was in the buffer.
LEMMA FromTransmit ==
  ASSUME NEW S, TypeOK, NEW buf \in Seq(Byte), NEW n \in 0 .. Len(buf),
         Transmit(buf, n), From(buf, S), From(wire, S)
  PROVE  From(wire', S)
<1>1. CASE config.cb = "sync"
  <2>1. SubSeq(buf, 1, n) \in Seq(Byte) /\ From(SubSeq(buf, 1, n), S)
    BY FromSubSeq
  <2>2. wire' = wire \o SubSeq(buf, 1, n) /\ wire \in Seq(Byte)
    BY <1>1 DEF Transmit, TypeOK
  <2>3. From(wire \o SubSeq(buf, 1, n), S)
    BY <2>1, <2>2, FromConcat
  <2> QED BY <2>2, <2>3
<1>2. CASE config.cb # "sync"
  BY <1>2 DEF Transmit
<1> QED BY <1>1, <1>2

-----------------------------------------------------------------------------
(* With one sender and no drain from an interrupt.                         *)

\* What send_pending knows at each point: the chunk is a part of the queue, and
\* no transfer is in flight until it starts one; the part of a frame that was
\* pushed is still queued.
StreamLocals ==
  /\ state = "IDLE" => uart = UartOff
  /\ pc \in {"copy", "start"} => state = "IDLE"
  /\ pc \in {"copy", "start", "skip", "tail"} => bufSize \in 1 .. RingUsed(tx)
  /\ pc = "start" => SubSeq(txbuf, 1, bufSize) = SubSeq(Contents(tx), 1, bufSize)
  /\ pc = "tail" => seen = tx.tail
  /\ pc = "head" => tx.data[tx.head] = <<pending, pushed + 1>>
  /\ Pushing => pushed <= RingUsed(tx)
  /\ ret # "flush"

Line == (wire \o InFlight) \o Queued
Partial == IF Pushing THEN Frame(pending, pushed) ELSE <<>>

\* The message the loop holds is one the application offered.
Offered == pending # 0 => size[pending] \in Sizes

StreamInv == /\ SendInv /\ accepted \cap IsrIds = {} /\ StreamLocals /\ Offered
             /\ Line = owed \o Partial

\* The parts of the stream are sequences of bytes.
LEMMA StreamTypes ==
  ASSUME TypeInv, StreamLocals
  PROVE  /\ wire \in Seq(Byte) /\ InFlight \in Seq(Byte) /\ Queued \in Seq(Byte)
         /\ owed \in Seq(Byte) /\ Partial \in Seq(Byte) /\ txbuf \in Seq(Byte)
         /\ tx \in Ring /\ Contents(tx) \in Seq(Byte) /\ RingUsed(tx) \in Nat
         /\ Len(Contents(tx)) = RingUsed(tx)
         /\ Len(Partial) <= Len(Queued)
<1>1. /\ wire \in Seq(Byte) /\ owed \in Seq(Byte) /\ tx \in Ring /\ Contents(tx) \in Seq(Byte)
      /\ Len(Contents(tx)) = RingUsed(tx) /\ RingUsed(tx) \in Nat /\ txbuf \in Seq(Byte)
      /\ Len(txbuf) \in Nat
  BY ContentsType, UsedCases, Constants, LenProperties DEF TypeInv, TypeOK
<1>2. InFlight \in Seq(Byte)
  <2>1. ASSUME NEW a \in Nat \ {0}, NEW b \in 0 .. Len(txbuf)
        PROVE  SubSeq(txbuf, a, b) \in Seq(Byte)
    <3>1. \A i \in a .. b : txbuf[i] \in Byte
      <4> SUFFICES ASSUME NEW i \in a .. b PROVE i \in 1 .. Len(txbuf)
        BY <1>1, ElementOfSeq
      <4> QED BY <1>1
    <3> QED BY <3>1, SubSeqProperties
  <2>2. CASE pc = "start"
    <3>1. bufSize \in 0 .. Len(txbuf) /\ uart = UartOff /\ 1 \in Nat \ {0}
      BY <1>1, <2>2 DEF StreamLocals, TypeInv, TypeOK, Locals
    <3> QED BY <2>1, <2>2, <3>1 DEF InFlight
  <2>3. CASE pc # "start"
    <3>1. uart.pos + 1 \in Nat \ {0} /\ uart.len \in 0 .. Len(txbuf)
      BY Constants DEF TypeInv, TypeOK
    <3> QED BY <2>1, <2>3, <3>1 DEF InFlight
  <2> QED BY <2>2, <2>3
<1>3. Queued \in Seq(Byte)
  <2>1. CASE pc \in {"start", "skip", "tail"}
    <3>1. bufSize + 1 \in Int /\ RingUsed(tx) \in Int
      BY <1>1, <2>1 DEF StreamLocals, Pushing
    <3>2. \A i \in bufSize + 1 .. RingUsed(tx) : Contents(tx)[i] \in Byte
      <4> SUFFICES ASSUME NEW i \in bufSize + 1 .. RingUsed(tx)
                   PROVE  i \in 1 .. Len(Contents(tx))
        BY <1>1, ElementOfSeq
      <4> QED BY <1>1, <2>1 DEF StreamLocals
    <3> QED BY <2>1, <3>1, <3>2, SubSeqProperties DEF Queued, StreamLocals
  <2>2. CASE pc \notin {"start", "skip", "tail"}
    BY <1>1, <2>2 DEF Queued
  <2> QED BY <2>1, <2>2
<1>4. Partial \in Seq(Byte) /\ Len(Partial) <= Len(Queued)
  <2>1. CASE Pushing
    <3>1. pending \in Ids /\ pushed \in 0 .. RingCapacity
      BY <2>1, PushFits DEF TypeInv, TypeOK
    <3>2. Queued = Contents(tx) /\ Partial = Frame(pending, pushed) /\ pushed <= RingUsed(tx)
      BY <2>1 DEF Queued, Partial, Pushing, StreamLocals
    <3> QED BY <1>1, <3>1, <3>2, FrameType
  <2>2. CASE ~Pushing
    <3>1. Partial = <<>> /\ Len(Queued) \in Nat
      BY <1>3, <2>2, LenProperties DEF Partial
    <3> QED BY <3>1, EmptySeq
  <2> QED BY <2>1, <2>2
<1> QED BY <1>1, <1>2, <1>3, <1>4

\* Sequences of bytes joined to a third one, or to a byte.
LEMMA ConcatThree ==
  ASSUME NEW s \in Seq(Byte), NEW t \in Seq(Byte), NEW u \in Seq(Byte)
  PROVE  (s \o t) \o u = s \o (t \o u)
BY ConcatAssociative

\* A byte added at the end of the second part is added at the end of the whole.
LEMMA ConcatAppend ==
  ASSUME NEW s \in Seq(Byte), NEW t \in Seq(Byte), NEW b \in Byte
  PROVE  s \o Append(t, b) = Append(s \o t, b)
<1>1. s \o t \in Seq(Byte) /\ <<b>> \in Seq(Byte)
  BY ConcatProperties
<1>2. Append(t, b) = t \o <<b>> /\ Append(s \o t, b) = (s \o t) \o <<b>>
  BY <1>1, AppendIsConcat
<1>3. (s \o t) \o <<b>> = s \o (t \o <<b>>)
  BY <1>1, ConcatThree
<1> QED BY <1>2, <1>3

\* The bytes sent and in flight are the beginning of what is owed: they and the
\* queue make the line, which goes on after what is owed with less than the queue.
LEMMA SentIsOwed ==
  ASSUME StreamInv, NEW n \in 0 .. Len(wire \o InFlight)
  PROVE  n <= Len(owed) /\ SubSeq(wire \o InFlight, 1, n) = SubSeq(owed, 1, n)
<1> DEFINE a == wire \o InFlight
           q == Queued
           o == owed
           p == Partial
<1>1. /\ a \in Seq(Byte) /\ q \in Seq(Byte) /\ o \in Seq(Byte) /\ p \in Seq(Byte)
      /\ Len(p) <= Len(q)
  BY StreamTypes, ConcatProperties DEF StreamInv, SendInv
<1>2. a \o q = o \o p /\ n \in 0 .. Len(a)
  BY DEF StreamInv, Line
<1> HIDE DEF a, q, o, p
<1>0. Len(a) \in Nat /\ Len(q) \in Nat /\ Len(o) \in Nat /\ Len(p) \in Nat
  BY <1>1, LenProperties
<1>3. /\ Len(a \o q) = Len(a) + Len(q)
      /\ \A i \in 1 .. Len(a) + Len(q) : (a \o q)[i] = IF i <= Len(a) THEN a[i] ELSE q[i - Len(a)]
  BY <1>1, ConcatProperties
<1>4. /\ Len(o \o p) = Len(o) + Len(p)
      /\ \A i \in 1 .. Len(o) + Len(p) : (o \o p)[i] = IF i <= Len(o) THEN o[i] ELSE p[i - Len(o)]
  BY <1>1, ConcatProperties
<1>5. Len(a) <= Len(o)
  <2>1. Len(a \o q) = Len(o \o p)
    BY <1>2
  <2> QED BY <1>0, <1>1, <1>3, <1>4, <2>1
<1>6. ASSUME NEW i \in 1 .. n
      PROVE  a[i] = o[i] /\ a[i] \in Byte
  <2>1. i \in 1 .. Len(a) + Len(q) /\ i <= Len(a) /\ i \in 1 .. Len(o) + Len(p) /\ i <= Len(o)
        /\ i \in 1 .. Len(a)
    BY <1>0, <1>2, <1>5
  <2>2. (a \o q)[i] = (o \o p)[i]
    BY <1>2
  <2>3. a[i] \in Byte
    BY <1>1, <2>1, ElementOfSeq
  <2> QED BY <1>3, <1>4, <2>1, <2>2, <2>3
<1>7. n \in Int /\ 1 \in Int /\ n \in Nat
  BY <1>0, <1>2
<1>8. /\ SubSeq(a, 1, n) \in Seq(Byte) /\ Len(SubSeq(a, 1, n)) = n
      /\ \A i \in 1 .. n : SubSeq(a, 1, n)[i] = a[i]
  BY <1>6, <1>7, SubSeqProperties
<1>9. /\ SubSeq(o, 1, n) \in Seq(Byte) /\ Len(SubSeq(o, 1, n)) = n
      /\ \A i \in 1 .. n : SubSeq(o, 1, n)[i] = o[i]
  <2>1. \A i \in 1 .. n : o[i] \in Byte
    BY <1>6
  <2> QED BY <1>7, <2>1, SubSeqProperties
<1>10. SubSeq(a, 1, n) = SubSeq(o, 1, n)
  BY <1>6, <1>8, <1>9, SeqEqual
<1> QED BY <1>0, <1>2, <1>5, <1>10 DEF a, o

\* Steps of the loop that only move control.
LEMMA StreamControl ==
  ASSUME StreamInv,
         (\E s \in Sizes : Offer(s)) \/ NoSend \/ SendCall \/ Wait \/ WaitDrain \/ Rewait
           \/ PushTest \/ Flush \/ SpBusy \/ SpNothing \/ SpSize \/ SpSkip \/ UNCHANGED vars
  PROVE  StreamLocals' /\ Line' = owed' \o Partial' /\ owed' = owed /\ wire' = wire
<1>0. /\ tx' = tx /\ state' = state /\ txbuf' = txbuf /\ uart' = uart /\ wire' = wire
      /\ owed' = owed /\ Contents(tx)' = Contents(tx)
  BY DEF Offer, NoSend, SendCall, Wait, WaitDrain, Rewait, PushTest, Flush, SpBusy, SpNothing,
         SpSize, SpSkip, vars, port, msgs
<1>00. StreamLocals /\ TypeInv /\ ret # "flush"
  BY DEF StreamInv, SendInv, StreamLocals
<1>1. CASE UNCHANGED vars
  BY <1>0, <1>1 DEF vars, port, msgs, StreamInv, StreamLocals, Line, InFlight, Queued, Partial,
                    Pushing
<1>2. CASE PushTest
  <2>1. /\ pc = "push" /\ pc' = "store" /\ pending' = pending /\ pushed' = pushed /\ ret' = ret
    BY <1>2 DEF PushTest, msgs
  <2>2. Line' = Line /\ Partial' = Partial
    BY <1>0, <2>1 DEF Line, InFlight, Queued, Partial, Pushing
  <2>3. StreamLocals'
    BY <1>0, <1>00, <2>1 DEF StreamLocals, Pushing
  <2> QED BY <1>0, <2>2, <2>3 DEF StreamInv
<1>3. CASE SpSkip
  <2>1. pc = "skip" /\ bufSize \in 1 .. RingUsed(tx) /\ RingUsed(tx) \in Nat
    BY <1>3, <1>00, StreamTypes DEF SpSkip, StreamLocals
  <2>2. CanSkip(tx, bufSize)
    BY <2>1 DEF CanSkip
  <2>3. /\ pc' = "tail" /\ seen' = tx.tail /\ bufSize' = bufSize /\ ret' = ret
    BY <1>3, <2>2 DEF SpSkip
  <2>4. Line' = Line /\ Partial' = <<>> /\ Partial = <<>>
    BY <1>0, <2>1, <2>3 DEF Line, InFlight, Queued, Partial, Pushing
  <2>5. StreamLocals'
    BY <1>0, <1>00, <2>1, <2>3 DEF StreamLocals, Pushing
  <2> QED BY <1>0, <2>4, <2>5 DEF StreamInv
<1>4. CASE \/ (\E s \in Sizes : Offer(s)) \/ NoSend \/ SendCall \/ Wait \/ WaitDrain
           \/ Rewait \/ Flush \/ SpBusy \/ SpNothing \/ SpSize
  <2>1. /\ pc \notin {"start", "skip", "tail", "push", "store", "head", "copy"}
        /\ pc' \notin {"start", "skip", "tail", "store", "head"} /\ ret' # "flush"
        /\ pc' = "push" => pushed = 0 /\ pushed' = 0 /\ pending' = pending /\ pending # 0
    <3>1. CASE Wait \/ Rewait
      BY <3>1, <1>00 DEF Wait, Rewait, msgs, TypeInv, Locals, InSend, Pushing
    <3>2. CASE ~(Wait \/ Rewait)
      BY <1>4, <3>2, <1>00 DEF Offer, NoSend, SendCall, WaitDrain, Flush, SpBusy, SpNothing,
                        SpSize, TypeInv, TypeOK
    <3> QED BY <3>1, <3>2
  <2>2. Line' = Line
    BY <1>0, <2>1 DEF Line, InFlight, Queued
  <2>3. Partial = <<>> /\ Partial' = <<>>
    <3>1. CASE pc' = "push"
      <4>1. pending \in Ids /\ 0 \in 0 .. RingCapacity
        BY <1>00, <2>1, <3>1, FrameFacts, Constants DEF TypeInv
      <4>2. Frame(pending, 0) = <<>>
        BY <4>1, FrameType, EmptySeq
      <4> QED BY <2>1, <3>1, <4>2 DEF Partial, Pushing
    <3>2. CASE pc' # "push"
      BY <2>1, <3>2 DEF Partial, Pushing
    <3> QED BY <3>1, <3>2
  <2>4. StreamLocals'
    <3>1. CASE pc' = "copy"
      <4>1. /\ RingUsed(tx) > 0 /\ state = "IDLE" /\ bufSize' = Chunk
        BY <1>4, <3>1, <1>00 DEF Offer, NoSend, SendCall, Wait, WaitDrain, Rewait, Flush,
                          SpBusy, SpNothing, SpSize, Chunk, TypeInv, TypeOK
      <4>2. Chunk \in 1 .. RingUsed(tx)
        <5>1. Chunk \in 1 .. RingCapacity /\ CanCopy(tx, Chunk) /\ RingUsed(tx) \in Nat
          BY <1>00, <4>1, ChunkFacts, StreamTypes DEF TypeInv
        <5> QED BY <5>1, Constants DEF CanCopy
      <4> QED BY <1>0, <1>00, <2>1, <3>1, <4>1, <4>2 DEF StreamLocals, Pushing
    <3>2. CASE pc' # "copy"
      <4>1. RingUsed(tx) \in Nat
        BY <1>00, StreamTypes
      <4> QED BY <1>0, <1>00, <2>1, <3>2, <4>1 DEF StreamLocals, Pushing
    <3> QED BY <3>1, <3>2
  <2> QED BY <1>0, <2>2, <2>3, <2>4 DEF StreamInv
<1> QED BY <1>0, <1>1, <1>2, <1>3, <1>4

\* A byte stored in the free slot of the head is not queued yet.
LEMMA StreamStore ==
  ASSUME StreamInv, PushStore
  PROVE  StreamLocals' /\ Line' = owed' \o Partial' /\ owed' = owed /\ wire' = wire
<1>1. /\ pc = "store" /\ pc' = "head" /\ state' = state /\ txbuf' = txbuf /\ uart' = uart
      /\ wire' = wire /\ owed' = owed /\ pending' = pending /\ pushed' = pushed /\ ret' = ret
  BY DEF PushStore, msgs
<1>2. /\ tx'.head = tx.head /\ tx'.data[tx.head] = <<pending, pushed + 1>>
      /\ RingUsed(tx') = RingUsed(tx) /\ Contents(tx') = Contents(tx)
  BY PushSteps DEF StreamInv
<1>3. Line' = Line /\ Partial' = Partial
  BY <1>1, <1>2 DEF Line, InFlight, Queued, Partial, Pushing
<1>4. StreamLocals'
  BY <1>1, <1>2 DEF StreamInv, StreamLocals, Pushing
<1> QED BY <1>1, <1>3, <1>4 DEF StreamInv

\* A push adds the next byte of the frame at the end of the line; the last one
\* turns the part pushed into an accepted frame.
LEMMA StreamPush ==
  ASSUME StreamInv, PushHead
  PROVE  /\ StreamLocals' /\ Line' = owed' \o Partial' /\ wire' = wire
         /\ owed' = owed \/ owed' = owed \o Frame(pending, FrameLen(pending))
<1> DEFINE b == <<pending, pushed + 1>>
<1>0. pc = "head" /\ tx.data[tx.head] = b /\ Pushing /\ TypeInv
  BY DEF PushHead, StreamInv, SendInv, StreamLocals, Pushing
<1>1. /\ pc = "head" /\ CanPush(tx) /\ tx' = Push(tx, b) /\ pushed' = pushed + 1
      /\ state' = state /\ txbuf' = txbuf /\ uart' = uart /\ wire' = wire /\ bufSize' = bufSize
      /\ pc' \in {"push", "flush"} /\ ret' = ret
  <2>1. CanPush(tx) /\ tx' = Push(tx, b)
    BY <1>0, PushSteps DEF StreamInv
  <2> QED BY <1>0, <2>1 DEF PushHead
<1>2. /\ b \in Byte /\ pending \in Ids /\ pushed \in Nat
      /\ pushed + 1 \in 1 .. FrameLen(pending) /\ FrameLen(pending) \in 1 .. RingCapacity
  BY <1>0, PushFits
<1>3. /\ wire \in Seq(Byte) /\ InFlight \in Seq(Byte) /\ Queued \in Seq(Byte) /\ owed \in Seq(Byte)
      /\ Partial \in Seq(Byte) /\ tx \in Ring /\ wire \o InFlight \in Seq(Byte)
      /\ RingUsed(tx) \in Nat
  BY StreamTypes, ConcatProperties DEF StreamInv, SendInv
<1>4. /\ Contents(tx') = Append(Contents(tx), b) /\ RingUsed(tx') = RingUsed(tx) + 1
  BY <1>1, <1>2, <1>3, PushFacts
<1>5. InFlight' = InFlight /\ Queued' = Append(Queued, b)
  BY <1>1, <1>4 DEF InFlight, Queued
<1> DEFINE f == Frame(pending, pushed)
           g == Frame(pending, pushed + 1)
<1>6. g = Append(f, b)
  <2>1. pushed \in 0 .. RingCapacity /\ pushed + 1 \in 0 .. RingCapacity
    BY <1>2, Constants
  <2>2. /\ f \in Seq(Byte) /\ Len(f) = pushed /\ g \in Seq(Byte) /\ Len(g) = pushed + 1
        /\ \A i \in 1 .. pushed : f[i] = <<pending, i>>
        /\ \A i \in 1 .. pushed + 1 : g[i] = <<pending, i>>
    BY <1>2, <2>1, FrameType
  <2> HIDE DEF f, g
  <2>3. /\ Append(f, b) \in Seq(Byte) /\ Len(Append(f, b)) = pushed + 1
        /\ \A i \in 1 .. pushed : Append(f, b)[i] = f[i]
        /\ Append(f, b)[pushed + 1] = b
    BY <1>2, <2>2, AppendProperties
  <2>4. ASSUME NEW i \in 1 .. pushed + 1
        PROVE  g[i] = Append(f, b)[i]
    <3>1. CASE i = pushed + 1
      BY <2>2, <2>3, <3>1
    <3>2. CASE i # pushed + 1
      <4>1. i \in 1 .. pushed
        BY <1>2, <3>2
      <4> QED BY <2>2, <2>3, <4>1
    <3> QED BY <3>1, <3>2
  <2> QED BY <2>2, <2>3, <2>4, SeqEqual
<1>7. Partial = f
  BY <1>0 DEF Partial
<1> HIDE DEF b, f, g
<1>8. Line' = owed \o g
  <2>1. Line' = (wire \o InFlight) \o Append(Queued, b)
    BY <1>1, <1>5 DEF Line
  <2>2. f \in Seq(Byte)
    BY <1>3, <1>7
  <2>3. (wire \o InFlight) \o Append(Queued, b) = Append((wire \o InFlight) \o Queued, b)
    BY <1>2, <1>3, ConcatAppend, Zenon
  <2>4. owed \o Append(f, b) = Append(owed \o f, b)
    BY <1>2, <1>3, <2>2, ConcatAppend, Zenon
  <2>5. (wire \o InFlight) \o Queued = owed \o f
    BY <1>7 DEF StreamInv, Line
  <2> QED BY <1>6, <2>1, <2>3, <2>4, <2>5
<1>9. /\ Line' = owed' \o Partial'
      /\ owed' = owed \/ owed' = owed \o Frame(pending, FrameLen(pending))
  <2>1. CASE pushed + 1 = FrameLen(pending)
    <3>1. owed' = owed \o g /\ pc' = "flush"
      BY <2>1 DEF PushHead, g
    <3>2. owed' \in Seq(Byte) /\ Partial' = <<>>
      <4>1. g \in Seq(Byte)
        BY <1>2, <1>3, <1>6, <1>7, AppendProperties
      <4> QED BY <1>3, <3>1, <4>1, ConcatProperties DEF Partial, Pushing
    <3>3. owed' \o Partial' = owed'
      BY <3>2, ConcatEmptySeq
    <3> QED BY <1>8, <2>1, <3>1, <3>3 DEF g
  <2>2. CASE pushed + 1 # FrameLen(pending)
    <3>1. owed' = owed /\ pc' = "push" /\ pending' = pending
      BY <1>1, <2>2 DEF PushHead
    <3> QED BY <1>1, <1>8, <3>1 DEF Partial, Pushing, g
  <2> QED BY <2>1, <2>2
<1>10. StreamLocals'
  <2>1. pushed + 1 <= RingUsed(tx')
    BY <1>0, <1>2, <1>3, <1>4 DEF StreamInv, StreamLocals
  <2> QED BY <1>1, <2>1 DEF StreamInv, StreamLocals, Pushing
<1> QED BY <1>1, <1>9, <1>10

\* The start of the static tx_buf after it was refilled.
LEMMA FillStart ==
  ASSUME NEW buf \in Seq(Byte), NEW bytes \in Seq(Byte), Len(bytes) > 0
  PROVE  SubSeq(Fill(buf, bytes), 1, Len(bytes)) = bytes
<1> DEFINE rest == SubSeq(buf, Len(bytes) + 1, Len(buf))
<1>0. Len(bytes) \in Nat /\ Len(buf) \in Nat /\ Len(bytes) + 1 \in Int /\ Len(buf) \in Int
  BY LenProperties
<1>1. \A i \in Len(bytes) + 1 .. Len(buf) : buf[i] \in Byte
  <2> SUFFICES ASSUME NEW i \in Len(bytes) + 1 .. Len(buf) PROVE i \in 1 .. Len(buf)
    BY ElementOfSeq
  <2> QED BY <1>0
<1>2. rest \in Seq(Byte)
  BY <1>0, <1>1, SubSeqProperties
<1> HIDE DEF rest
<1>3. 1 \in 1 .. Len(bytes) /\ Len(bytes) \in 1 .. Len(bytes)
  BY <1>0
<1>4. SubSeq(bytes \o rest, 1, Len(bytes)) = SubSeq(bytes, 1, Len(bytes))
  BY <1>2, <1>3, SubSeqOfConcat1
<1> QED BY <1>4, SubSeqFull DEF Fill, rest

\* Copying a chunk to the static buffer takes it from the queue to the transfer
\* that is about to start.
LEMMA StreamCopy ==
  ASSUME StreamInv, SpCopy
  PROVE  /\ StreamLocals' /\ Line' = owed' \o Partial' /\ owed' = owed /\ wire' = wire
<1> DEFINE c == Contents(tx)
           n == bufSize
           u == RingUsed(tx)
<1>1. /\ pc = "copy" /\ state = "IDLE" /\ uart = UartOff /\ n \in 1 .. u
      /\ tx' = tx /\ state' = state /\ uart' = uart /\ wire' = wire /\ owed' = owed
      /\ bufSize' = bufSize /\ pushed' = pushed /\ pending' = pending
      /\ ret' = ret /\ ret # "flush"
  BY DEF SpCopy, StreamInv, StreamLocals, msgs
<1>2. /\ wire \in Seq(Byte) /\ c \in Seq(Byte) /\ Len(c) = u /\ u \in Nat /\ tx \in Ring
      /\ txbuf \in Seq(Byte) /\ n \in Nat
  BY <1>1, StreamTypes DEF StreamInv, SendInv
<1>3. CanCopy(tx, n) /\ txbuf' = Fill(txbuf, Copy(tx, n)) /\ pc' = "start"
  <2>1. CanCopy(tx, n)
    BY <1>1, <1>2 DEF CanCopy
  <2> QED BY <2>1 DEF SpCopy
<1>4. Copy(tx, n) \in Seq(Byte) /\ Len(Copy(tx, n)) = n /\ Copy(tx, n) = SubSeq(c, 1, n)
  BY <1>2, <1>3, CopyFacts
<1>5. SubSeq(txbuf', 1, n) = SubSeq(c, 1, n)
  <2>1. Len(Copy(tx, n)) > 0
    BY <1>1, <1>2, <1>4
  <2>2. SubSeq(Fill(txbuf, Copy(tx, n)), 1, Len(Copy(tx, n))) = Copy(tx, n)
    BY <1>2, <1>4, <2>1, FillStart
  <2> QED BY <1>3, <1>4, <2>2
<1>6. InFlight = <<>> /\ Queued = c
  <2>1. uart.pos + 1 = 1 /\ uart.len = 0
    BY <1>1 DEF UartOff
  <2>2. SubSeq(txbuf, 1, 0) = <<>>
    BY SubSeqEmpty
  <2> QED BY <1>1, <2>1, <2>2 DEF InFlight, Queued
<1>7. InFlight' = SubSeq(c, 1, n) /\ Queued' = SubSeq(c, n + 1, u)
  BY <1>1, <1>3, <1>5 DEF InFlight, Queued
<1>8. /\ SubSeq(c, 1, n) \in Seq(Byte) /\ SubSeq(c, n + 1, u) \in Seq(Byte)
      /\ SubSeq(c, 1, n) \o SubSeq(c, n + 1, u) = c
  <2>1. \A i \in n + 1 .. u : c[i] \in Byte
    <3> SUFFICES ASSUME NEW i \in n + 1 .. u PROVE i \in 1 .. Len(c)
      BY <1>2, ElementOfSeq
    <3> QED BY <1>2
  <2>2. SubSeq(c, n + 1, u) \in Seq(Byte)
    <3>1. n + 1 \in Int /\ u \in Int
      BY <1>2
    <3> QED BY <2>1, <3>1, SubSeqProperties
  <2>3. 1 \in 1 .. Len(c) + 1 /\ n \in 1 - 1 .. Len(c) /\ u \in n .. Len(c)
    BY <1>1, <1>2
  <2>4. SubSeq(c, 1, n) \o SubSeq(c, n + 1, u) = SubSeq(c, 1, u)
    BY <1>2, <2>3, ConcatAdjacentSubSeq
  <2>5. SubSeq(c, 1, u) = c
    BY <1>2, SubSeqFull
  <2> QED BY <1>4, <2>2, <2>4, <2>5
<1>9. Line' = Line
  <2> HIDE DEF c, n, u
  <2>1. Line = wire \o c
    BY <1>2, <1>6, ConcatEmptySeq DEF Line
  <2>2. Line' = (wire \o SubSeq(c, 1, n)) \o SubSeq(c, n + 1, u)
    BY <1>1, <1>7 DEF Line
  <2> DEFINE d == SubSeq(c, 1, n)
             e == SubSeq(c, n + 1, u)
  <2> HIDE DEF d, e
  <2>3. d \in Seq(Byte) /\ e \in Seq(Byte) /\ d \o e = c /\ Line' = (wire \o d) \o e
    BY <1>8, <2>2 DEF d, e
  <2>4. (wire \o d) \o e = wire \o (d \o e)
    BY <1>2, <2>3, ConcatThree, ZenonT(60)
  <2> QED BY <2>1, <2>3, <2>4
<1>10. Partial = <<>> /\ Partial' = <<>>
  BY <1>1, <1>3 DEF Partial, Pushing
<1>11. StreamLocals'
  BY <1>1, <1>3, <1>5 DEF StreamLocals, Pushing
<1> QED BY <1>1, <1>9, <1>10, <1>11 DEF StreamInv

\* Starting the transfer: a synchronous callback sends the chunk at once, another
\* one leaves it to the UART.
LEMMA StreamStart ==
  ASSUME StreamInv, SpStart
  PROVE  /\ StreamLocals' /\ Line' = owed' \o Partial' /\ owed' = owed
         /\ wire' \o InFlight' = wire \o InFlight
         /\ wire' = wire \/ (wire' = wire \o InFlight /\ InFlight' = <<>>)
<1>1. /\ pc = "start" /\ state = "IDLE" /\ uart = UartOff /\ bufSize \in 1 .. RingUsed(tx)
      /\ tx' = tx /\ txbuf' = txbuf /\ owed' = owed /\ pc' = "skip" /\ bufSize' = bufSize
      /\ Transmit(txbuf, bufSize) /\ ret' = ret /\ ret # "flush"
  BY DEF SpStart, StreamInv, StreamLocals, msgs
<1>2. /\ wire \in Seq(Byte) /\ InFlight \in Seq(Byte) /\ Queued \in Seq(Byte)
      /\ wire \o InFlight \in Seq(Byte)
  BY StreamTypes, ConcatProperties DEF StreamInv, SendInv
<1>3. InFlight = SubSeq(txbuf, 1, bufSize)
  BY <1>1 DEF InFlight
<1>4. Queued' = Queued /\ Partial' = <<>> /\ Partial = <<>>
  BY <1>1 DEF Queued, Partial, Pushing
<1>5. CASE config.cb = "sync"
  <2>1. wire' = wire \o InFlight /\ state' = "IDLE" /\ uart' = UartOff
    BY <1>1, <1>3, <1>5 DEF Transmit
  <2>2. InFlight' = <<>>
    <3>1. uart'.pos + 1 = 1 /\ uart'.len = 0
      BY <2>1 DEF UartOff
    <3>2. SubSeq(txbuf', 1, 0) = <<>>
      BY SubSeqEmpty
    <3> QED BY <1>1, <3>1, <3>2 DEF InFlight
  <2>3. (wire \o InFlight) \o <<>> = wire \o InFlight
    BY <1>2, ConcatEmptySeq
  <2>4. wire' \o InFlight' = wire \o InFlight
    BY <2>1, <2>2, <2>3
  <2>5. Line' = Line
    BY <1>4, <2>4 DEF Line
  <2>6. StreamLocals'
    BY <1>1, <2>1 DEF StreamLocals, Pushing
  <2> QED BY <1>1, <1>4, <2>1, <2>2, <2>4, <2>5, <2>6 DEF StreamInv
<1>6. CASE config.cb # "sync"
  <2>1. wire' = wire /\ state' = "SENDING" /\ uart' = [pos |-> 0, len |-> bufSize]
    BY <1>1, <1>6 DEF Transmit
  <2>2. InFlight' = InFlight
    <3>1. uart'.pos + 1 = 1 /\ uart'.len = bufSize
      BY <2>1
    <3> QED BY <1>1, <1>3, <3>1 DEF InFlight
  <2>3. Line' = Line
    BY <1>4, <2>1, <2>2 DEF Line
  <2>4. StreamLocals'
    BY <1>1, <2>1 DEF StreamLocals, Pushing
  <2> QED BY <1>1, <1>4, <2>1, <2>2, <2>3, <2>4 DEF StreamInv
<1> QED BY <1>5, <1>6

\* The chunk that was sent or is being sent leaves the queue.
LEMMA StreamSkip ==
  ASSUME StreamInv, SpTail
  PROVE  /\ StreamLocals' /\ Line' = owed' \o Partial' /\ owed' = owed /\ wire' = wire
<1>1. /\ pc = "tail" /\ pc' \in {"loop", "rewait"} /\ bufSize \in 1 .. RingUsed(tx)
      /\ state' = state /\ txbuf' = txbuf /\ uart' = uart /\ wire' = wire /\ owed' = owed
      /\ seen = tx.tail /\ ret' = ret /\ ret # "flush"
      /\ tx' = [tx EXCEPT !.tail = (seen + bufSize) % RingSize]
  BY DEF SpTail, StreamInv, SendInv, StreamLocals, TypeInv, TypeOK, msgs
<1>2. /\ tx \in Ring /\ RingUsed(tx) \in Nat /\ bufSize \in Nat
  BY <1>1, StreamTypes DEF StreamInv, SendInv
<1>3. CanSkip(tx, bufSize)
  BY <1>1, <1>2 DEF CanSkip
<1>4. Contents(tx') = SubSeq(Contents(tx), bufSize + 1, RingUsed(tx))
  <2>1. tx' = Skip(tx, bufSize)
    BY <1>1, <1>2 DEF Skip, Ring
  <2> QED BY <1>2, <1>3, <2>1, SkipFacts
<1>5. InFlight' = InFlight /\ Queued' = Queued /\ Partial' = <<>> /\ Partial = <<>>
  BY <1>1, <1>4 DEF InFlight, Queued, Partial, Pushing
<1>6. StreamLocals'
  BY <1>1 DEF StreamInv, StreamLocals, Pushing
<1> QED BY <1>1, <1>5, <1>6 DEF StreamInv, Line

\* The UART sends the first byte in flight; its interrupt ends a transfer that has
\* none left.
LEMMA StreamUart ==
  ASSUME StreamInv, UartByte \/ DataSent
  PROVE  /\ StreamLocals' /\ Line' = owed' \o Partial' /\ owed' = owed
         /\ wire' \o InFlight' = wire \o InFlight
         /\ wire' = wire \/ (wire' \in Seq(Byte) /\ InFlight' \in Seq(Byte)
                             /\ Len(wire') = Len(wire) + 1)
<1>1. /\ tx' = tx /\ txbuf' = txbuf /\ pc' = pc /\ owed' = owed /\ bufSize' = bufSize
      /\ pushed' = pushed /\ pending' = pending /\ ret' = ret /\ seen' = seen
      /\ uart.len > 0 /\ uart.len \in Nat /\ uart.pos \in Nat /\ uart.pos <= uart.len
      /\ uart.len <= Len(txbuf) /\ Len(txbuf) \in Nat
  BY LenProperties, Constants DEF UartByte, DataSent, msgs, StreamInv, SendInv, TypeInv, TypeOK
<1>2. uart # UartOff /\ state # "IDLE" /\ pc \notin {"copy", "start"}
  BY <1>1 DEF UartOff, StreamInv, StreamLocals
<1>3. InFlight = SubSeq(txbuf, uart.pos + 1, uart.len)
  BY <1>2 DEF InFlight
<1>4. InFlight' = SubSeq(txbuf, uart'.pos + 1, uart'.len) /\ Queued' = Queued /\ Partial' = Partial
  BY <1>1, <1>2 DEF InFlight, Queued, Partial, Pushing
<1>5. /\ wire \in Seq(Byte) /\ InFlight \in Seq(Byte) /\ txbuf \in Seq(Byte)
  BY StreamTypes DEF StreamInv, SendInv
<1>6. CASE UartByte
  <2> DEFINE b == txbuf[uart.pos + 1]
             rest == SubSeq(txbuf, uart.pos + 1 + 1, uart.len)
  <2>1. wire' = Append(wire, b) /\ uart'.pos = uart.pos + 1 /\ uart'.len = uart.len /\ state' = state
    BY <1>6 DEF UartByte, StreamInv, SendInv, TypeInv, TypeOK
  <2>2. uart.pos + 1 \in 1 .. Len(txbuf) /\ uart.len \in uart.pos + 1 .. Len(txbuf)
    BY <1>1, <1>6 DEF UartByte
  <2>3. InFlight = <<b>> \o rest /\ InFlight' = rest /\ b \in Byte
    <3>1. InFlight = <<b>> \o rest
      BY <1>3, <1>5, <2>2, SubSeqRecursiveFirst
    <3>2. InFlight' = rest
      BY <1>4, <2>1
    <3> QED BY <1>5, <2>2, <3>1, <3>2, ElementOfSeq
  <2>4. rest \in Seq(Byte)
    <3>1. \A i \in uart.pos + 1 + 1 .. uart.len : txbuf[i] \in Byte
      <4> SUFFICES ASSUME NEW i \in uart.pos + 1 + 1 .. uart.len PROVE i \in 1 .. Len(txbuf)
        BY <1>5, ElementOfSeq
      <4> QED BY <1>1
    <3>2. uart.pos + 1 + 1 \in Int /\ uart.len \in Int
      BY <1>1
    <3> QED BY <3>1, <3>2, SubSeqProperties
  <2> HIDE DEF b, rest
  <2>5. /\ Append(wire, b) = wire \o <<b>> /\ <<b>> \in Seq(Byte) /\ wire' \in Seq(Byte)
        /\ Len(wire') = Len(wire) + 1
    BY <1>5, <2>1, <2>3, AppendIsConcat, AppendProperties
  <2> DEFINE e == <<b>>
  <2>6. e \in Seq(Byte) /\ wire' = wire \o e /\ InFlight = e \o rest
    BY <2>1, <2>3, <2>5
  <2> HIDE DEF e
  <2>7. (wire \o e) \o rest = wire \o (e \o rest)
    BY <1>5, <2>4, <2>6, ConcatThree, ZenonT(60)
  <2>8. wire' \o InFlight' = wire \o InFlight
    BY <2>3, <2>6, <2>7
  <2>9. Line' = Line
    BY <1>4, <2>8 DEF Line
  <2>10. StreamLocals'
    BY <1>1, <1>2, <2>1 DEF StreamInv, StreamLocals, Pushing
  <2> QED BY <1>1, <1>4, <2>3, <2>4, <2>5, <2>8, <2>9, <2>10 DEF StreamInv
<1>7. CASE DataSent
  <2>1. wire' = wire /\ uart' = UartOff /\ uart.pos = uart.len
    BY <1>7 DEF DataSent
  <2>2. InFlight = <<>> /\ InFlight' = <<>>
    <3>1. uart'.pos + 1 = 1 /\ uart'.len = 0
      BY <2>1 DEF UartOff
    <3>2. SubSeq(txbuf, 1, 0) = <<>>
      BY SubSeqEmpty
    <3>3. SubSeq(txbuf, uart.pos + 1, uart.len) = <<>>
      BY <1>1, <2>1, SubSeqEmpty
    <3> QED BY <1>3, <1>4, <3>1, <3>2, <3>3
  <2>3. Line' = Line /\ wire' \o InFlight' = wire \o InFlight
    BY <1>4, <2>1, <2>2 DEF Line
  <2>4. StreamLocals'
    BY <1>1, <1>2, <2>1 DEF StreamInv, StreamLocals, Pushing
  <2> QED BY <1>1, <1>4, <2>1, <2>3, <2>4 DEF StreamInv
<1> QED BY <1>6, <1>7

\* A step that sends bytes in flight sends the next bytes owed.
LEMMA SentStep ==
  ASSUME StreamInv, owed' = owed, wire' \in Seq(Byte), InFlight' \in Seq(Byte),
         wire' \o InFlight' = wire \o InFlight, Len(wire) < Len(wire')
  PROVE  Stream!Emit
<1> DEFINE w == wire'
           f == InFlight'
           n == Len(w)
<1>1. w \in Seq(Byte) /\ f \in Seq(Byte) /\ n \in Nat /\ Len(f) \in Nat /\ wire \in Seq(Byte)
      /\ Len(wire) \in Nat
  BY StreamTypes, LenProperties DEF StreamInv, SendInv
<1>2. n \in 0 .. Len(wire \o InFlight)
  <2>1. Len(w \o f) = n + Len(f)
    BY <1>1, ConcatProperties
  <2> QED BY <1>1, <2>1
<1>3. n <= Len(owed) /\ SubSeq(wire \o InFlight, 1, n) = SubSeq(owed, 1, n)
  BY <1>2, SentIsOwed
<1>4. SubSeq(w \o f, 1, n) = w
  <2> HIDE DEF w, f
  <2>1. 1 \in 1 .. Len(w) /\ n \in 1 .. Len(w)
    BY <1>1 DEF w
  <2>2. SubSeq(w \o f, 1, n) = SubSeq(w, 1, n)
    BY <1>1, <2>1, SubSeqOfConcat1
  <2> QED BY <1>1, <2>2, SubSeqFull
<1>5. wire' = SubSeq(owed, 1, n)
  BY <1>3, <1>4
<1>6. Len(owed) \in Nat
  BY StreamTypes, LenProperties DEF StreamInv, SendInv
<1>7. n \in Len(wire) + 1 .. Len(owed) /\ Len(wire) < Len(owed)
  <2> HIDE DEF w
  <2>1. Len(wire) < n
    BY DEF w
  <2> QED BY <1>1, <1>3, <1>6, <2>1
<1> QED BY <1>5, <1>7 DEF Stream!Emit

\* What the loop holds when it accepts is the frame of one of its messages.
LEMMA AcceptStep ==
  ASSUME StreamInv, PushHead, owed' = owed \o Frame(pending, FrameLen(pending)), wire' = wire
  PROVE  Stream!Accept
<1>1. pending # 0
  BY DEF PushHead, StreamInv, SendInv, TypeInv, Locals, InSend, Pushing
<1>2. pending \in Ids /\ size[pending] \in Sizes
  BY <1>1, FrameFacts DEF StreamInv, SendInv, TypeInv, Offered
<1>3. Frame(pending, FrameLen(pending)) \in AllFrames
  BY <1>2 DEF FrameLen, AllFrames
<1> QED BY <1>3 DEF Stream!Accept

\* Nothing but Offer gives the loop a message, and no one else sets its size.
LEMMA OfferedStep ==
  ASSUME IsrMsgs = 0, StreamInv, [Next]_vars
  PROVE  Offered'
<1>1. CASE \E s \in Sizes : Offer(s)
  <2>1. PICK s \in Sizes : Offer(s)
    BY <1>1
  <2>2. next \in Ids /\ pending' = next /\ size' = [size EXCEPT ![next] = s]
    BY <2>1, Constants DEF Offer, StreamInv, SendInv, TypeInv, TypeOK
  <2>3. size'[next] = s
    BY <2>2 DEF StreamInv, SendInv, TypeInv, TypeOK
  <2> QED BY <2>2, <2>3 DEF Offered
<1>2. CASE ~\E s \in Sizes : Offer(s)
  <2>1. size' = size /\ pending' \in {pending, 0}
    <3>1. ~\E m \in IsrIds, s \in Sizes : IsrSend(m, s)
      BY Constants DEF IsrIds
    <3> QED BY <1>2, <3>1 DEF Next, MainLoop, NoSend, SendCall, Wait, WaitDrain, Rewait,
                   PushTest, PushStore, PushHead, Rollback, Flush, SpBusy, SpNothing, SpSize,
                   SpCopy, SpStart, SpSkip, SpTail, Reread, Uart, UartByte, DataSent, IsrSendPending, vars, port, msgs
  <2> QED BY <2>1 DEF StreamInv, Offered
<1> QED BY <1>1, <1>2

\* Nothing is owed, queued or in flight at the start.
LEMMA StreamInvInit == Init => StreamInv
<1> SUFFICES ASSUME Init
             PROVE  StreamInv
  OBVIOUS
<1>1. tx \in Ring /\ RingUsed(tx) = 0
  BY TypeInvInit, UsedCases DEF Init, TypeInv, TypeOK, EmptyRing
<1>2. Contents(tx) = <<>>
  BY <1>1, ContentsType, EmptySeq
<1>3. InFlight = <<>>
  <2>1. uart.pos + 1 = 1 /\ uart.len = 0
    BY DEF Init, UartOff
  <2>2. SubSeq(txbuf, 1, 0) = <<>>
    BY SubSeqEmpty
  <2> QED BY <2>1, <2>2 DEF Init, InFlight
<1>4. Line = owed \o Partial
  <2>1. Queued = <<>> /\ Partial = <<>> /\ wire = <<>> /\ owed = <<>>
    BY <1>2 DEF Init, Queued, Partial, Pushing
  <2>2. <<>> \o <<>> = <<>>
    BY EmptySeq, ConcatEmptySeq
  <2> QED BY <1>3, <2>1, <2>2 DEF Line
<1>5. SendInv /\ accepted \cap IsrIds = {} /\ Offered /\ StreamLocals
  BY SendInvInit DEF Init, Offered, StreamLocals, Pushing
<1> QED BY <1>4, <1>5 DEF StreamInv

\* One step of the loop, the UART or its interrupt: the invariant holds on, and the
\* owner of the port sees a frame accepted, owed bytes sent, or nothing.
LEMMA StreamStep ==
  ASSUME IsrMsgs = 0, IsrDrains = FALSE, StreamInv, [Next]_vars
  PROVE  StreamInv' /\ [Stream!StreamNext]_<<owed, wire>>
<1>1. SendInv' /\ (accepted \cap IsrIds = {})' /\ Offered'
  BY ReservationStep, OfferedStep, Constants DEF StreamInv, IsrIds
<1> DEFINE Kept == StreamLocals' /\ Line' = owed' \o Partial'
           Seen == [Stream!StreamNext]_<<owed, wire>>
<1>2. CASE \/ (\E s \in Sizes : Offer(s)) \/ NoSend \/ SendCall \/ Wait \/ WaitDrain \/ Rewait
           \/ PushTest \/ Flush \/ SpBusy \/ SpNothing \/ SpSize \/ SpSkip \/ UNCHANGED vars
  <2>1. Kept /\ owed' = owed /\ wire' = wire
    BY <1>2, StreamControl
  <2> QED BY <1>1, <2>1 DEF StreamInv
<1>3. CASE PushHead
  <2>1. /\ Kept /\ wire' = wire
        /\ owed' = owed \/ owed' = owed \o Frame(pending, FrameLen(pending))
    BY <1>3, StreamPush
  <2>2. owed' = owed \o Frame(pending, FrameLen(pending)) => Stream!Accept
    BY <1>3, <2>1, AcceptStep
  <2> DEFINE more == owed \o Frame(pending, FrameLen(pending))
  <2>3. wire' = wire /\ (owed' = owed \/ owed' = more) /\ (owed' = more => Stream!Accept)
    BY <2>1, <2>2
  <2> HIDE DEF more
  <2>4. Seen
    BY <2>3 DEF Stream!StreamNext
  <2> QED BY <1>1, <2>1, <2>4 DEF StreamInv
<1>4. CASE SpCopy
  <2>1. Kept /\ owed' = owed /\ wire' = wire
    BY <1>4, StreamCopy
  <2> QED BY <1>1, <2>1 DEF StreamInv
<1>5. CASE SpStart
  <2>1. /\ Kept /\ owed' = owed
        /\ wire' \o InFlight' = wire \o InFlight
        /\ wire' = wire \/ (wire' = wire \o InFlight /\ InFlight' = <<>>)
    BY <1>5, StreamStart
  <2>2. StreamInv'
    BY <1>1, <2>1 DEF StreamInv
  <2>3. Seen
    <3>1. CASE wire' = wire
      BY <2>1, <3>1
    <3>2. CASE wire' # wire
      <4>1. /\ wire \in Seq(Byte) /\ InFlight \in Seq(Byte) /\ Len(wire) \in Nat
            /\ Len(InFlight) \in Nat /\ Len(wire \o InFlight) = Len(wire) + Len(InFlight)
        BY StreamTypes, LenProperties, ConcatProperties DEF StreamInv, SendInv
      <4>2. Len(InFlight) # 0
        <5>1. ASSUME Len(InFlight) = 0
              PROVE  wire \o InFlight = wire
          BY <4>1, <5>1, EmptySeq, ConcatEmptySeq
        <5> QED BY <2>1, <3>2, <5>1
      <4>3. Len(wire) < Len(wire')
        BY <2>1, <3>2, <4>1, <4>2
      <4>4. wire' \in Seq(Byte) /\ InFlight' \in Seq(Byte)
        <5>1. InFlight' = <<>> /\ wire' = wire \o InFlight
          BY <2>1, <3>2
        <5> QED BY <4>1, <5>1, EmptySeq, ConcatProperties
      <4> QED BY <2>1, <4>3, <4>4, SentStep DEF Stream!StreamNext
    <3> QED BY <3>1, <3>2
  <2> QED BY <2>2, <2>3
<1>6. CASE SpTail
  <2>1. Kept /\ owed' = owed /\ wire' = wire
    BY <1>6, StreamSkip
  <2> QED BY <1>1, <2>1 DEF StreamInv
<1>7. CASE Uart
  <2>1. /\ Kept /\ owed' = owed /\ wire' \o InFlight' = wire \o InFlight
        /\ wire' = wire \/ (wire' \in Seq(Byte) /\ InFlight' \in Seq(Byte)
                             /\ Len(wire') = Len(wire) + 1)
    BY <1>7, StreamUart DEF Uart
  <2>2. Seen
    <3>1. CASE wire' = wire
      BY <2>1, <3>1
    <3>2. CASE wire' # wire
      <4>1. Len(wire) \in Nat
        BY StreamTypes, LenProperties DEF StreamInv, SendInv
      <4>2. Len(wire) < Len(wire')
        BY <2>1, <3>2, <4>1
      <4> QED BY <2>1, <3>2, <4>2, SentStep DEF Stream!StreamNext
    <3> QED BY <3>1, <3>2
  <2> QED BY <1>1, <2>1, <2>2 DEF StreamInv
<1>8. CASE PushStore
  <2>1. Kept /\ owed' = owed /\ wire' = wire
    BY <1>8, StreamStore
  <2> QED BY <1>1, <2>1 DEF StreamInv
<1>9. ~Rollback /\ ~Reread
  <2>1. ~Rollback
    BY PushFits DEF Rollback, StreamInv, SendInv, Pushing
  <2>2. ~Reread
    BY DEF Reread, StreamInv, SendInv, HeadRead, StreamLocals
  <2> QED BY <2>1, <2>2
<1>10. ~IsrSendPending /\ ~\E m \in IsrIds, s \in Sizes : IsrSend(m, s)
  BY Constants DEF IsrIds, IsrSendPending
<1> HIDE DEF Kept, Seen
<1> QED BY <1>2, <1>3, <1>4, <1>5, <1>6, <1>7, <1>8, <1>9, <1>10 DEF Next, MainLoop, Seen

\* With one sender and no drain from an interrupt: sent bytes, bytes in flight and
\* queued bytes are at every point exactly the accepted frames, in order, and the
\* part of the current one already pushed.
THEOREM TxConservation ==
  ASSUME IsrMsgs = 0, IsrDrains = FALSE
  PROVE  Spec => []Conservation
<1>1. StreamInv /\ [Next]_vars => StreamInv'
  BY StreamStep
<1>2. StreamInv => Conservation
  BY DEF StreamInv, Line, Partial, Conservation
<1> QED BY <1>1, <1>2, StreamInvInit, PTL DEF Spec

\* Under the same assumptions the safety part of StreamRefinement: send_message,
\* send_pending, the UART and data_sent implement the queue of frames.
THEOREM TxImplementsStream ==
  ASSUME IsrMsgs = 0, IsrDrains = FALSE
  PROVE  Spec => Stream!StreamSafety
<1>1. StreamInv /\ [Next]_vars => StreamInv' /\ [Stream!StreamNext]_<<owed, wire>>
  BY StreamStep
<1>2. Init => Stream!StreamInit
  BY DEF Init, Stream!StreamInit
<1> QED BY <1>1, <1>2, StreamInvInit, PTL DEF Spec, Stream!StreamSafety

\* Under the same assumptions no step writes a byte of tx_buf that the UART still has
\* to read: send_pending refills the buffer only after the end of the transfer.
THEOREM TxBufferStable ==
  ASSUME IsrMsgs = 0, IsrDrains = FALSE
  PROVE  Spec => TxBufStable
<1> DEFINE Stable == \A k \in uart.pos + 1 .. uart.len : txbuf'[k] = txbuf[k]
<1>1. StreamInv /\ [Next]_vars => StreamInv'
  BY StreamStep
<1>2. StreamInv /\ [Next]_vars => [Stable]_vars
  <2> SUFFICES ASSUME StreamInv, Next
               PROVE  Stable
    OBVIOUS
  <2>1. CASE SpCopy
    <3>1. uart.pos = 0 /\ uart.len = 0
      BY <2>1 DEF SpCopy, StreamInv, StreamLocals, UartOff
    <3> QED BY <3>1
  <2>2. CASE ~SpCopy
    <3>1. ~IsrSendPending /\ ~\E m \in IsrIds, s \in Sizes : IsrSend(m, s)
      BY Constants DEF IsrIds, IsrSendPending
    <3>2. txbuf' = txbuf
      BY <2>2, <3>1 DEF Next, MainLoop, Offer, NoSend, SendCall, Wait, WaitDrain, Rewait,
           PushTest, PushStore, PushHead, Rollback, Flush, SpBusy, SpNothing, SpSize,
           SpStart, SpSkip, SpTail, Reread, Uart, UartByte, DataSent, port
    <3> QED BY <3>2
  <2> QED BY <2>1, <2>2
<1> QED BY <1>1, <1>2, StreamInvInit, PTL DEF Spec, TxBufStable

\* Under the same assumptions no transfer is started before the UART has finished
\* the one in flight: the documented claim of send_pending, which an interrupt that
\* drains the queue breaks.
THEOREM TxNoOverlap ==
  ASSUME IsrMsgs = 0, IsrDrains = FALSE
  PROVE  Spec => NoOverlap
<1> DEFINE Goes ==
      uart.len > 0 => \/ uart' = UartOff
                      \/ uart'.len = uart.len /\ uart'.pos >= uart.pos
<1>1. StreamInv /\ [Next]_vars => StreamInv'
  BY StreamStep
<1>2. StreamInv /\ [Next]_vars => [Goes]_vars
  <2> SUFFICES ASSUME StreamInv, Next
               PROVE  Goes
    OBVIOUS
  <2>1. uart.pos \in Nat
    BY Constants DEF StreamInv, SendInv, TypeInv, TypeOK
  <2>2. CASE SpStart
    <3>1. uart.len = 0
      BY <2>2 DEF SpStart, StreamInv, StreamLocals, UartOff
    <3> QED BY <3>1
  <2>3. CASE UartByte
    <3>1. uart'.len = uart.len /\ uart'.pos = uart.pos + 1
      BY <2>3 DEF UartByte, StreamInv, SendInv, TypeInv, TypeOK
    <3> QED BY <2>1, <3>1
  <2>4. CASE DataSent
    <3>1. uart' = UartOff
      BY <2>4 DEF DataSent
    <3> QED BY <3>1
  <2>5. CASE ~SpStart /\ ~UartByte /\ ~DataSent
    <3>1. ~IsrSendPending /\ ~\E m \in IsrIds, s \in Sizes : IsrSend(m, s)
      BY Constants DEF IsrIds, IsrSendPending
    <3>2. uart' = uart
      BY <2>5, <3>1 DEF Next, MainLoop, Offer, NoSend, SendCall, Wait, WaitDrain, Rewait,
           PushTest, PushStore, PushHead, Rollback, Flush, SpBusy, SpNothing, SpSize,
           SpCopy, SpSkip, SpTail, Reread, Uart, port
    <3> QED BY <2>1, <3>2
  <2> QED BY <2>2, <2>3, <2>4, <2>5
<1> QED BY <1>1, <1>2, StreamInvInit, PTL DEF Spec, NoOverlap
-----------------------------------------------------------------------------
\* The messages whose bytes may be in the system: those accepted, and the one
\* being pushed.
Senders == IF Pushing THEN accepted \cup {pending} ELSE accepted

Traced == From(Contents(tx), Senders) /\ From(txbuf, Senders) /\ From(wire, Senders)

\* The steps that move no byte.
LEMMA TracedControl ==
  ASSUME StreamInv, Traced,
         (\E s \in Sizes : Offer(s)) \/ NoSend \/ SendCall \/ Wait \/ WaitDrain \/ Rewait
           \/ PushTest \/ PushStore \/ Flush \/ SpBusy \/ SpNothing \/ SpSize \/ SpSkip
           \/ DataSent \/ UNCHANGED vars
  PROVE  Traced'
<1>1. /\ txbuf' = txbuf /\ wire' = wire /\ accepted' = accepted
      /\ Pushing => Pushing' /\ pending' = pending
  BY DEF Offer, NoSend, SendCall, Wait, WaitDrain, Rewait, PushTest, PushStore, Flush, SpBusy,
         SpNothing, SpSize, SpSkip, DataSent, vars, port, msgs, Pushing
<1>2. \A x : x \in Senders => x \in Senders'
  BY <1>1 DEF Senders
<1>3. Contents(tx') = Contents(tx)
  <2>1. CASE PushStore
    BY <2>1, PushSteps DEF StreamInv
  <2>2. CASE ~PushStore
    <3>1. tx' = tx
      BY <2>2 DEF Offer, NoSend, SendCall, Wait, WaitDrain, Rewait, PushTest, Flush, SpBusy,
                  SpNothing, SpSize, SpSkip, DataSent, vars, port
    <3> QED BY <3>1
  <2> QED BY <2>1, <2>2
<1> HIDE DEF Senders
<1> QED BY <1>1, <1>2, <1>3 DEF Traced, From

\* The steps of the loop that move bytes, and the UART.
LEMMA TracedData ==
  ASSUME StreamInv, Traced, PushHead \/ SpCopy \/ SpStart \/ SpTail \/ UartByte
  PROVE  Traced'
<1>0. /\ tx \in Ring /\ txbuf \in Seq(Byte) /\ wire \in Seq(Byte) /\ bufSize \in Nat
      /\ Contents(tx) \in Seq(Byte) /\ Len(Contents(tx)) = RingUsed(tx) /\ RingUsed(tx) \in Nat
      /\ TypeInv /\ StreamLocals
  BY ContentsType, UsedCases, Constants DEF StreamInv, SendInv, TypeInv, TypeOK
<1>1. CASE PushHead
  <2>1. Pushing /\ pending \in Senders /\ Senders' = Senders
    BY <1>1 DEF PushHead, Senders, Pushing
  <2> DEFINE b == tx.data[tx.head]
  <2>2. b = <<pending, pushed + 1>>
    BY <1>0, <1>1 DEF PushHead, StreamLocals
  <2>3. b \in Byte /\ CanPush(tx) /\ tx' = Push(tx, b) /\ txbuf' = txbuf /\ wire' = wire
    BY <1>1, PushSteps DEF StreamInv, PushHead
  <2>4. b[1] \in Senders
    BY <2>1, <2>2
  <2> HIDE DEF b
  <2>5. Contents(tx') = Append(Contents(tx), b)
    BY <1>0, <2>3, PushFacts
  <2>6. From(Contents(tx'), Senders)
    BY <1>0, <2>3, <2>4, <2>5, FromAppend DEF Traced
  <2> HIDE DEF Senders
  <2> QED BY <2>1, <2>3, <2>6 DEF Traced
<1>2. CASE SpCopy
  <2>1. Senders' = Senders /\ tx' = tx /\ wire' = wire
    BY <1>0, <1>2 DEF SpCopy, Senders, Pushing, msgs, TypeInv, TypeOK
  <2>2. From(txbuf', Senders)
    <3>1. CASE CanCopy(tx, bufSize)
      <4>1. bufSize \in 0 .. Len(Contents(tx)) /\ Copy(tx, bufSize) = SubSeq(Contents(tx), 1, bufSize)
        BY <1>0, <3>1, CopyFacts DEF CanCopy
      <4>2. Copy(tx, bufSize) \in Seq(Byte) /\ From(Copy(tx, bufSize), Senders)
        BY <1>0, <4>1, FromSubSeq DEF Traced
      <4>3. txbuf' = Fill(txbuf, Copy(tx, bufSize))
        BY <1>2, <3>1 DEF SpCopy
      <4> QED BY <1>0, <4>2, <4>3, FromFill DEF TypeInv, Traced
    <3>2. CASE ~CanCopy(tx, bufSize)
      BY <1>2, <3>2 DEF SpCopy, Traced
    <3> QED BY <3>1, <3>2
  <2> HIDE DEF Senders
  <2> QED BY <2>1, <2>2 DEF Traced
<1>3. CASE SpStart
  <2>1. Senders' = Senders /\ tx' = tx /\ txbuf' = txbuf /\ Transmit(txbuf, bufSize)
    BY <1>3 DEF SpStart, Senders, Pushing, msgs
  <2>2. bufSize \in 0 .. Len(txbuf)
    BY <1>0, <1>3, LenProperties DEF SpStart, TypeInv, Locals
  <2>3. From(wire', Senders)
    BY <1>0, <2>1, <2>2, FromTransmit DEF TypeInv, Traced
  <2> HIDE DEF Senders
  <2> QED BY <2>1, <2>3 DEF Traced
<1>4. CASE SpTail
  <2>1. Senders' = Senders /\ txbuf' = txbuf /\ wire' = wire /\ pc = "tail"
    BY <1>0, <1>4 DEF SpTail, Senders, Pushing, msgs, TypeInv, TypeOK
  <2>2. CanSkip(tx, bufSize) /\ seen = tx.tail
    BY <1>0, <2>1 DEF StreamLocals, CanSkip
  <2>3. tx' = Skip(tx, bufSize)
    BY <1>0, <1>4, <2>2 DEF SpTail, Skip, Ring
  <2>4. Contents(tx') = SubSeq(Contents(tx), bufSize + 1, RingUsed(tx))
    BY <1>0, <2>2, <2>3, SkipFacts
  <2>5. From(Contents(tx'), Senders)
    BY <1>0, <2>4, FromSubSeq DEF Traced
  <2> HIDE DEF Senders
  <2> QED BY <2>1, <2>5 DEF Traced
<1>5. CASE UartByte
  <2>1. /\ Senders' = Senders /\ tx' = tx /\ txbuf' = txbuf
        /\ wire' = Append(wire, txbuf[uart.pos + 1])
    BY <1>5 DEF UartByte, Senders, Pushing, msgs
  <2>2. uart.pos + 1 \in 1 .. Len(txbuf)
    BY <1>0, <1>5 DEF UartByte, TypeInv, TypeOK
  <2>3. txbuf[uart.pos + 1] \in Byte /\ txbuf[uart.pos + 1][1] \in Senders
    BY <1>0, <2>2, ElementOfSeq DEF Traced, From
  <2>4. From(wire', Senders)
    BY <1>0, <2>1, <2>3, FromAppend DEF Traced
  <2> HIDE DEF Senders
  <2> QED BY <2>1, <2>4 DEF Traced
<1> QED BY <1>1, <1>2, <1>3, <1>4, <1>5

\* Every step keeps the sender of each byte known.
LEMMA TracedStep ==
  ASSUME IsrMsgs = 0, IsrDrains = FALSE, StreamInv, Traced, [Next]_vars
  PROVE  Traced'
<1>1. ~IsrSendPending /\ ~(\E m \in IsrIds, s \in Sizes : IsrSend(m, s))
  BY Constants DEF IsrIds, IsrSendPending
<1>2. ~Rollback
  BY PushFits DEF Rollback, StreamInv, SendInv, Pushing
<1>3. ~Reread
  BY DEF Reread, StreamInv, SendInv, HeadRead, StreamLocals
<1> QED BY <1>1, <1>2, <1>3, TracedControl, TracedData DEF Next, MainLoop, Uart

\* Under the same assumptions every byte that is queued or sent while no push loop
\* runs belongs to a message that send_message accepted: a refused call leaves
\* nothing of its frame behind.  An interrupt that drains the queue between the two
\* halves of a skip does not keep this: the tail then passes the head.
THEOREM TxFailedSend ==
  ASSUME IsrMsgs = 0, IsrDrains = FALSE
  PROVE  Spec => []FailedSendLeavesNothing
<1>1. Init => Traced
  <2>1. ASSUME Init
        PROVE  Contents(tx) = <<>>
    <3>1. tx \in Ring /\ RingUsed(tx) = 0
      BY <2>1, TypeInvInit, UsedCases DEF Init, TypeInv, TypeOK, EmptyRing
    <3> QED BY <3>1, ContentsType, EmptySeq
  <2>2. Len(<<>>) = 0
    BY EmptySeq
  <2> QED BY <2>1, <2>2 DEF Init, Traced, From
<1>2. StreamInv /\ Traced /\ [Next]_vars => StreamInv' /\ Traced'
  BY StreamStep, TracedStep
<1>3. StreamInv /\ Traced => FailedSendLeavesNothing
  BY ContentsType DEF StreamInv, SendInv, TypeInv, TypeOK, Traced, From, Senders,
                      FailedSendLeavesNothing
<1> QED BY <1>1, <1>2, <1>3, StreamInvInit, PTL DEF Spec
=============================================================================
