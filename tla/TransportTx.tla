---------------------------- MODULE TransportTx ----------------------------
(***************************************************************************)
(* The transmit half of src/src/transport.c under the communication loop   *)
(* the documentation prescribes (docs/source/transport.rst, "Basic         *)
(* communication loop").  The main loop runs whad_transport_send_message   *)
(* and whad_transport_send_pending in steps an interrupt can fall between; *)
(* the UART reads the static tx_buf byte by byte while the loop goes on,   *)
(* and its end-of-transfer interrupt calls whad_transport_data_sent.       *)
(* Interrupt handlers run to completion, so each of them is one step; the  *)
(* loop's own pushes and skips are not: whad_ringbuf_push tests the room,  *)
(* writes the byte and then moves the head, and whad_ringbuf_skip tests    *)
(* the size and then moves the tail.  whad_ringbuf_copy stays one step.    *)
(*                                                                         *)
(* A byte is the pair <<m, i>>: the i-th byte of the frame of message m,   *)
(* header included.  Tagging bytes with their message makes a lost,        *)
(* duplicated, reordered or foreign byte visible; their values do not      *)
(* matter to this half.                                                    *)
(***************************************************************************)
EXTENDS RingBuf, SequencesExt

CONSTANTS
  HeaderSize,     \* WHAD_TRANSPORT_FRAME_HEADER_SIZE
  LoopMsgs,       \* the main loop sends messages 1 .. LoopMsgs
  IsrMsgs,        \* an interrupt or co-routine sends IsrMsgs more messages
  Sizes,          \* payload sizes a message may have
  MaxTxSizes,     \* values of config.max_txbuf_size
  Callbacks,      \* pfn_data_send_buffer: "none", "sync" or "async"
  IsrDrains,      \* whether an interrupt calls whad_transport_send_pending
  MaxWire         \* bound: no interrupt drains the queue after that many bytes

Ids == 1 .. LoopMsgs + IsrMsgs
IsrIds == LoopMsgs + 1 .. LoopMsgs + IsrMsgs
MaxEncoded == RingSize - 1 - HeaderSize

ASSUME TxAssumption ==
  /\ HeaderSize \in Nat \ {0} /\ RingSize > HeaderSize + 1
  /\ LoopMsgs \in Nat /\ IsrMsgs \in Nat
  /\ Sizes \subseteq Nat
  /\ MaxTxSizes \subseteq Nat \ {0}
  /\ Callbacks \subseteq {"none", "sync", "async"}
  /\ IsrDrains \in BOOLEAN /\ MaxWire \in Nat
  /\ Ids \X (1 .. RingCapacity) \subseteq Byte

VARIABLES
  config,     \* gw_transport.config
  tx,         \* gw_transport.tx_buf
  state,      \* gw_transport.state
  txbuf,      \* the static tx_buf the UART reads from, as far as written
  uart,       \* progress of the transfer in flight; len = 0 when there is none
  wire,       \* every byte the host has been sent
  pc,         \* where the main loop is
  ret,        \* where send_pending returns to
  pending,    \* g_pending_message of the loop, 0 for NULL
  next,       \* the next message the application will want to send
  size,       \* payload size of each message, once it exists
  pushed,     \* local of send_message
  bufSize,    \* the size the skip under way is called with: the local buf_size
              \* of send_pending, or pushed
  seen,       \* the head or the tail a push or a skip has read
  accepted,   \* messages whose send_message returned WHAD_SUCCESS
  owed        \* the bytes of their frames, in the order of acceptance

port == <<tx, state, txbuf, uart, wire>>
msgs == <<pending, next, size, accepted, owed>>
vars == <<config, port, pc, ret, msgs, pushed, bufSize, seen>>

UartOff == [pos |-> 0, len |-> 0]
FrameLen(m) == HeaderSize + size[m]
\* The first n bytes of the frame of m.
Frame(m, n) == [i \in 1 .. n |-> <<m, i>>]
\* Faulty variant: max_txbuf_size taken for the size of the chunk.
Smaller_Second(a, b) == b
Smaller(a, b) == IF a < b THEN a ELSE b

\* memcpy of the first bytes of the ring over the start of the static tx_buf.
Fill(buf, bytes) ==
  bytes \o SubSeq(buf, Len(bytes) + 1, Len(buf))

Init ==
  /\ config \in [max_txbuf_size : MaxTxSizes, cb : Callbacks]
  /\ tx = EmptyRing
  /\ state = "IDLE"
  /\ txbuf = <<>> /\ uart = UartOff /\ wire = <<>>
  /\ pc = "loop" /\ ret = "loop"
  /\ pending = 0 /\ next = 1 /\ size = [m \in Ids |-> 0]
  /\ pushed = 0 /\ bufSize = 0 /\ seen = 0
  /\ accepted = {} /\ owed = <<>>
-----------------------------------------------------------------------------
(* The communication loop and whad_transport_send_message.                 *)

\* The application has a new message for the loop.
Offer(s) ==
  /\ pc = "loop" /\ pending = 0 /\ next <= LoopMsgs
  /\ pending' = next /\ next' = next + 1
  /\ size' = [size EXCEPT ![next] = s]
  /\ UNCHANGED <<config, port, pc, ret, pushed, bufSize, seen, accepted, owed>>

\* Nothing to send, or a size the transport refuses: on to send_pending.
NoSend ==
  /\ pc = "loop"
  /\ \/ pending = 0
     \/ pending # 0 /\ size[pending] > MaxEncoded
  /\ pc' = "flush"
  /\ UNCHANGED <<config, port, ret, msgs, pushed, bufSize, seen>>

SendCall ==
  /\ pc = "loop" /\ pending # 0
  /\ size[pending] <= MaxEncoded
  /\ pc' = "wait" /\ pushed' = 0
  /\ UNCHANGED <<config, port, ret, msgs, bufSize, seen>>

\* Faulty variant: the header is left out of the space asked for.
Wait_NoHeader ==
  /\ pc = "wait"
  /\ pc' = IF RingFree(tx) >= size[pending] THEN "push" ELSE "drain"
  /\ UNCHANGED <<config, port, ret, msgs, pushed, bufSize, seen>>

\* whad_transport_wait_tx_space: room at once, or look at the state.
Wait ==
  /\ pc = "wait"
  /\ pc' = IF RingFree(tx) >= FrameLen(pending) THEN "push" ELSE "drain"
  /\ UNCHANGED <<config, port, ret, msgs, pushed, bufSize, seen>>

WaitDrain ==
  /\ pc = "drain"
  /\ IF state = "IDLE" THEN pc' = "pending" /\ ret' = "rewait"
                       ELSE pc' = "rewait" /\ UNCHANGED ret
  /\ UNCHANGED <<config, port, msgs, pushed, bufSize, seen>>

\* Faulty variant: one send_pending is taken to have made room.
Rewait_NoTest ==
  /\ pc = "rewait"
  /\ pc' = "push"
  /\ UNCHANGED <<config, port, ret, msgs, pushed, bufSize, seen>>

\* Second test of the space; without it the call returns WHAD_RINGBUF_FULL
\* and the loop keeps g_pending_message for its next turn.
Rewait ==
  /\ pc = "rewait"
  /\ pc' = IF RingFree(tx) >= FrameLen(pending) THEN "push" ELSE "flush"
  /\ UNCHANGED <<config, port, ret, msgs, pushed, bufSize, seen>>

\* Faulty variant: the head is moved before the byte is stored.
PushTest_HeadFirst ==
  /\ pc = "push" /\ CanPush(tx)
  /\ seen' = tx.head /\ pc' = "store"
  /\ tx' = [tx EXCEPT !.head = (@ + 1) % RingSize]
  /\ UNCHANGED <<config, state, txbuf, uart, wire, ret, msgs, pushed, bufSize>>

\* whad_ringbuf_push has found a free slot, and has read the head.
PushTest ==
  /\ pc = "push" /\ CanPush(tx)
  /\ seen' = tx.head /\ pc' = "store"
  /\ UNCHANGED <<config, port, ret, msgs, pushed, bufSize>>

\* The byte goes into the slot of the head, read at the test or again.
PushStore ==
  /\ pc = "store"
  /\ \E slot \in {seen, tx.head} :
       tx' = [tx EXCEPT !.data[slot] = <<pending, pushed + 1>>]
  /\ pc' = "head"
  /\ UNCHANGED <<config, state, txbuf, uart, wire, ret, msgs, pushed, bufSize, seen>>

\* p_ringbuf->head = new_head; after the last byte send_message succeeds.
PushHead ==
  /\ pc = "head"
  /\ tx' = [tx EXCEPT !.head = (seen + 1) % RingSize]
  /\ pushed' = pushed + 1
  /\ UNCHANGED <<config, state, txbuf, uart, wire, ret, next, size, bufSize, seen>>
  /\ IF pushed + 1 = FrameLen(pending)
     THEN /\ accepted' = accepted \cup {pending}
          /\ owed' = owed \o Frame(pending, FrameLen(pending))
          /\ pending' = 0 /\ pc' = "flush"
     ELSE pc' = "push" /\ UNCHANGED <<accepted, owed, pending>>

\* A push was refused: skip as many bytes as were pushed, return
\* WHAD_RINGBUF_FULL.
Rollback ==
  /\ pc = "push" /\ ~CanPush(tx)
  /\ bufSize' = pushed
  /\ pc' = "skip" /\ ret' = "flush"
  /\ UNCHANGED <<config, port, msgs, pushed, seen>>

Flush ==
  /\ pc = "flush"
  /\ pc' = "pending" /\ ret' = "loop"
  /\ UNCHANGED <<config, port, msgs, pushed, bufSize, seen>>
-----------------------------------------------------------------------------
(* whad_transport_send_pending, as the main loop runs it.                  *)

SpBusy ==           \* "Cannot send if we are already sending": WHAD_ERROR
  /\ pc = "pending" /\ state # "IDLE"
  /\ pc' = ret
  /\ UNCHANGED <<config, port, ret, msgs, pushed, bufSize, seen>>

SpNothing ==        \* no callback, or WHAD_RINGBUF_EMPTY
  /\ pc = "pending" /\ state = "IDLE"
  /\ config.cb = "none" \/ RingUsed(tx) = 0
  /\ pc' = ret
  /\ UNCHANGED <<config, port, ret, msgs, pushed, bufSize, seen>>

SpSize ==
  /\ pc = "pending" /\ state = "IDLE"
  /\ config.cb # "none" /\ RingUsed(tx) > 0
  /\ bufSize' = Smaller(RingUsed(tx), config.max_txbuf_size)
  /\ pc' = "copy"
  /\ UNCHANGED <<config, port, ret, msgs, pushed, seen>>

SpCopy ==
  /\ pc = "copy"
  /\ IF CanCopy(tx, bufSize)
     THEN txbuf' = Fill(txbuf, Copy(tx, bufSize)) /\ pc' = "start"
     ELSE pc' = ret /\ UNCHANGED txbuf
  /\ UNCHANGED <<config, tx, state, uart, wire, ret, msgs, pushed, bufSize, seen>>

\* Faulty variant: the state is not set.
Transmit_NoState(buf, n) ==
  IF config.cb = "sync"
  THEN wire' = wire \o SubSeq(buf, 1, n) /\ UNCHANGED <<state, uart>>
  ELSE uart' = [pos |-> 0, len |-> n] /\ UNCHANGED <<state, wire>>

\* state := SENDING, then pfn_data_send_buffer(tx_buf, n).  The documented
\* synchronous callback transmits and calls whad_transport_data_sent before it
\* returns; an asynchronous one starts the transfer and returns.
Transmit(buf, n) ==
  IF config.cb = "sync"
  THEN /\ wire' = wire \o SubSeq(buf, 1, n)
       /\ state' = "IDLE" /\ UNCHANGED uart
  ELSE /\ uart' = [pos |-> 0, len |-> n]
       /\ state' = "SENDING" /\ UNCHANGED wire

SpStart ==
  /\ pc = "start"
  /\ Transmit(txbuf, bufSize)
  /\ pc' = "skip"
  /\ UNCHANGED <<config, tx, txbuf, ret, msgs, pushed, bufSize, seen>>

\* whad_ringbuf_skip: the size test, and the tail read for the addition.
SpSkip ==
  /\ pc = "skip"
  /\ IF CanSkip(tx, bufSize) THEN pc' = "tail" /\ seen' = tx.tail
                             ELSE pc' = ret /\ UNCHANGED seen
  /\ UNCHANGED <<config, port, ret, msgs, pushed, bufSize>>

\* Faulty variant: the whole queue is dropped, not the part that was sent.
SpTail_All ==
  /\ pc = "tail"
  /\ tx' = Skip(tx, RingUsed(tx))
  /\ pc' = ret
  /\ UNCHANGED <<config, state, txbuf, uart, wire, ret, msgs, pushed, bufSize, seen>>

SpTail ==
  /\ pc = "tail"
  /\ tx' = [tx EXCEPT !.tail = (seen + bufSize) % RingSize]
  /\ pc' = ret
  /\ UNCHANGED <<config, state, txbuf, uart, wire, ret, msgs, pushed, bufSize, seen>>

\* head and tail are plain members: the value read at the test may be kept, or
\* read again at any point before it is used, an interrupt having moved it.
Reread ==
  /\ \/ pc = "store" /\ seen # tx.head /\ seen' = tx.head
     \/ pc = "tail" /\ seen # tx.tail /\ seen' = tx.tail
  /\ UNCHANGED <<config, port, pc, ret, msgs, pushed, bufSize>>
-----------------------------------------------------------------------------
(* The UART and the interrupts.                                            *)

UartByte ==
  /\ uart.pos < uart.len
  /\ wire' = Append(wire, txbuf[uart.pos + 1])
  /\ uart' = [uart EXCEPT !.pos = @ + 1]
  /\ UNCHANGED <<config, tx, state, txbuf, pc, ret, msgs, pushed, bufSize, seen>>

\* Faulty variant: the state is not put back to idle.
DataSent_NoReset ==
  /\ uart.len > 0 /\ uart.pos = uart.len
  /\ uart' = UartOff
  /\ UNCHANGED <<config, tx, state, txbuf, wire, pc, ret, msgs, pushed, bufSize, seen>>

\* End-of-transfer interrupt: whad_transport_data_sent.
DataSent ==
  /\ uart.len > 0 /\ uart.pos = uart.len
  /\ uart' = UartOff
  /\ state' = IF state = "SENDING" THEN "IDLE" ELSE state
  /\ UNCHANGED <<config, tx, txbuf, wire, pc, ret, msgs, pushed, bufSize, seen>>

CanSendPending == /\ state = "IDLE" /\ config.cb # "none" /\ RingUsed(tx) > 0
                  /\ Len(wire) < MaxWire
Chunk == Smaller(RingUsed(tx), config.max_txbuf_size)

\* whad_transport_send_pending run to completion inside an interrupt.
IsrSendPending ==
  /\ IsrDrains /\ CanSendPending
  /\ txbuf' = Fill(txbuf, Copy(tx, Chunk))
  /\ Transmit(Copy(tx, Chunk), Chunk)
  /\ tx' = Skip(tx, Chunk)
  /\ UNCHANGED <<config, pc, ret, msgs, pushed, bufSize, seen>>

\* The push loops of send_message, for a frame there is room for.
IsrAccept(r, m, s) ==
  /\ tx' = PushAll(r, Frame(m, HeaderSize + s))
  /\ size' = [size EXCEPT ![m] = s]
  /\ accepted' = accepted \cup {m}
  /\ owed' = owed \o Frame(m, HeaderSize + s)

\* whad_transport_send_message run to completion in an interrupt or co-routine:
\* room at once, or the send_pending of wait_tx_space and a second look.
IsrSend(m, s) ==
  /\ m \notin accepted
  /\ s <= MaxEncoded
  /\ \/ /\ RingFree(tx) >= HeaderSize + s
        /\ IsrAccept(tx, m, s)
        /\ UNCHANGED <<state, txbuf, uart, wire>>
     \/ /\ RingFree(tx) < HeaderSize + s /\ CanSendPending
        /\ txbuf' = Fill(txbuf, Copy(tx, Chunk))
        /\ Transmit(Copy(tx, Chunk), Chunk)
        /\ IF RingFree(Skip(tx, Chunk)) >= HeaderSize + s
           THEN IsrAccept(Skip(tx, Chunk), m, s)
           ELSE tx' = Skip(tx, Chunk) /\ UNCHANGED <<size, accepted, owed>>
  /\ UNCHANGED <<config, pc, ret, pending, next, pushed, bufSize, seen>>
-----------------------------------------------------------------------------
MainLoop == \/ NoSend \/ SendCall \/ Wait \/ WaitDrain \/ Rewait
            \/ PushTest \/ PushStore \/ PushHead \/ Rollback \/ Flush
            \/ SpBusy \/ SpNothing \/ SpSize \/ SpCopy \/ SpStart
            \/ SpSkip \/ SpTail \/ Reread

Uart == UartByte \/ DataSent

Next == \/ \E s \in Sizes : Offer(s)
        \/ MainLoop
        \/ Uart
        \/ IsrSendPending
        \/ \E m \in IsrIds, s \in Sizes : IsrSend(m, s)

Spec == Init /\ [][Next]_vars

\* The processor keeps executing the loop, and the UART keeps shifting bytes
\* out and raising its interrupt.  Nothing is assumed of the application or of
\* the other interrupts.
FairSpec == Spec /\ WF_vars(MainLoop) /\ WF_vars(Uart)
-----------------------------------------------------------------------------
\* Every variable keeps its type: in particular head and tail stay inside
\* tx_buf, bufSize never exceeds what the ring can hold, and the UART never
\* reads past what was copied into the static tx_buf.
TypeOK ==
  /\ config \in [max_txbuf_size : MaxTxSizes, cb : Callbacks]
  /\ tx \in Ring
  /\ state \in {"IDLE", "SENDING"}
  /\ txbuf \in Seq(Byte) /\ Len(txbuf) <= RingCapacity
  /\ uart \in [pos : 0 .. RingCapacity, len : 0 .. Len(txbuf)]
  /\ uart.pos <= uart.len
  /\ wire \in Seq(Byte)
  /\ pc \in {"loop", "wait", "drain", "rewait", "push", "store", "head", "flush",
             "pending", "copy", "start", "skip", "tail"}
  /\ ret \in {"loop", "rewait", "flush"}
  /\ pending \in 0 .. LoopMsgs /\ next \in 1 .. LoopMsgs + 1
  /\ size \in [Ids -> Sizes \cup {0}]
  /\ pushed \in 0 .. RingCapacity /\ bufSize \in 0 .. RingCapacity
  /\ seen \in Index
  /\ accepted \subseteq Ids /\ owed \in Seq(Byte)

\* Inside the push loops of send_message, and inside their roll-back.
Pushing == pc \in {"push", "store", "head"}
RollingBack == pc \in {"skip", "tail"} /\ ret = "flush"

\* Inside send_message, from its size test to its return or its roll-back.
InSend == \/ pc \in {"wait", "drain", "rewait"} \/ Pushing
          \/ pc \in {"pending", "copy", "start", "skip", "tail"} /\ ret = "rewait"

\* What the locals of send_message and send_pending are worth at each point.
Locals ==
  /\ pc = "start" => bufSize <= Len(txbuf)
  /\ pc \in {"pending", "copy", "start"} => ret # "flush"
  /\ InSend => pending # 0 /\ size[pending] <= MaxEncoded
  /\ InSend /\ ~Pushing => pushed = 0
  /\ Pushing => pushed < FrameLen(pending)

\* The space wait_tx_space found is still there for every byte of the frame,
\* whatever interrupts drain meanwhile: as long as no second sender has had a
\* frame accepted, the "roll back what we have already pushed" path of
\* send_message is never needed.
ReservationHolds ==
  Pushing /\ accepted \cap IsrIds = {} => RingFree(tx) >= FrameLen(pending) - pushed

\* The bytes of the transfer in flight that the UART has not read yet, and the
\* queued bytes that are not already part of a transfer.
InFlight == IF pc = "start" /\ uart = UartOff
            THEN SubSeq(txbuf, 1, bufSize)
            ELSE SubSeq(txbuf, uart.pos + 1, uart.len)
Queued == IF pc \in {"start", "skip", "tail"} /\ ret # "flush"
          THEN SubSeq(Contents(tx), bufSize + 1, RingUsed(tx))
          ELSE Contents(tx)

\* At every point of send_message, send_pending, the UART transfer and its
\* interrupt: sent bytes, bytes in flight and queued bytes, read in this order,
\* are exactly the frames accepted so far, in order, and then the part of the
\* current frame already pushed.  Nothing is lost, sent twice or reordered.
Conservation ==
  (wire \o InFlight) \o Queued =
    owed \o (IF Pushing THEN Frame(pending, pushed) ELSE <<>>)

\* A call of send_message that did not succeed leaves none of its bytes behind:
\* "a failed send_message leaves the TX queue as it was before the call".
FailedSendLeavesNothing ==
  ~Pushing /\ ~RollingBack =>
    /\ \A i \in 1 .. RingUsed(tx) : Contents(tx)[i][1] \in accepted
    /\ \A i \in 1 .. Len(wire) : wire[i][1] \in accepted

\* While the UART is reading the static tx_buf, nothing writes the part it has
\* not read yet: send_pending refills the buffer only when it is free.
TxBufStable ==
  [][\A k \in uart.pos + 1 .. uart.len : txbuf'[k] = txbuf[k]]_vars

\* "Cannot send if we are already sending": no transfer is started before the
\* UART has finished the one in flight.
NoOverlap ==
  [][uart.len > 0 => \/ uart' = UartOff
                     \/ uart'.len = uart.len /\ uart'.pos >= uart.pos]_vars

\* A frame is pushed into a queue that interrupts drain at any point between the
\* test, the store and the head of each of its bytes, and still the queue only
\* loses bytes at its old end, as many as its tail moved over, and gains them at
\* its new end.  Two cases are out of its reach: a second sender's frame accepted
\* inside a push, whose head the push then overwrites, and the tail the loop's own
\* skip assigns after an interrupt has moved it.
QueueShifts ==
  [][accepted \cap IsrIds = {} /\ pc # "tail" =>
       LET k == (RingSize + tx'.tail - tx.tail) % RingSize
       IN  IsPrefix(SubSeq(Contents(tx), k + 1, RingUsed(tx)), Contents(tx'))]_vars

\* The frames send_message may be asked to send.
AllFrames == {Frame(m, HeaderSize + s) : m \in Ids, s \in Sizes}
Stream == INSTANCE FrameStream WITH Frames <- AllFrames

\* send_message, send_pending, the UART and data_sent together implement an
\* atomic queue of frames whose accepted bytes all go out in order.
StreamRefinement == Stream!StreamSpec
=============================================================================
