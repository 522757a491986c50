------------------------------ MODULE WhadSend ------------------------------
(***************************************************************************)
(* The message layer above the transport: whad_send_message of             *)
(* src/src/whad.c, and the one message whose payload is a heap block, the  *)
(* list of supported frequencies of src/src/domains/phy.c.  The firmware   *)
(* builds a Message, whad_send_message encodes it, frees the list and only *)
(* then asks the transport for room, so what the caller may do next        *)
(* depends on the result it gets.                                          *)
(*                                                                         *)
(* A frequency range is a pair <<start, end>>; the transport is a queue of *)
(* QueueCap encoded messages that the UART drains.                         *)
(***************************************************************************)
EXTENDS Naturals, Sequences

CONSTANTS
  Lists,        \* lists of frequency ranges the firmware may announce
  BufRanges,    \* ranges whose encoding fits g_tx_message_buf
  QueueCap,     \* encoded messages the TX queue has room for
  Blocks,       \* heap blocks malloc may return
  Rebuilds      \* whether the firmware builds a refused message anew (TRUE)
                \* or hands the same Message in again (FALSE)

ASSUME SendAssumption ==
  /\ Lists \subseteq Seq(Nat \X Nat)
  /\ BufRanges \in Nat /\ QueueCap \in Nat \ {0}
  /\ Rebuilds \in BOOLEAN

VARIABLES
  live,         \* blocks allocated and not freed
  data,         \* what was last written to each block
  msg,          \* the Message: which_msg and frequency_ranges.arg
  want,         \* the list the firmware still has to announce, if any
  queue,        \* encoded messages the transport holds
  announced,    \* the last list whad_send_message reported as queued
  fault         \* the first misuse of the heap

vars == <<live, data, msg, want, queue, announced, fault>>

NoList == <<>>
Unset == [which |-> "unset"]
Freqs(b) == [which |-> "freqs", arg |-> b]
Sentinel == <<0, 0>>

Init ==
  /\ live = {} /\ data = [b \in Blocks |-> NoList]
  /\ msg = Unset /\ want = NoList
  /\ queue = <<>> /\ announced = NoList
  /\ fault = "none"
-----------------------------------------------------------------------------
\* Faulty variant: the walk stops one range early.
Encoded_Short(l) == SubSeq(l, 1, Len(l) - 2)

\* The loop of the encoder goes on as long as neither bound is zero.
Stops(r) == r[1] = 0 \/ r[2] = 0

\* whad_phy_frequency_range_encode_cb walks the block up to the first range
\* with a zero bound.
Ends(l) == {i \in DOMAIN l : Stops(l[i])}
Encoded(l) ==
  SubSeq(l, 1, (CHOOSE i \in Ends(l) : \A j \in Ends(l) : i <= j) - 1)

\* Faulty variant: a list that exactly fills the buffer is refused.
Fits_Strict(l) == Len(Encoded(l)) < BufRanges
\* pb_encode succeeds.
Fits(l) == Len(Encoded(l)) <= BufRanges

\* Faulty variant: the PHY domain is not dispatched to.
FreeResources_None(m) == UNCHANGED <<live, fault>>

\* whad_free_message_resources: whad_phy_message_free for a list of supported
\* frequencies, nothing for another message.  The arg is not set to NULL.
FreeResources(m) ==
  IF m.which # "freqs" THEN UNCHANGED <<live, fault>>
  ELSE IF m.arg \in live
       THEN live' = live \ {m.arg} /\ UNCHANGED fault
       ELSE fault' = "double free" /\ UNCHANGED live
-----------------------------------------------------------------------------
\* The firmware decides what to announce.
Decide(l) ==
  /\ fault = "none" /\ want = NoList
  /\ want' = l
  /\ UNCHANGED <<live, data, msg, queue, announced, fault>>

\* whad_phy_supported_frequencies: malloc, the ranges, the {0,0} sentinel.  A
\* failing malloc leaves the Message alone and is a stuttering step.
SupportedFrequencies ==
  /\ fault = "none" /\ want # NoList /\ msg = Unset
  /\ \E b \in Blocks \ live :
       /\ live' = live \cup {b}
       /\ data' = [data EXCEPT ![b] = Append(want, Sentinel)]
       /\ msg' = Freqs(b)
  /\ UNCHANGED <<want, queue, announced, fault>>

CanSend == fault = "none" /\ msg # Unset

\* A message that owns no heap block, a command result for instance.
SendOther ==
  /\ fault = "none" /\ want = NoList /\ msg = Unset
  /\ Len(queue) < QueueCap
  /\ FreeResources([which |-> "other"])
  /\ queue' = Append(queue, NoList) /\ announced' = NoList
  /\ UNCHANGED <<data, msg, want>>

\* Faulty variant: the list is freed on every path, and then by the caller.
SendFails_Frees ==
  /\ CanSend /\ msg.arg \in live /\ ~Fits(data[msg.arg])
  /\ live' = live \ {msg.arg} /\ fault' = "double free"
  /\ UNCHANGED <<data, msg, want, queue, announced>>

\* pb_encode reads a freed list, or fails: WHAD_ERROR, and the list still
\* belongs to the caller, who releases it and gives up, or keeps the Message.
SendFails ==
  /\ CanSend /\ (msg.arg \in live => ~Fits(data[msg.arg]))
  /\ IF msg.arg \notin live
     THEN fault' = "use after free" /\ UNCHANGED <<live, msg, want>>
     ELSE IF Rebuilds
          THEN FreeResources(msg) /\ msg' = Unset /\ want' = NoList
          ELSE UNCHANGED <<live, fault, msg, want>>
  /\ UNCHANGED <<data, queue, announced>>

\* Faulty variant: the answer of the transport is not looked at.
SendSuccess_Always ==
  /\ CanSend /\ msg.arg \in live /\ Fits(data[msg.arg])
  /\ FreeResources(msg)
  /\ queue' = Append(queue, Encoded(data[msg.arg]))
  /\ announced' = want /\ want' = NoList /\ msg' = Unset
  /\ UNCHANGED data

\* Encoded, freed, queued: WHAD_SUCCESS.
SendSuccess ==
  /\ CanSend /\ msg.arg \in live /\ Fits(data[msg.arg])
  /\ Len(queue) < QueueCap
  /\ FreeResources(msg)
  /\ queue' = Append(queue, Encoded(data[msg.arg]))
  /\ announced' = want /\ want' = NoList /\ msg' = Unset
  /\ UNCHANGED data

\* Encoded, freed, refused by the transport: WHAD_RINGBUF_FULL, and the
\* Message now points to a block that is gone.
SendFull ==
  /\ CanSend /\ msg.arg \in live /\ Fits(data[msg.arg])
  /\ Len(queue) = QueueCap
  /\ FreeResources(msg)
  /\ msg' = IF Rebuilds THEN Unset ELSE msg
  /\ UNCHANGED <<data, want, queue, announced>>

Send == SendFails \/ SendSuccess \/ SendFull

\* The transport sends its oldest message.
Drain ==
  /\ fault = "none" /\ queue # <<>>
  /\ queue' = Tail(queue)
  /\ UNCHANGED <<live, data, msg, want, announced, fault>>

Next == (\E l \in Lists : Decide(l)) \/ SupportedFrequencies \/ Send
        \/ SendOther \/ Drain

Spec == Init /\ [][Next]_vars

\* The main loop goes on building and sending what it has decided to announce,
\* malloc succeeds when a block is free, and the transport keeps draining.
FairSpec ==
  Spec /\ WF_vars(SupportedFrequencies) /\ WF_vars(Send) /\ WF_vars(Drain)
-----------------------------------------------------------------------------
\* Every variable keeps its type.
TypeOK ==
  /\ live \subseteq Blocks
  /\ data \in [Blocks -> Seq(Nat \X Nat)]
  /\ msg \in {Unset} \cup {Freqs(b) : b \in Blocks}
  /\ want \in Lists \cup {NoList}
  /\ queue \in Seq(Seq(Nat \X Nat)) /\ Len(queue) <= QueueCap
  /\ announced \in Lists \cup {NoList}
  /\ fault \in {"none", "use after free", "double free"}

\* No call of whad_send_message reads a freed list and none is freed twice.
NoFault == fault = "none"

\* Whatever the result of the calls so far, the only list on the heap is the
\* one of the Message the caller still holds: success and WHAD_RINGBUF_FULL
\* have freed theirs, WHAD_ERROR leaves it to the caller.
OwnershipFollowsResult ==
  live = IF msg = Unset THEN {} ELSE {msg.arg}

\* The host is told the list l, or the part of it before its first range with a zero
\* bound, which the encoder takes for the {0,0} it looks for.
Tells(q, l) ==
  \E n \in 0 .. Len(l) : /\ q = SubSeq(l, 1, n)
                         /\ \A i \in 1 .. n : ~Stops(l[i])
                         /\ n < Len(l) => Stops(l[n + 1])

\* However often the call was refused and the Message built again, each message
\* queued tells the list whad_send_message then reports as sent, whole when none of
\* its ranges has a zero bound: no range is missing before that, none is added, and
\* none comes from another list or from a block that was freed.
AnnouncedToZero ==
  [][Len(queue') > Len(queue) => Tells(queue'[Len(queue')], announced')]_vars

\* A list that fits one message is eventually announced, however often the
\* transport refuses it.
EventuallyAnnounced ==
  \A l \in Lists : Len(l) <= BufRanges => (want = l ~> announced = l)
=============================================================================
