----------------------------- MODULE EsbClasses -----------------------------
(***************************************************************************)
(* The classes of src/src/cpp/domains/esb.                                 *)
(***************************************************************************)
EXTENDS Classes

JamMode == Class("jam")
Jammed  == Class("jammed")

\* Faulty variant: unpack() does not assign the flag of the timestamp.
RawPacketReceived_Forgetful ==
  [Class("raw_pdu") EXCEPT !.loose = TRUE, !.forgets = {"timestamp"}]

\* The flags of the optional members have no initialiser.
RawPacketReceived == [Class("raw_pdu") EXCEPT !.loose = TRUE]
\* The base class has parsed by the time getRaw() packs.
PacketReceived == [Class("pdu") EXCEPT !.loose = TRUE, !.reads = "twice"]
PrxMode == Class("prx")
PtxMode == Class("ptx")
\* unpack() calls getRaw(), which packs members nobody has assigned over the
\* message it is about to parse.
SendPacket     == [Class("send") EXCEPT !.reads = "packs"]
SendPacketRaw  == Class("send_raw")
SetNodeAddress == Class("set_node_addr")
SniffMode == Class("sniff")
Start == Signal("start")
Stop  == Signal("stop")

Table ==
  [JamMode |-> JamMode, Jammed |-> Jammed, RawPacketReceived |-> RawPacketReceived,
   PacketReceived |-> PacketReceived, PrxMode |-> PrxMode, PtxMode |-> PtxMode,
   SendPacket |-> SendPacket, SendPacketRaw |-> SendPacketRaw,
   SetNodeAddress |-> SetNodeAddress, SniffMode |-> SniffMode, Start |-> Start, Stop |-> Stop]
=============================================================================
