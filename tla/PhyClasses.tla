----------------------------- MODULE PhyClasses -----------------------------
(***************************************************************************)
(* The classes of src/src/cpp/domains/phy. SupportedFreqsResp can be made  *)
(* from a message but keeps nothing of it, not even a list to pack: it is  *)
(* only built from arguments here.                                         *)
(***************************************************************************)
EXTENDS Classes

JamMode == Class("jam")
Jammed  == Class("jammed")
MonitorMode == [Immediate("monitor") EXCEPT !.reads = "none"]
PacketReceived == Class("packet")
SchedulePacket  == Class("sched_send")
PacketScheduled == Class("sched_pkt_rsp")
ScheduledPacketSent == Class("sched_pkt_sent")
SendPacket    == Class("send")
Set4FskMod    == Class("mod_4fsk")
SetAskMod     == Class("mod_ask")
SetBpskMod    == Signal("mod_bpsk")
SetDatarate   == Class("datarate")
SetEndianness == Class("endianness")
SetFreq       == Class("set_freq")
SetFskMod     == Class("mod_fsk")
SetGfskMod    == Class("mod_gfsk")
SetLoraMod    == Class("mod_lora")
SetMskMod     == Class("mod_msk")
SetPacketSize == Class("packet_size")
SetQpskMod    == Class("mod_qpsk")
SetSyncWord   == Class("sync_word")
SetTxPower    == Class("tx_power")
SniffMode == Class("sniff")
Start == Signal("start")
Stop  == Signal("stop")
SupportedFreqsResp == Outgoing("supported_freq")

Table ==
  [JamMode |-> JamMode, Jammed |-> Jammed, MonitorMode |-> MonitorMode,
   PacketReceived |-> PacketReceived, SchedulePacket |-> SchedulePacket,
   PacketScheduled |-> PacketScheduled, ScheduledPacketSent |-> ScheduledPacketSent,
   SendPacket |-> SendPacket, Set4FskMod |-> Set4FskMod, SetAskMod |-> SetAskMod,
   SetBpskMod |-> SetBpskMod, SetDatarate |-> SetDatarate, SetEndianness |-> SetEndianness,
   SetFreq |-> SetFreq, SetFskMod |-> SetFskMod, SetGfskMod |-> SetGfskMod,
   SetLoraMod |-> SetLoraMod, SetMskMod |-> SetMskMod, SetPacketSize |-> SetPacketSize,
   SetQpskMod |-> SetQpskMod, SetSyncWord |-> SetSyncWord, SetTxPower |-> SetTxPower,
   SniffMode |-> SniffMode, Start |-> Start, Stop |-> Stop,
   SupportedFreqsResp |-> SupportedFreqsResp]
=============================================================================
