------------------------------ MODULE PhyCodec ------------------------------
(***************************************************************************)
(* The messages of the PHY domain, src/src/domains/phy.c. A timestamp is   *)
(* seconds * 1000000 + microseconds, computed in 32 bits: from 4295 s on   *)
(* ("full") it wraps. On the wire it has 64 bits; the parsers take 32 bits *)
(* of the seconds, and 8 of an identifier.                                 *)
(***************************************************************************)
EXTENDS Codec

Timestamp == Narrowed([Plain EXCEPT !.lens = {"some", "full"}, !.wraps = {"full"}])

SetAsk   == Message("mod_ask", [ook |-> Plain])
SetFsk   == Message("mod_fsk", [deviation |-> Plain])
Set4Fsk  == Message("mod_4fsk", [deviation |-> Plain])
SetGfsk  == Message("mod_gfsk", [deviation |-> Plain])
SetBpsk  == Command("mod_bpsk")
SetQpsk  == Message("mod_qpsk", [offset_qpsk |-> Plain])
SetMsk   == Message("mod_msk", [deviation |-> Plain])
SetLora  ==
  Message("mod_lora", [bandwidth |-> Plain, spreading_factor |-> Plain, coding_rate |-> Plain,
                       preamble_length |-> Plain, enable_crc |-> Plain,
                       explicit_mode |-> Plain, invert_iq |-> Plain])
SetFreq       == Message("set_freq", [frequency |-> Plain])
SetDatarate   == Message("datarate", [rate |-> Plain])
SetEndianness == Message("endianness", [endianness |-> Plain])
SetTxPower    == Message("tx_power", [tx_power |-> Plain])
SetPacketSize == Message("packet_size", [packet_size |-> Plain])
\* At most 10 bytes.
SetSyncWord == Message("sync_word", [sync_word |-> Refusing(Wide, {"over"})])
SniffMode   == Message("sniff", [iq_stream |-> Plain])
JamMode     == Message("jam", [mode |-> Plain])
MonitorMode == Command("monitor")
Start == Command("start")
Stop  == Command("stop")

\* At most 255 bytes.
Packet == Refusing(Wide, {"over"})
Send == Message("send", [packet |-> Packet])
\* Not implemented: the tag is written and the error returned.
SendRawIq ==
  Unparsed(Message("send_raw", [iq_stream |-> Failing(Packet, Size \ {"over"})]))
\* A heap copy of the ranges; the walk ends at the first one with a zero bound.
SupportedFrequencies ==
  Unparsed(Message("supported_freq", [frequency_ranges |-> List]))
SchedPacket == Message("sched_send", [packet |-> Packet, timestamp |-> Timestamp])
Jammed == Message("jammed", [timestamp |-> Timestamp])
SchedPacketSent == Message("sched_pkt_sent", [id |-> Plain])
\* The payload is cut to 255 bytes. The parser reads neither the
\* synchronisation word nor the parameters of the modulation.
PacketReceived ==
  Message("packet",
    [frequency |-> Plain, timestamp |-> Optional(Timestamp), rssi |-> Plain,
     packet |-> Cut(Wide), syncword |-> Unread(Bytes), deviation |-> Unread(Plain),
     datarate |-> Unread(Plain), endian |-> Unread(Plain), modulation |-> Unread(Plain)])
PacketScheduled == Message("sched_pkt_rsp", [id |-> Narrowed(Plain), full |-> Optional(Plain)])

Table ==
  [mod_ask |-> SetAsk, mod_fsk |-> SetFsk, mod_4fsk |-> Set4Fsk, mod_gfsk |-> SetGfsk,
   mod_bpsk |-> SetBpsk, mod_qpsk |-> SetQpsk, mod_msk |-> SetMsk, mod_lora |-> SetLora,
   set_freq |-> SetFreq, datarate |-> SetDatarate, endianness |-> SetEndianness,
   tx_power |-> SetTxPower, packet_size |-> SetPacketSize, sync_word |-> SetSyncWord,
   sniff |-> SniffMode, jam |-> JamMode, monitor |-> MonitorMode, start |-> Start,
   stop |-> Stop, send |-> Send, send_raw |-> SendRawIq,
   supported_freq |-> SupportedFrequencies, sched_send |-> SchedPacket, jammed |-> Jammed,
   sched_pkt_sent |-> SchedPacketSent, packet |-> PacketReceived,
   sched_pkt_rsp |-> PacketScheduled]
=============================================================================
