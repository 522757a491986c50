---------------------------- MODULE Dot15d4Codec ----------------------------
(***************************************************************************)
(* The messages of the IEEE 802.15.4 domain, src/src/domains/dot15d4.c.    *)
(* Packet buffers have 255 bytes. The constructors of received packets     *)
(* take the length on trust; the two send commands check it.               *)
(***************************************************************************)
EXTENDS Codec

\* The test of the second argument is inverted: every address is refused.
SetNodeAddress ==
  Message("set_node_addr", [address_type |-> Plain, address |-> Refusing(Plain, Size)])
Sniff == Message("sniff", [channel |-> Plain])
Jam   == Message("jam", [channel |-> Plain])
EnergyDetect == Message("ed", [channel |-> Plain])

\* The channel is there when the length fails.
Packet == [channel |-> Plain, packet |-> Rejecting(Failing(Wide, {"over"}), {"over"})]
Send == Early(Message("send", Packet), [channel |-> Parts])
\* The member and the tag are those of send, which has no FCS. The parser reads
\* the member send_raw.
SendRaw == Early(Message("send", Also(Packet, [fcs |-> Plain])), [channel |-> Parts])

EndDevice   == Message("end_device", [channel |-> Plain])
Router      == Message("router", [channel |-> Plain])
Coordinator == Message("coordinator", [channel |-> Plain])
Mitm        == Message("mitm", [role |-> Plain])
Start  == Command("start")
Stop   == Command("stop")
\* A timestamp has 64 bits on the wire; so in the two below.
Jammed == Message("jammed", [timestamp |-> Narrowed(Plain)])
EnergyDetectSample == Message("ed_sample", [timestamp |-> Narrowed(Plain), sample |-> Plain])

Received ==
  [channel |-> Plain, packet |-> Bytes, rssi |-> Optional(Plain),
   timestamp |-> Narrowed(Optional(Plain)), fcs_validity |-> Optional(Plain)]

\* Faulty variant: the flag of a missing LQI is not cleared.
RawPduReceived_Kept == Message("raw_pdu", Also(Received, [fcs |-> Plain, lqi |-> Kept(Plain)]))

RawPduReceived == Message("raw_pdu", Also(Received, [fcs |-> Plain, lqi |-> Optional(Plain)]))
\* Parsed through the member raw_pdu, where the FCS comes before has_lqi.
PduReceived == Message("pdu", Also(Received, [lqi |-> [Optional(Plain) EXCEPT !.strays = TRUE]]))

Table == [set_node_addr |-> SetNodeAddress, sniff |-> Sniff, jam |-> Jam,
          ed |-> EnergyDetect, send |-> Send, send_raw |-> SendRaw,
          end_device |-> EndDevice, router |-> Router, coordinator |-> Coordinator,
          mitm |-> Mitm, start |-> Start, stop |-> Stop, jammed |-> Jammed,
          ed_sample |-> EnergyDetectSample, raw_pdu |-> RawPduReceived, pdu |-> PduReceived]
=============================================================================
