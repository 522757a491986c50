--------------------------- MODULE Dot15d4Classes ---------------------------
(***************************************************************************)
(* The classes of src/src/cpp/domains/dot15d4.                             *)
(***************************************************************************)
EXTENDS Classes

CoordMode     == Class("coordinator")
EndDeviceMode == Class("end_device")
JamMode       == Class("jam")
Jammed        == Class("jammed")
MitmMode      == Class("mitm")
EnergyDetect  == Class("ed")
EnergySample  == Class("ed_sample")
PduReceived   == Class("pdu")
\* unpack() calls the parser of the cooked packet, which has no FCS.
RawPduReceived == [Class("raw_pdu") EXCEPT !.forgets = {"fcs"}]
RouterMode == Class("router")
SendPdu    == Class("send")
SendRawPdu == Class("send_raw")
SetNodeAddress == Class("set_node_addr")
SniffMode  == Class("sniff")

Table ==
  [CoordMode |-> CoordMode, EndDeviceMode |-> EndDeviceMode, JamMode |-> JamMode,
   Jammed |-> Jammed, MitmMode |-> MitmMode, EnergyDetect |-> EnergyDetect,
   EnergySample |-> EnergySample, PduReceived |-> PduReceived,
   RawPduReceived |-> RawPduReceived, RouterMode |-> RouterMode, SendPdu |-> SendPdu,
   SendRawPdu |-> SendRawPdu, SetNodeAddress |-> SetNodeAddress, SniffMode |-> SniffMode]
=============================================================================
