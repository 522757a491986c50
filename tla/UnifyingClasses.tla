-------------------------- MODULE UnifyingClasses ---------------------------
(***************************************************************************)
(* The classes of src/src/cpp/domains/unifying.                            *)
(***************************************************************************)
EXTENDS Classes

DongleMode == Class("dongle")
JamMode    == Class("jam")
\* The functions of Jam: the timestamp goes out as the channel of a jam command;
\* parsing finds it, at the same place of the union.
Jammed == [Class("jammed") EXCEPT !.packer = "jam", !.again = {"jam"},
                                  !.onto = [channel |-> "timestamp"]]
KeyboardMode == Class("keyboard")
MouseMode    == Class("mouse")
\* The flag of the address is only assigned by the other constructor.
PduReceived    == [Class("pdu") EXCEPT !.forgets = {"address"}]
RawPduReceived == [Class("raw_pdu") EXCEPT !.forgets = {"address"}]
SendPdu    == Class("send")

\* Faulty variant: unpack() calls getRaw().
SendRawPdu_Repacked == [Class("send_raw") EXCEPT !.reads = "packs"]

SendRawPdu == Class("send_raw")
SetNodeAddress == Class("set_node_addr")
SniffMode == Class("sniff")

Table ==
  [DongleMode |-> DongleMode, JamMode |-> JamMode, Jammed |-> Jammed,
   KeyboardMode |-> KeyboardMode, MouseMode |-> MouseMode, PduReceived |-> PduReceived,
   RawPduReceived |-> RawPduReceived, SendPdu |-> SendPdu, SendRawPdu |-> SendRawPdu,
   SetNodeAddress |-> SetNodeAddress, SniffMode |-> SniffMode]
=============================================================================
