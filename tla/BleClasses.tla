----------------------------- MODULE BleClasses -----------------------------
(***************************************************************************)
(* The classes of src/src/cpp/domains/ble. Triggered is a second class for *)
(* the message of SequenceTriggered.                                       *)
(***************************************************************************)
EXTENDS Classes

\* Data that is too long is dropped.
AdvMode == [Class("adv_mode") EXCEPT !.long = "emptied"]
CentralMode == Signal("central_mode")
\* The channel map is a buffer, never NULL.
ConnectTo == [Class("connect") EXCEPT !.given = {"channel_map"}]
\* Reads the fields of the Message.
Connected == Class("connected")
DeleteSequence == Class("delete_seq")
Disconnect   == Class("disconnect")
Disconnected == Class("disconnected")
HijackBoth   == Class("hijack_both")
HijackMaster == Class("hijack_master")
HijackSlave  == Class("hijack_slave")
\* The constructor from a message does not call unpack(); so in JamActiveConn.
Hijacked == [Class("hijacked") EXCEPT !.reads = "none"]
Injected == Class("injected")
JamActiveConn == [Class("jam_conn") EXCEPT !.reads = "none"]
\* One class for two messages, told apart by a flag that unpack() leaves
\* uninitialised.
JamAdv == [Class("jam_adv") EXCEPT !.again = {"jam_adv", "jam_adv_chan"}]
JamAdvChannel == [Class("jam_adv_chan") EXCEPT !.again = {"jam_adv", "jam_adv_chan"}]

\* Faulty variant: a pattern that is too long is dropped.
ReactiveJam_Emptied == [Class("reactive_jam") EXCEPT !.long = "emptied"]

\* A pattern that is too long is zeroed, its length stays.
ReactiveJam  == [Class("reactive_jam") EXCEPT !.long = "zeroed"]

\* Faulty variant: pack() is not overridden.
LinkLayerPdu_Inherited == [Class("pdu") EXCEPT !.packs = FALSE]

LinkLayerPdu == Class("pdu")
ManualTrigger == Class("trigger")
\* Data that is too long is zeroed, its length stays.
PeripheralMode == [Class("periph_mode") EXCEPT !.long = "zeroed"]
\* An empty list of packets is a NULL pointer, which the constructor refuses.
PrepareSequenceManual  == [Class("prepare_manual") EXCEPT !.nulls = {"packets"}]
PrepareSequenceConnEvt == [Class("prepare_connevt") EXCEPT !.nulls = {"packets"}]
RawPdu == [Class("raw_pdu") EXCEPT !.reads = "none", !.given = {"rssi"}]
ScanMode == Class("scan_mode")
AdvPdu   == Class("adv_pdu")
SendPdu    == Class("send_pdu")
SendRawPdu == Class("send_raw_pdu")
SequenceTriggered == Class("triggered")
\* The constructor fills the Message, pack() fills it again from members nobody
\* has assigned; so in SniffConnReq.
SetAdvData == [Class("set_adv_data") EXCEPT !.direct = TRUE]
SetBdAddress == Immediate("set_bd_addr")
\* unpack() calls getRaw(), which packs first.
SetEncryption == [Class("encryption") EXCEPT !.reads = "packs"]
SniffAccessAddress == Class("sniff_aa")
AccessAddressDiscovered == Class("aa_disc")
SniffActiveConn == Class("sniff_conn")
SniffAdv == Class("sniff_adv")
SniffConnReq == [Class("sniff_connreq") EXCEPT !.direct = TRUE]
Start == Signal("start")
Stop  == Signal("stop")
Synchronized   == Class("synchronized")
Desynchronized == Class("desynchronized")

Table ==
  [AdvMode |-> AdvMode, CentralMode |-> CentralMode, ConnectTo |-> ConnectTo,
   Connected |-> Connected, DeleteSequence |-> DeleteSequence, Disconnect |-> Disconnect,
   Disconnected |-> Disconnected, HijackBoth |-> HijackBoth, HijackMaster |-> HijackMaster,
   HijackSlave |-> HijackSlave, Hijacked |-> Hijacked, Injected |-> Injected,
   JamActiveConn |-> JamActiveConn, JamAdv |-> JamAdv, JamAdvChannel |-> JamAdvChannel,
   ReactiveJam |-> ReactiveJam, LinkLayerPdu |-> LinkLayerPdu, ManualTrigger |-> ManualTrigger,
   PeripheralMode |-> PeripheralMode, PrepareSequenceManual |-> PrepareSequenceManual,
   PrepareSequenceConnEvt |-> PrepareSequenceConnEvt, RawPdu |-> RawPdu, ScanMode |-> ScanMode,
   AdvPdu |-> AdvPdu, SendPdu |-> SendPdu, SendRawPdu |-> SendRawPdu,
   SequenceTriggered |-> SequenceTriggered, SetAdvData |-> SetAdvData,
   SetBdAddress |-> SetBdAddress, SetEncryption |-> SetEncryption,
   SniffAccessAddress |-> SniffAccessAddress,
   AccessAddressDiscovered |-> AccessAddressDiscovered, SniffActiveConn |-> SniffActiveConn,
   SniffAdv |-> SniffAdv, SniffConnReq |-> SniffConnReq, Start |-> Start, Stop |-> Stop,
   Synchronized |-> Synchronized, Desynchronized |-> Desynchronized]
=============================================================================
