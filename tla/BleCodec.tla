------------------------------ MODULE BleCodec ------------------------------
(***************************************************************************)
(* The messages of the Bluetooth Low Energy domain, src/src/domains/ble.c. *)
(* No parser of this domain tests the tag. Advertising data has at most 31 *)
(* bytes. Lengths of PDUs are taken on trust.                              *)
(***************************************************************************)
EXTENDS Codec

\* use_timestamp governs both timestamps, BLE_RSSI_NONE stands for no RSSI; only
\* the flag of the RSSI is cleared. There is no parser.
RawPdu ==
  Unparsed(Message("raw_pdu",
    [channel |-> Plain, access_address |-> Plain, conn_handle |-> Plain, direction |-> Plain,
     pdu |-> Bytes, timestamp |-> Kept(Plain), relative_timestamp |-> Kept(Plain),
     crc |-> Plain, crc_validity |-> Plain, rssi |-> Optional(Plain),
     processed |-> Plain, decrypted |-> Plain]))
\* The parser leaves the direction as its caller had it.
Pdu == Message("pdu", [processed |-> Plain, decrypted |-> Plain, direction |-> Unread(Plain),
                       conn_handle |-> Plain, pdu |-> Bytes])
NotifyConnected ==
  Unparsed(Message("connected",
    [conn_handle |-> Plain, advertiser |-> Plain, adv_addr_type |-> Plain,
     initiator |-> Plain, init_addr_type |-> Plain]))
NotifyDisconnected == Message("disconnected", [conn_handle |-> Plain, reason |-> Plain])
SetBdAddress == Message("set_bd_addr", [addr_type |-> Plain, bd_address |-> Plain])

SniffAdv == Message("sniff_adv", [use_ext_adv |-> Plain, channel |-> Plain, bd_address |-> Plain])
JamAdv == Command("jam_adv")
JamAdvChannel == Message("jam_adv_chan", [channel |-> Plain])
SniffConnReq ==
  Message("sniff_connreq", [show_empty_packets |-> Plain, show_adv |-> Plain,
                            channel |-> Plain, bd_address |-> Plain])
SniffAccessAddress == Message("sniff_aa", [monitored_channels |-> Plain])
SniffActiveConn ==
  Message("sniff_conn", [access_address |-> Plain, crc_init |-> Plain, hop_interval |-> Plain,
                         hop_increment |-> Plain, channelmap |-> Plain, channels |-> Plain])
JamActiveConn == Message("jam_conn", [access_address |-> Plain])
ScanMode == Message("scan_mode", [active_scan |-> Plain])

\* Longer data is cut to 31 bytes and empty data leaves the size as it was; the
\* parser copies data of 1 to 30 bytes and clears the rest.
AdvData == [Cut(Writing(Reading(Wide, {"full"}, {"has", "len"}), {"empty"}, {}))
              EXCEPT !.blank = Zeroed]
AdvMode == Message("adv_mode", [adv_data |-> AdvData, scanrsp_data |-> AdvData])
\* Written through the member adv_mode, which has the same layout.
PeripheralMode == Message("periph_mode", [adv_data |-> AdvData, scanrsp_data |-> AdvData])
\* Not implemented: the tag is written and the error returned, always.
SetAdvData ==
  LET Data == Rejecting(Failing(Wide, Size), Size)
  IN  Message("set_adv_data", [adv_data |-> Data, scanrsp_data |-> Data])

CentralMode == Command("central_mode")
\* A zero, or a NULL channel map, stands for an argument that is not given.
ConnectTo ==
  Message("connect", [addr_type |-> Plain, bd_address |-> Plain,
                      access_address |-> Kept(Plain), channel_map |-> Kept(Plain),
                      hop_interval |-> Kept(Plain), hop_increment |-> Kept(Plain),
                      crc_init |-> Kept(Plain)])
\* The size of the PDU is never assigned.
Unsized == Writing(Bytes, Size, {"has", "val"})
SendRawPdu ==
  Message("send_raw_pdu", [direction |-> Plain, conn_handle |-> Plain, access_address |-> Plain,
                           pdu |-> Unsized, crc |-> Plain, encrypt |-> Plain])
\* The PDU is written through the member send_raw_pdu, four bytes further: over
\* encrypt, assigned before it, when it has 297 bytes or more ("full").
SendPdu ==
  Message("send_pdu", [direction |-> Plain, conn_handle |-> Plain,
                       pdu |-> [Unsized EXCEPT !.spoils = Size],
                       encrypt |-> [Plain EXCEPT !.under = {"pdu"}]])
Disconnect == Message("disconnect", [conn_handle |-> Plain])
Start == Command("start")
Stop  == Command("stop")
HijackMaster == Message("hijack_master", [access_address |-> Plain])
HijackSlave  == Message("hijack_slave", [access_address |-> Plain])
HijackBoth   == Message("hijack_both", [access_address |-> Plain])
SetEncryption ==
  Message("encryption", [conn_handle |-> Plain, enabled |-> Plain, ll_key |-> Plain,
                         ll_iv |-> Plain, key |-> Plain, rand |-> Plain, ediv |-> Plain])
\* At most 20 bytes, checked once the size is written.
ReactiveJam ==
  Early(Message("reactive_jam",
          [channel |-> Plain, position |-> Plain,
           pattern |-> Rejecting(Failing(Wide, {"over"}), {"over"})]),
        [channel |-> Parts, position |-> Parts, pattern |-> {"has", "len"}])

\* Prepared sequences. The three triggers share the tag prepare and are told
\* apart by the trigger, which stands in the tag here. A list that is "over" has
\* an empty packet, which fails with the number of packets already written; the
\* encoding takes it. The parsers read the packets but never their number.
Sequence == [Reading(Failing(Wide, {"over"}), Size, {"has", "val"})
               EXCEPT !.lens = {"empty", "some", "over"}, !.bounded = FALSE, !.blank = Zeroed]
SequenceFields == [id |-> Plain, direction |-> Plain, packets |-> Sequence]
BeforePackets  == [id |-> Parts, direction |-> Parts, conn_evt |-> Parts, packets |-> {"has", "len"}]

\* The test of the packets is inverted: only a call without any goes on. The
\* pattern is refused when it is empty or has 255 bytes; its offset is dropped.
PrepareOnRecv ==
  Unparsed(Early(Message("prepare_recv",
    [id |-> Plain, direction |-> Plain,
     packets |-> [Refusing(Sequence, Size \ {"empty"}) EXCEPT !.fails = {}],
     pattern |-> Failing(Wide, {"empty", "full", "over"}), offset |-> Unwritten(Plain)]),
    [id |-> Parts]))
PrepareManual == Early(Message("prepare_manual", SequenceFields), BeforePackets)
PrepareConnEvt ==
  Early(Message("prepare_connevt", Also(SequenceFields, [conn_evt |-> Plain])), BeforePackets)
Trigger   == Message("trigger", [id |-> Plain])
DeleteSeq == Unparsed(Message("delete_seq", [id |-> Plain]))
Triggered == Message("triggered", [id |-> Plain])

\* The flags are only ever set. The timestamp has 64 bits on the wire.
AccessAddressDiscovered ==
  Message("aa_disc", [access_address |-> Plain, timestamp |-> Narrowed(Kept(Plain)),
                      rssi |-> Kept(Plain)])
\* Data of 0, of 31 and of more bytes is left out, and the call succeeds.
AdvPdu ==
  Message("adv_pdu", [addr_type |-> Plain, adv_type |-> Plain, rssi |-> Plain,
                      bd_address |-> Plain,
                      adv_data |-> Writing(Wide, {"empty", "full", "over"}, {})])
Synchronized ==
  Message("synchronized", [access_address |-> Plain, crc_init |-> Plain, hop_interval |-> Plain,
                           hop_increment |-> Plain, channel_map |-> Plain])
Desynchronized == Message("desynchronized", [access_address |-> Plain])
Hijacked == Message("hijacked", [access_address |-> Plain, success |-> Plain])
Injected == Message("injected", [access_address |-> Plain, attempts |-> Plain, success |-> Plain])

Table ==
  [raw_pdu |-> RawPdu, pdu |-> Pdu, connected |-> NotifyConnected,
   disconnected |-> NotifyDisconnected, set_bd_addr |-> SetBdAddress, sniff_adv |-> SniffAdv,
   jam_adv |-> JamAdv, jam_adv_chan |-> JamAdvChannel, sniff_connreq |-> SniffConnReq,
   sniff_aa |-> SniffAccessAddress, sniff_conn |-> SniffActiveConn, jam_conn |-> JamActiveConn,
   scan_mode |-> ScanMode, adv_mode |-> AdvMode, periph_mode |-> PeripheralMode,
   set_adv_data |-> SetAdvData, central_mode |-> CentralMode, connect |-> ConnectTo,
   send_raw_pdu |-> SendRawPdu, send_pdu |-> SendPdu, disconnect |-> Disconnect,
   start |-> Start, stop |-> Stop, hijack_master |-> HijackMaster, hijack_slave |-> HijackSlave,
   hijack_both |-> HijackBoth, encryption |-> SetEncryption, reactive_jam |-> ReactiveJam,
   prepare_recv |-> PrepareOnRecv, prepare_manual |-> PrepareManual,
   prepare_connevt |-> PrepareConnEvt, trigger |-> Trigger, delete_seq |-> DeleteSeq,
   triggered |-> Triggered, aa_disc |-> AccessAddressDiscovered, adv_pdu |-> AdvPdu,
   synchronized |-> Synchronized, desynchronized |-> Desynchronized, hijacked |-> Hijacked,
   injected |-> Injected]
=============================================================================
