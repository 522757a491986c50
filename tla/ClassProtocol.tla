--------------------------- MODULE ClassProtocol ---------------------------
(***************************************************************************)
(* The classes of every domain, and those known not to do what the others  *)
(* do.                                                                     *)
(***************************************************************************)
EXTENDS Protocol, Classes

CoreC     == INSTANCE CoreClasses
BleC      == INSTANCE BleClasses
PhyC      == INSTANCE PhyClasses
Dot15d4C  == INSTANCE Dot15d4Classes
EsbC      == INSTANCE EsbClasses
UnifyingC == INSTANCE UnifyingClasses
BoardC    == INSTANCE BoardClasses

ClassTables ==
  [core |-> CoreC!Table, ble |-> BleC!Table, phy |-> PhyC!Table, dot15d4 |-> Dot15d4C!Table,
   esb |-> EsbC!Table, unifying |-> UnifyingC!Table, board |-> BoardC!Table]

--------------------------------------------------------------------------
(* Deviations, as <<domain, class>> or <<domain, <<class, member>>>>: the   *)
(* exceptions the properties of ObjectExchange make.                       *)

\* Classes that send something else: unassigned members, ble_sniff_connreq.cpp:42;
\* a jam command, uni_jammed.cpp:34.
Strange == {<<"ble", "SniffConnReq">>, <<"unifying", "Jammed">>}
\* Flags without an initialiser, esb_pktrecv.cpp:31 and 380.
Garbled ==
  Of("esb", {"RawPacketReceived", "PacketReceived"}
            \X {"rssi", "timestamp", "crc_validity", "address"})

\* Advertising data that is too long is not sent at all, although the constructor
\* would cut it: ble_adv.cpp:36 and 48, ble_peripheral.cpp:37 and 48.
Shortened == Of("ble", {"AdvMode", "PeripheralMode"} \X {"adv_data", "scanrsp_data"})

\* Classes over a constructor that writes the tag before it fails: ble.c:887, 1960
\* and 2042.
Unasked == Of("ble", {"SetAdvData", "PrepareSequenceManual", "PrepareSequenceConnEvt"})

\* Classes that pack before they parse, ble_set_encryption.cpp:65 and
\* esb_sendpkt.cpp:60, or do not parse, ble_hijacked.cpp:12, ble_jam_act_conn.cpp:9
\* and ble_rawpdu.cpp:7.
Blind == Of("ble", {"SetEncryption", "Hijacked", "JamActiveConn", "RawPdu"})
         \cup Of("esb", {"SendPacket"})
\* Members unpack() does not assign: dot15d4_rawpdu.cpp:110; or whose flag it does
\* not set, uni_pdu.cpp:137 and uni_rawpdu.cpp:137.
Forgotten == Of("dot15d4", {<<"RawPduReceived", "fcs">>})
             \cup Of("unifying", {"PduReceived", "RawPduReceived"} \X {"address"})

\* Classes that pack another type: JamAdv and JamAdvChannel, whose flag unpack()
\* leaves uninitialised, ble_jam_adv.cpp:61; and those that pack a tag of another
\* message.
Retyping == Of("ble", {"JamAdv", "JamAdvChannel"}) \cup Of("dot15d4", {"SendRawPdu"})
            \cup Of("unifying", {"Jammed"})
\* Optional members that pack() always gives, ble_connect.cpp:50, and the PDU that
\* its constructor moves, ble.c:1213.
Changed == Of("ble", {<<"ConnectTo", "channel_map">>, <<"SendPdu", "pdu">>})
=============================================================================
