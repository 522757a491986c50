------------------------------ MODULE Protocol ------------------------------
(***************************************************************************)
(* The messages of every domain, by domain and by the tag that stands for  *)
(* them, and the fields known not to arrive. A prepared sequence has one   *)
(* message per trigger.                                                    *)
(***************************************************************************)
EXTENDS Codec

Core     == INSTANCE CoreCodec
Ble      == INSTANCE BleCodec
Phy      == INSTANCE PhyCodec
Dot15d4  == INSTANCE Dot15d4Codec
Esb      == INSTANCE EsbCodec
Unifying == INSTANCE UnifyingCodec
Board    == INSTANCE BoardCodec

Tables == [core |-> Core!Table, ble |-> Ble!Table, phy |-> Phy!Table, dot15d4 |-> Dot15d4!Table,
           esb |-> Esb!Table, unifying |-> Unifying!Table, board |-> Board!Table]
--------------------------------------------------------------------------
(* Deviations: the exceptions the properties of Exchange and ObjectExchange *)
(* make. Each is a place where the code does not do what the rest of it     *)
(* does: a <<domain, message>>, a <<domain, <<message, field>>>>, or, when  *)
(* it depends on a size, a <<domain, <<message, field>>, <<field of that    *)
(* size, size>>>>.                                                          *)

Of(d, things) == {d} \X things
\* The fields, when they have one of the sizes themselves.
When(fields, sizes) == {<<e[1], e[2], <<e[2][2], s>>>> : e \in fields, s \in sizes}
\* The field x of the message msg is in the sized set D, the fields being a.
At(D, d, msg, x, a) == \E y \in DOMAIN a : <<d, <<msg, x>>, <<y, a[y].len>>>> \in D

AdvertisingData == Of("ble", {"adv_mode", "periph_mode"} \X {"adv_data", "scanrsp_data"})
PhyTimestamps   == Of("phy", {"sched_send", "jammed", "packet"} \X {"timestamp"})

\* A flag that is set and never cleared, so that a Message used before still
\* has it: ble.c:77, 81, 985 to 1009, 2270 and 2277.
StaleFlags ==
  Of("ble", ({"raw_pdu"} \X {"timestamp", "relative_timestamp"})
            \cup ({"connect"} \X {"access_address", "channel_map", "hop_interval",
                                  "hop_increment", "crc_init"})
            \cup ({"aa_disc"} \X {"timestamp", "rssi"}))

\* The size of a PDU is not assigned, ble.c:1141 and 1213; an argument is not used,
\* ble.c:1886 and dot15d4.c:334, nor the last byte of an identifier, discovery.c:210.
Dropped ==
  Of("ble", ({"send_raw_pdu", "send_pdu"} \X {"pdu"}) \cup {<<"prepare_recv", "offset">>})
  \cup Of("dot15d4", {<<"send_raw", "fcs">>}) \cup Of("core", {<<"info_resp", "devid_last">>})

\* The size is not assigned: of no data, ble.c:803, 815, 1333 and 1345; of 0, 31 or
\* more bytes of data, ble.c:2367.
Missing == When(AdvertisingData, {"empty"})
           \cup When(Of("ble", {<<"adv_pdu", "adv_data">>}), {"empty", "full", "over"})

Spoilt ==
  \* A list cut short at an entry with a zero: discovery.c:50 and phy.c:40.
  When(Of("core", {<<"info_resp", "capabilities">>})
       \cup Of("phy", {<<"supported_freq", "frequency_ranges">>}), {"over"})
  \* Texts of full length without their last byte, discovery.c:188 and 198;
  \* microseconds computed in 32 bits, phy.c:1192, 1286 and 1474.
  \cup When(Of("core", {"info_resp"} \X {"fw_author", "fw_url"}) \cup PhyTimestamps, {"full"})
  \* A flag written over by a long PDU, ble.c:1213.
  \cup {<<"ble", <<"send_pdu", "encrypt">>, <<"pdu", "full">>>>}

\* An accepted call with the arguments a does not put the field x on the wire.
Lost(d, msg, x, a) == <<d, <<msg, x>>>> \in Dropped \/ At(Missing \cup Spoilt, d, msg, x, a)

\* A raw packet to send gets the tag of the cooked one: dot15d4.c:343.
Renamed == Of("dot15d4", {"send_raw"})

\* The parsers of a sequence never report the number of packets: ble.c:2007, 2092.
Uncounted == Of("ble", {"prepare_manual", "prepare_connevt"} \X {"packets"})

\* Read through another member of the union, dot15d4.c:1003; never read, ble.c:168
\* and phy.c:1528.
Misread ==
  Of("dot15d4", {<<"pdu", "lqi">>}) \cup Of("ble", {<<"pdu", "direction">>})
  \cup Of("phy", {"packet"} \X {"syncword", "deviation", "datarate", "endian", "modulation"})

\* 64 bits of the wire stored in 32, ble.c:2309, dot15d4.c:717, 775, 891 and 1018,
\* esb.c:564, 686 and 829, unifying.c:642, 764 and 907, phy.c:1253, 1317 and 1543;
\* 32 bits in 8, phy.c:1617.
NarrowedFields ==
  Of("ble", {<<"aa_disc", "timestamp">>}) \cup PhyTimestamps
  \cup Of("phy", {<<"sched_pkt_rsp", "id">>})
  \cup Of("dot15d4", {"jammed", "ed_sample", "raw_pdu", "pdu"} \X {"timestamp"})
  \cup {"esb", "unifying"} \X ({"jammed", "raw_pdu", "pdu"} \X {"timestamp"})

\* And data of 31 bytes: ble.c:841, 856 and 1372.
Overlooked == When(AdvertisingData, {"full"}) \cup When(NarrowedFields, {"over"})

\* A parser does not report the field x of the fields f as it is.
MisreadIn(d, msg, x, f) == <<d, <<msg, x>>>> \in Misread \/ At(Overlooked, d, msg, x, f)

\* The constructor refuses every address, dot15d4.c:37, or a sequence with an
\* empty packet, ble.c:1809; the parser does not.
Lenient == Of("dot15d4", {"set_node_addr"}) \cup Of("ble", {"prepare_manual", "prepare_connevt"})

\* Constructors that look at an argument once they have written the tag.
HalfBuilt ==
  Of("ble", {"set_adv_data", "reactive_jam", "prepare_recv", "prepare_manual", "prepare_connevt"})
  \cup Of("phy", {"send_raw"}) \cup Of("dot15d4", {"send", "send_raw"})
  \cup {"esb", "unifying"} \X {"set_node_addr", "raw_pdu", "pdu"}
=============================================================================
