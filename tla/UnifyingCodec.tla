--------------------------- MODULE UnifyingCodec ---------------------------
(***************************************************************************)
(* The messages of the Logitech Unifying domain, src/src/domains/          *)
(* unifying.c. Unlike those of ESB, its parsers do not test the tag.       *)
(***************************************************************************)
EXTENDS Codec

Address == Rejecting(Wide, {"over"})

\* The tag is written before the size is looked at.
SetNodeAddress == Message("set_node_addr", [address |-> Failing(Address, {"over"})])
Sniff == Message("sniff", [channel |-> Plain, show_acks |-> Plain,
                           address |-> Refusing(Address, {"over"})])
Jam == Message("jam", [channel |-> Plain])

Packet == [channel |-> Plain, retr_count |-> Plain, packet |-> Bytes]
Send    == Message("send", Packet)
SendRaw == Message("send_raw", Packet)

Dongle   == Message("dongle", [channel |-> Plain])
Keyboard == Message("keyboard", [channel |-> Plain])
Mouse    == Message("mouse", [channel |-> Plain])
Start == Command("start")
Stop  == Command("stop")
SniffPairing == Command("sniff_pairing")
\* A timestamp has 64 bits on the wire; so in Received.
Jammed == Message("jammed", [timestamp |-> Narrowed(Plain)])

Received ==
  [channel |-> Plain, packet |-> Bytes, rssi |-> Optional(Plain),
   timestamp |-> Narrowed(Optional(Plain)), crc_validity |-> Optional(Plain),
   address |-> Optional(Failing(Address, {"over"}))]
BeforeAddress == [x \in DOMAIN Received |-> IF x = "address" THEN {"has"} ELSE Parts]

\* An absent address is cleared through the member of the ESB domain, which
\* has the same layout.
RawPduReceived == Early(Message("raw_pdu", Received), BeforeAddress)
PduReceived    == Early(Message("pdu", Received), BeforeAddress)

Table == [set_node_addr |-> SetNodeAddress, sniff |-> Sniff, jam |-> Jam, send |-> Send,
          send_raw |-> SendRaw, dongle |-> Dongle, keyboard |-> Keyboard, mouse |-> Mouse,
          start |-> Start, stop |-> Stop, sniff_pairing |-> SniffPairing,
          jammed |-> Jammed, raw_pdu |-> RawPduReceived, pdu |-> PduReceived]
=============================================================================
