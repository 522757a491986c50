----------------------------- MODULE EsbCodec -----------------------------
(***************************************************************************)
(* The messages of the Enhanced ShockBurst domain, src/src/domains/esb.c.  *)
(* An address has at most 5 bytes; a packet length is a uint8_t and its    *)
(* buffer has 255 bytes.                                                   *)
(***************************************************************************)
EXTENDS Codec

Address == Rejecting(Wide, {"over"})

\* The tag is written before the size is looked at.
SetNodeAddress == Tested(Message("set_node_addr", [address |-> Failing(Address, {"over"})]))

\* Faulty variant: the tag is written before the size is looked at.
Sniff_TagFirst == Tested(Message("sniff", [channel |-> Plain, show_acks |-> Plain,
                                           address |-> Failing(Address, {"over"})]))

Sniff == Tested(Message("sniff", [channel |-> Plain, show_acks |-> Plain,
                                  address |-> Refusing(Address, {"over"})]))
Jam == Message("jam", [channel |-> Plain])

Packet == [channel |-> Plain, retr_count |-> Plain, packet |-> Bytes]
Send    == Message("send", Packet)
SendRaw == Message("send_raw", Packet)

Prx == Message("prx", [channel |-> Plain])
Ptx == Message("ptx", [channel |-> Plain])
Start == Command("start")
Stop  == Command("stop")
\* A timestamp has 64 bits on the wire; so in Received.
Jammed == Message("jammed", [timestamp |-> Narrowed(Plain)])

Received ==
  [channel |-> Plain, packet |-> Bytes, rssi |-> Optional(Plain),
   timestamp |-> Narrowed(Optional(Plain)), crc_validity |-> Optional(Plain),
   address |-> Optional(Failing(Address, {"over"}))]
\* The address comes last: the rest is there, and its flag, when it fails.
BeforeAddress == [x \in DOMAIN Received |-> IF x = "address" THEN {"has"} ELSE Parts]

RawPduReceived == Early(Message("raw_pdu", Received), BeforeAddress)
PduReceived    == Early(Message("pdu", Received), BeforeAddress)

Table == [set_node_addr |-> SetNodeAddress, sniff |-> Sniff, jam |-> Jam, send |-> Send,
          send_raw |-> SendRaw, prx |-> Prx, ptx |-> Ptx, start |-> Start, stop |-> Stop,
          jammed |-> Jammed, raw_pdu |-> RawPduReceived, pdu |-> PduReceived]
=============================================================================
