--------------------------- MODULE MCTransportRx ---------------------------
(***************************************************************************)
(* TransportRx for TLC: the input it is checked with, and liveness.        *)
(***************************************************************************)
EXTENDS FrameDecoder

\* The bytes of the magic apart, the two bytes of a length or a payload, and the
\* shortest and the longest frame of RingSize = 7 whole: MaxStream = 10 has room for
\* both of them.  A segment may find room for only a part of it.
Segments == {<<172>>, <<190>>, <<2, 0>>, Encoded(<<>>), Encoded(<<2, 0>>)}

\* Lines of one frame, and of two, with a byte of noise before them or between them.
Noise == {<<>>, <<190>>}
Lone == [noise : Noise, payload : {<<>>, <<172, 190>>, <<2, 0>>}]
Pairs == [noise : Noise, payload : {<<>>, <<2, 0>>}]
FewLines == {<<a>> : a \in Lone} \cup {<<a, b>> : a \in Pairs, b \in Pairs}

\* Every frame the reference finds is eventually delivered.
AllDelivered == <>[](delivered = Decode(received))

\* A full ring never blocks reception for good: the longest legal frame fits
\* it, so get_message always finds something to consume.
FullDrains == RingFree(rx) = 0 ~> RingFree(rx) > 0
=============================================================================
