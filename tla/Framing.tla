------------------------------ MODULE Framing ------------------------------
(***************************************************************************)
(* What a sender puts on the line: frames, with noise between them.        *)
(***************************************************************************)
EXTENDS Integers, Sequences

\* Faulty variant: the bytes of the length are swapped.
Header_Swapped(n) == <<172, 190, (n \div 256) % 256, n % 256>>
\* The header whad_transport_send_message writes before a payload of n bytes,
\* and the frame of a payload.
Header(n) == <<172, 190, n % 256, (n \div 256) % 256>>
Encoded(payload) == Header(Len(payload)) \o payload

\* The bytes of the first n items of a line, each a payload after some noise,
\* and those of all of them.
Sent(item) == item.noise \o Encoded(item.payload)
FramedUpTo(line) ==
  LET upto[n \in 0 .. Len(line)] == IF n = 0 THEN <<>> ELSE upto[n - 1] \o Sent(line[n])
  IN  upto
Framed(line) == FramedUpTo(line)[Len(line)]

Payloads(line) == [i \in 1 .. Len(line) |-> line[i].payload]
=============================================================================
