---------------------------- MODULE FrameDecoder ----------------------------
(***************************************************************************)
(* What get_message is compared with: a decoder that sees the whole byte   *)
(* stream.  Scanning from the left, a frame starts at the first place that *)
(* holds the magic and a legal length; its payload is what follows, and    *)
(* scanning resumes after it.                                              *)
(***************************************************************************)
EXTENDS TransportRx, Framing, SequencesExt

FrameLength(s, p) == s[p + 2] + 256 * s[p + 3]
FrameStarts(s, c) ==
  {p \in c .. Len(s) - 3 : /\ s[p] = 172 /\ s[p + 1] = 190
                           /\ FrameLength(s, p) <= MaxEncoded}
\* The place after the frame that starts at p.
FrameEnd(s, p) == p + HeaderSize + FrameLength(s, p)

\* The payloads found from every place of s on.
Scan(s) ==
  LET from[c \in 1 .. Len(s) + 1] ==
        IF FrameStarts(s, c) = {} THEN <<>>
        ELSE LET p == Min(FrameStarts(s, c))
                 e == FrameEnd(s, p)
             IN  IF e > Len(s) + 1 THEN <<>>
                 ELSE <<SubSeq(s, p + HeaderSize, e - 1)>> \o from[e]
  IN  from
Decode(s) == Scan(s)[1]

\* The accepted bytes get_message has not consumed, the header in its local
\* included until the payload is gone too.
Ahead == (IF pc \in {"copy", "skip"} THEN header ELSE <<>>) \o Contents(rx)

\* Whatever the chunking, the polling and the noise, what get_message has
\* delivered and what is still to be found in the ring are together what the
\* reference decoder finds in the accepted bytes: the one- and two-byte
\* resynchronisation never jumps over a frame and never invents one, and no
\* interrupt disturbs a payload while it is being copied.
DeliveredIsDecoding == Decode(received) = delivered \o Decode(Ahead)

\* get_message and the interrupt implement a sink of frames: no later byte
\* undoes a frame, and one step hands over at most one, the next.
Sink == INSTANCE FrameSink WITH found <- Decode(received)
SinkRefinement == Sink!SinkSpec

\* The lines a sender makes: noise that cannot start a frame, and payloads that
\* send_message takes, whose length two bytes can hold.  (All headers are in the
\* alphabet when it is 0 .. 255.)
Quiet == Seq(Byte \ {172})
Sendable == {p \in Seq(Byte) : /\ Len(p) <= MaxEncoded /\ Len(p) < 65536
                               /\ Header(Len(p)) \in Seq(Byte)}
Lines == Seq([noise : Quiet, payload : Sendable])

CONSTANT HostLines      \* the lines the host may mean to send
ASSUME LinesAssumption == HostLines \subseteq Lines

\* As long as the ring has accepted what was put on the line, get_message has
\* delivered the first payloads that were sent; once all of it is accepted, the
\* payloads delivered and those still in the ring are all that were sent.
Arrives(line) ==
  /\ IsPrefix(received, Framed(line)) => IsPrefix(delivered, Payloads(line))
  /\ received = Framed(line) => Payloads(line) = delivered \o Decode(Ahead)

\* What a sender put on one of these lines arrives: the frames send_message
\* builds are the ones get_message takes apart, whatever the chunks, the polling
\* and the noise between them.
LinesArrive == \A line \in HostLines : Arrives(line)
=============================================================================
