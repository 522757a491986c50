-------------------------------- MODULE Link -------------------------------
(***************************************************************************)
(* Two ends of a line: a sender that keeps the promise of FrameStream,     *)
(* which send_message and its queue implement, and the receive half of the *)
(* transport.  They share nothing but the line, which may be slow.         *)
(***************************************************************************)
EXTENDS FrameDecoder

VARIABLES
  owed,                 \* the bytes of the frames the sender has accepted
  wire                  \* the bytes it has sent

Sender == INSTANCE FrameStream WITH Frames <- {Encoded(p) : p \in Sendable}

\* A line without noise.
Clean(ps) == [i \in 1 .. Len(ps) |-> [noise |-> <<>>, payload |-> ps[i]]]

\* The ring accepts bytes that were sent, in the order they were sent.
LineOrder == IsPrefix(received, wire)
LinkSpec == Sender!StreamSafety /\ Spec /\ []LineOrder

\* What the receiver delivers is the beginning of what the sender accepted.
EndToEnd ==
  \E ps \in Seq(Sendable) :
    owed = Framed(Clean(ps)) /\ IsPrefix(wire, owed) /\ IsPrefix(delivered, ps)
=============================================================================
