---------------------------- MODULE FrameStream ----------------------------
(***************************************************************************)
(* What the transmit half of the transport promises the firmware: every    *)
(* frame it accepts goes out whole, once, in the order of acceptance, and  *)
(* the bytes of a frame it does not accept never go out.                   *)
(***************************************************************************)
EXTENDS Naturals, Sequences

CONSTANT Frames         \* the frames a caller may hand over

VARIABLES
  owed,                 \* the bytes of the accepted frames, in order
  wire                  \* the bytes the host has been sent

StreamInit == owed = <<>> /\ wire = <<>>

Accept == /\ \E f \in Frames : owed' = owed \o f
          /\ UNCHANGED wire

Emit == /\ Len(wire) < Len(owed)
        /\ \E n \in Len(wire) + 1 .. Len(owed) : wire' = SubSeq(owed, 1, n)
        /\ UNCHANGED owed

StreamNext == Accept \/ Emit
StreamSafety == StreamInit /\ [][StreamNext]_<<owed, wire>>

\* An accepted byte is eventually sent.
StreamSpec == StreamSafety /\ WF_<<owed, wire>>(Emit)
=============================================================================
