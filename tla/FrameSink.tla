----------------------------- MODULE FrameSink -----------------------------
(***************************************************************************)
(* What the receive half of the transport promises the firmware: a frame   *)
(* found in what the host has sent stays found, whatever comes after it,   *)
(* and the frames found are handed over one at a time, each once, in the   *)
(* order they were sent.                                                   *)
(***************************************************************************)
EXTENDS Naturals, SequencesExt

VARIABLES
  found,                \* the payloads of the frames received, in order
  delivered             \* the payloads the caller has been given

SinkInit == found = <<>> /\ delivered = <<>>

Find == /\ IsPrefix(found, found') /\ found' # found
        /\ UNCHANGED delivered

Deliver == /\ Len(delivered) < Len(found)
           /\ delivered' = Append(delivered, found[Len(delivered) + 1])
           /\ UNCHANGED found

SinkSpec == SinkInit /\ [][Find \/ Deliver]_<<found, delivered>>
=============================================================================
