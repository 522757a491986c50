--------------------------- MODULE MCTransportTx ---------------------------
(***************************************************************************)
(* TransportTx for TLC: its byte alphabet, and its liveness properties.    *)
(***************************************************************************)
EXTENDS TransportTx

MCByte == {<<0, 0>>} \cup (Ids \X (1 .. RingSize - 1))
MCZero == <<0, 0>>

\* A message the loop is holding is eventually accepted, however small the
\* transmission chunks and however often the queue is found full.
PendingAccepted ==
  \A m \in 1 .. LoopMsgs :
    pending = m /\ size[m] <= MaxEncoded /\ config.cb # "none"
      ~> m \in accepted

\* The transmitter never stays in WHAD_TRANSPORT_SENDING.
SendingEnds == state = "SENDING" ~> state = "IDLE"
=============================================================================
