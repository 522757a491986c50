------------------------------ MODULE MCRingBuf ------------------------------
(* RingBufMachine for TLC: two byte values, so that a byte handed back can   *)
(* be the wrong one.                                                         *)
EXTENDS RingBufMachine
=============================================================================
