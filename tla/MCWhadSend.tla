----------------------------- MODULE MCWhadSend -----------------------------
(***************************************************************************)
(* WhadSend for TLC: lists of one to three ranges, the third of them too   *)
(* long for the buffer, the last two with a range that starts or ends at   *)
(* zero.                                                                   *)
(***************************************************************************)
EXTENDS WhadSend

Lists123 == { <<<<1, 2>>>>, <<<<1, 2>>, <<3, 4>>>>, <<<<5, 6>>, <<1, 2>>, <<3, 4>>>>,
              <<<<0, 2>>, <<3, 4>>>>, <<<<1, 2>>, <<3, 0>>, <<5, 6>>>> }
=============================================================================
