----------------------------- MODULE MCMsgQueue -----------------------------
(* Model values for the run of MsgQueue. *)
EXTENDS MsgQueue

CONSTANTS c1, c2, c3, c4

FourChunks == {c1, c2, c3, c4}
TwoTags    == {1, 2}
SomeSizes  == {1, 2, 6}
=============================================================================
