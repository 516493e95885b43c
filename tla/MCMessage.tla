------------------------------ MODULE MCMessage ------------------------------
(* The constants of the run of Message. *)
EXTENDS Message, TLC

CONSTANTS m1, m2

Two     == {m1, m2}
(* A message with a header and a body in a chunk, and a small one. *)
OneOfEach == <<[header |-> <<9>>, body |-> <<1, 2>>], [header |-> <<>>, body |-> <<3>>]>>
Symmetry == Permutations(Two)
(* With the header of chunk.c:52 no chunk can be used, and the other lines *)
(* as written would never be reached.                                      *)
AsMeantAndAsWritten == {{}, {"chunk.c:52"}, Slips \ {"chunk.c:52"}}
=============================================================================
