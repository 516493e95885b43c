-------------------------------- MODULE MCCtx --------------------------------
(* Model values for the run of Ctx. *)
EXTENDS Ctx, TLC

CONSTANTS a, b, t1, t2, e1, e2, e3

TwoContexts == {a, b}
TwoThreads  == {t1, t2}
ThreeEvents == {e1, e2, e3}
=============================================================================
