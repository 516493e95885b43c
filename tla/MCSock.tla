------------------------------- MODULE MCSock -------------------------------
(* Model values and symmetry for the runs of Sock. *)
EXTENDS Sock, TLC

CONSTANTS t1, t2

OneCaller  == {t1}
TwoCallers == {t1, t2}
BothDirs   == {"IN", "OUT"}
RecvOnly   == {"IN"}
NoFeatures == {}
Removing   == {"remove", "no_memory", "stop_callback"}
RacingAdd  == {"add_while_closing"}

Interchangeable == Permutations(TwoCallers)
=============================================================================
