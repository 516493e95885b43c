------------------------------ MODULE MCWorker ------------------------------
(* The constants of the run of Worker. *)
EXTENDS Worker, TLC

CONSTANTS a, b, h1, h2, j

Timers  == {a, b}
Handles == {h1, h2}
Jobs    == {j}
Delays  == {0, 1}
(* Timers alone, a timer among jobs, and jobs with descriptors. *)
Few ==
    {[starts |-> 3, jobs |-> 0, fds |-> FALSE],
     [starts |-> 2, jobs |-> 1, fds |-> FALSE],
     [starts |-> 0, jobs |-> 2, fds |-> TRUE]}
=============================================================================
