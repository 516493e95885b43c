------------------------------- MODULE Alarm -------------------------------
(***************************************************************************)
(* What aio/timer.c promises to the owner of a timer: after nn_timer_start *)
(* it rings at most once, not before its time, and not any more once       *)
(* nn_timer_stop was called; when it says STOPPED it may be started again  *)
(* or freed.                                                               *)
(***************************************************************************)
EXTENDS Integers

CONSTANTS Timer, Delay

VARIABLES
    st,     \* [Timer -> {"idle", "armed", "rung", "stopping"}]
    due,    \* [Timer -> Nat]    when it may ring
    time

alarmVars == <<st, due, time>>

AlarmInit ==
    /\ st = [t \in Timer |-> "idle"]
    /\ due = [t \in Timer |-> 0]
    /\ time = 0

Become(t, from, to) == st[t] \in from /\ st' = [st EXCEPT ![t] = to]

Arm(t, d) ==
    /\ Become(t, {"idle"}, "armed")
    /\ due' = [due EXCEPT ![t] = time + d]
    /\ UNCHANGED time

Ring(t) ==
    /\ Become(t, {"armed"}, "rung")
    /\ time >= due[t]
    /\ UNCHANGED <<due, time>>

Halt(t) ==
    /\ Become(t, {"armed", "rung"}, "stopping")
    /\ due' = [due EXCEPT ![t] = 0]
    /\ UNCHANGED time

Halted(t) == Become(t, {"stopping"}, "idle") /\ UNCHANGED <<due, time>>

Pass == time' = time + 1 /\ UNCHANGED <<st, due>>

AlarmNext ==
    \/ \E t \in Timer : Ring(t) \/ Halt(t) \/ Halted(t) \/ \E d \in Delay : Arm(t, d)
    \/ Pass

AlarmSpec == AlarmInit /\ [][AlarmNext]_alarmVars
=============================================================================
