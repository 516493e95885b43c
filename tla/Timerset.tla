------------------------------ MODULE Timerset ------------------------------
(***************************************************************************)
(* aio/timerset.c: the timeouts of a worker, a list of [timer, at] ordered *)
(* by time and, for the same time, by arrival.                             *)
(***************************************************************************)
EXTENDS Integers, SequencesExt

(* nn_timerset_add: in front of the first entry that is later. *)
Place(set, at) ==
    CHOOSE i \in 1..Len(set) + 1 :
        /\ i = Len(set) + 1 \/ at < set[i].at
        /\ \A j \in 1..i - 1 : at >= set[j].at

TimersetAdd(set, t, at) ==
    InsertAt(set, Place(set, at), [timer |-> t, at |-> at])

(* nn_timerset_rm: nothing happens to a timer that is not in the list. *)
TimersetRm(set, t) == RemoveFirstMatch(set, LAMBDA e : e.timer = t)

TimersetHas(set, t) == \E i \in DOMAIN set : set[i].timer = t

(* nn_timerset_timeout answers 0, and nn_timerset_event an entry. *)
TimersetDue(set, now) == set # <<>> /\ Head(set).at <= now
=============================================================================
