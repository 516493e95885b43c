------------------------------- MODULE Poller -------------------------------
(***************************************************************************)
(* aio/poller_epoll.inc: a poll set as operators on one record: the        *)
(* registered handles and what is wanted of each, and the batch of events  *)
(* of the last wait that are still to be given out.  Only the worker's     *)
(* thread touches it, between two events of a batch as well, so that a     *)
(* handle that goes away has to be taken out of the rest of the batch.     *)
(***************************************************************************)
EXTENDS Integers, SequencesExt

PollEvents == {"IN", "OUT", "ERR"}

NewPoller(H) == [reg |-> {}, want |-> [h \in H |-> {}], batch |-> <<>>]

(* nn_poller_add: wanted are no events, only errors. *)
PollerAdd(p, h) == [p EXCEPT !.reg = @ \cup {h}, !.want[h] = {}]

(* The loop of lines 59-63, 98-102 and 139-143: events of h that were      *)
(* fetched and not given out are dropped.  Entries without events stay.    *)
Without(entry, events) == [entry EXCEPT !.ev = @ \ events]

KeptAll(p, h, events)  == p.batch
KeptHead(p, h, events) ==
    [i \in DOMAIN p.batch |->
        IF i > 1 /\ p.batch[i].h = h THEN Without(p.batch[i], events) ELSE p.batch[i]]
Dropped(p, h, events) ==
    [i \in DOMAIN p.batch |->
        IF p.batch[i].h = h THEN Without(p.batch[i], events) ELSE p.batch[i]]

PollerRm(p, h) ==
    [p EXCEPT !.reg = @ \ {h}, !.want[h] = {}, !.batch = Dropped(p, h, PollEvents)]

(* nn_poller_set_in, set_out, reset_in, reset_out. *)
PollerSet(p, h, e) == [p EXCEPT !.want[h] = @ \cup {e}]
PollerReset(p, h, e) ==
    IF e \notin p.want[h] THEN p
    ELSE [p EXCEPT !.want[h] = @ \ {e}, !.batch = Dropped(p, h, {e})]

(* nn_poller_wait: the kernel gives the ready handles in some order, with  *)
(* what is wanted of them or an error.  ready is [reg -> SUBSET PollEvents].*)
Orders(S) == {o \in [1..Cardinality(S) -> S] : \A h \in S : \E i \in DOMAIN o : o[i] = h}

Batches(p, ready) ==
    {[i \in DOMAIN o |-> [h |-> o[i], ev |-> ready[o[i]]]] :
        o \in Orders({h \in p.reg : ready[h] # {}})}

PollerFetched(p, batch) == [p EXCEPT !.batch = batch]

(* nn_poller_event: entries without events are skipped; IN goes before OUT *)
(* and OUT before ERR, which ends the entry.                               *)
PollerEmpty(p) == \A i \in DOMAIN p.batch : p.batch[i].ev = {}

Index(p) == CHOOSE i \in DOMAIN p.batch :
                p.batch[i].ev # {} /\ \A j \in 1..i - 1 : p.batch[j].ev = {}

EventOf(ev) == IF "IN" \in ev THEN "IN" ELSE IF "OUT" \in ev THEN "OUT" ELSE "ERR"

PollerEvent(p) ==
    [h |-> p.batch[Index(p)].h, ev |-> EventOf(p.batch[Index(p)].ev)]

PollerTaken(p) ==
    [p EXCEPT !.batch[Index(p)] = Without(@, {PollerEvent(p).ev})]

(* -EAGAIN: the batch has been given out. *)
PollerDone(p) == [p EXCEPT !.batch = <<>>]
=============================================================================
