--------------------------------- MODULE Ctx ---------------------------------
(***************************************************************************)
(* aio/ctx.c with aio/fsm.c's events and utils/queue.c: how events travel  *)
(* between state machines that live in different contexts.                 *)
(*                                                                         *)
(* A context is a mutex and two queues.  A thread that has entered it may  *)
(* raise events to machines of the same context (queue events) and to      *)
(* machines of other contexts (queue eventsto).  nn_ctx_leave handles the  *)
(* former until none is left, copies the latter to its stack, unlocks, and *)
(* then enters the context of each copied event in turn, handles the event *)
(* and leaves again: nn_ctx_leave is recursive, and a thread has a stack   *)
(* of such copies.                                                         *)
(*                                                                         *)
(* Handlers are the users of this module (inproc.c, sock.c, ...): what     *)
(* they raise is free, within the rules MayRaise names.  nn_fsm_raise and  *)
(* nn_fsm_raiseto are declared in fsm.h only; they are modelled from the   *)
(* fields nn_fsm_event_process reads: fsm (its context is `to') and src.   *)
(***************************************************************************)
EXTENDS Queue, Integers, Sequences, FiniteSets

CONSTANTS
    Ctxs, Threads, Events,
    None,
    Fuel        \* bound: calls from outside plus events raised

ASSUME CtxAssumption ==
    /\ Fuel \in Nat
    /\ None \notin Threads \cup Ctxs \cup Events
    /\ {NULL, NOTINQUEUE} \cap Events = {}

VARIABLES
    sync,       \* [Ctxs -> Threads or None]   self->sync: who holds the mutex
    events,     \* [Ctxs -> queue]
    eventsto,   \* [Ctxs -> queue]
    next,       \* [Events -> link]            nn_fsm_event.item
    to,         \* [Events -> Ctxs]            event->fsm->ctx
    src,        \* [Events -> {-1, 0}]         -1 when there is nothing to process
    at,         \* [Threads -> ...]            where a thread is, see Places
    here,       \* [Threads -> Ctxs]           the argument of the nn_ctx_leave to come
    copies,     \* [Threads -> Seq(queue)]     the local eventsto of nested leaves
    cur,        \* [Threads -> Events or None] the local variable event
    fuel

vars == <<sync, events, eventsto, next, to, src, at, here, copies, cur, fuel>>

Places ==
    {"out",         \* in no context
     "inside",      \* in a context: in the caller's code or in the loop of lines 32-39
     "handling",    \* in a context, in nn_fsm_event_process of line 61
     "delivering",  \* in the loop of lines 54-63, no context held
     "entering"}    \* at line 60

Init ==
    /\ sync = [c \in Ctxs |-> None]
    /\ events = [c \in Ctxs |-> EmptyQueue]
    /\ eventsto = [c \in Ctxs |-> EmptyQueue]
    /\ next = [e \in Events |-> NOTINQUEUE]
    /\ to \in [Events -> Ctxs]
    /\ src = [e \in Events |-> -1]
    /\ at = [t \in Threads |-> "out"]
    /\ here \in [Threads -> Ctxs]
    /\ copies = [t \in Threads |-> <<>>]
    /\ cur = [t \in Threads |-> None]
    /\ fuel = Fuel
-----------------------------------------------------------------------------
(* nn_fsm_event_process up to the call of the handler. *)
Process(e) == src' = [src EXCEPT ![e] = -1]

(* nn_ctx_enter by a thread that comes from outside. *)
Enter(t, c) ==
    /\ at[t] = "out"
    /\ fuel > 0
    /\ sync[c] = None
    /\ sync' = [sync EXCEPT ![c] = t]
    /\ at' = [at EXCEPT ![t] = "inside"]
    /\ here' = [here EXCEPT ![t] = c]
    /\ fuel' = fuel - 1
    /\ UNCHANGED <<events, eventsto, next, to, src, copies, cur>>

(* The rules a user of events follows: one raise at a time, and no new     *)
(* target while line 62 may still read the old one.                        *)
Held(t) == at[t] \in {"inside", "handling"}

MovedAtAnyTime(e, c) == TRUE
Settled(e, c) ==
    \A u \in Threads : at[u] = "handling" /\ cur[u] = e => c = here[u]

(* Processed is more than what nn_fsm_event_active tells, which is only    *)
(* that the event is in no queue.                                          *)
InNoQueue(e) == next[e] = NOTINQUEUE
Processed(e) == src[e] = -1

MayRaise(t, e, c) == Held(t) /\ fuel > 0 /\ Processed(e) /\ Settled(e, c)

Raised(e, c) ==
    /\ to' = [to EXCEPT ![e] = c]
    /\ src' = [src EXCEPT ![e] = 0]
    /\ fuel' = fuel - 1

Raise(t, e) ==
    LET c == here[t]
    IN  /\ MayRaise(t, e, c)
        /\ Raised(e, c)
        /\ next' = PushNext(next, events[c], e)
        /\ events' = [events EXCEPT ![c] = Push(@, e)]
        /\ UNCHANGED <<sync, eventsto, at, here, copies, cur>>

RaiseTo(t, e, c) ==
    LET own == here[t]
    IN  /\ MayRaise(t, e, c)
        /\ Raised(e, c)
        /\ next' = PushNext(next, eventsto[own], e)
        /\ eventsto' = [eventsto EXCEPT ![own] = Push(@, e)]
        /\ UNCHANGED <<sync, events, at, here, copies, cur>>
-----------------------------------------------------------------------------
(* The loop of lines 32-39: one event of the context's own. *)
ProcessOwn(t) ==
    LET c == here[t]
        e == events[c].head
    IN  /\ at[t] = "inside"
        /\ ~QueueEmpty(events[c])
        /\ events' = [events EXCEPT ![c] = Pop(next, @)]
        /\ next' = PopNext(next, events[c])
        /\ Process(e)
        /\ UNCHANGED <<sync, eventsto, to, at, here, copies, cur, fuel>>

(* The loop is left when the queue is empty (not after one event). *)
DrainedOnce(c)  == TRUE
DrainedQueue(c) == QueueEmpty(events[c])

(* Line 51 starts the context's queue afresh, the copy owns the items now. *)
KeepQueue(c)  == eventsto[c]
ResetQueue(c) == EmptyQueue

(* Where nn_ctx_leave returns to: the caller, or the loop of an outer one. *)
BackInLoop(outer) == "delivering"
BackFrom(outer)   == IF outer = <<>> THEN "out" ELSE "delivering"

(* Lines 41-52, and the return on line 47. *)
Leave(t) ==
    LET c == here[t]
    IN  /\ at[t] = "inside"
        /\ DrainedQueue(c)
        /\ sync' = [sync EXCEPT ![c] = None]
        /\ IF QueueEmpty(eventsto[c])
           THEN /\ at' = [at EXCEPT ![t] = BackFrom(copies[t])]
                /\ UNCHANGED <<eventsto, copies>>
           ELSE /\ at' = [at EXCEPT ![t] = "delivering"]
                /\ copies' = [copies EXCEPT ![t] = Append(@, eventsto[c])]
                /\ eventsto' = [eventsto EXCEPT ![c] = ResetQueue(c)]
        /\ UNCHANGED <<events, next, to, src, here, cur, fuel>>

(* Line 55: the next event of the innermost copy ... *)
PopCopy(t) ==
    LET n == Len(copies[t])
        q == copies[t][n]
    IN  /\ at[t] = "delivering"
        /\ ~QueueEmpty(q)
        /\ copies' = [copies EXCEPT ![t][n] = Pop(next, q)]
        /\ next' = PopNext(next, q)
        /\ cur' = [cur EXCEPT ![t] = q.head]
        /\ at' = [at EXCEPT ![t] = "entering"]
        /\ UNCHANGED <<sync, events, eventsto, to, src, here, fuel>>

(* ... or the end of this nn_ctx_leave, lines 57-58, 65. *)
DeliveredSome(q) == TRUE
DeliveredAll(q)  == QueueEmpty(q)

Return(t) ==
    LET n     == Len(copies[t])
        outer == SubSeq(copies[t], 1, n - 1)
    IN  /\ at[t] = "delivering"
        /\ DeliveredAll(copies[t][n])
        /\ copies' = [copies EXCEPT ![t] = outer]
        /\ at' = [at EXCEPT ![t] = BackFrom(outer)]
        /\ UNCHANGED <<sync, events, eventsto, next, to, src, here, cur, fuel>>

(* Lines 60-61: nn_ctx_enter waits for the mutex. *)
MayEnterAnyway(c) == TRUE
MayEnter(c)       == sync[c] = None

Deliver(t) ==
    LET c == to[cur[t]]
    IN  /\ at[t] = "entering"
        /\ MayEnter(c)
        /\ sync' = [sync EXCEPT ![c] = t]
        /\ here' = [here EXCEPT ![t] = c]
        /\ at' = [at EXCEPT ![t] = "handling"]
        /\ Process(cur[t])
        /\ UNCHANGED <<events, eventsto, next, to, copies, cur, fuel>>

(* Line 62: the context to leave is read from the event again. *)
Handled(t) ==
    /\ at[t] = "handling"
    /\ here' = [here EXCEPT ![t] = to[cur[t]]]
    /\ cur' = [cur EXCEPT ![t] = None]
    /\ at' = [at EXCEPT ![t] = "inside"]
    /\ UNCHANGED <<sync, events, eventsto, next, to, src, copies, fuel>>

(* The threads are done when nobody calls any more. *)
Quiet ==
    /\ fuel = 0
    /\ \A t \in Threads : at[t] = "out"
    /\ UNCHANGED vars
-----------------------------------------------------------------------------
Step(t) ==
    ProcessOwn(t) \/ Leave(t) \/ PopCopy(t) \/ Return(t) \/ Deliver(t) \/ Handled(t)

User(t) ==
    \/ \E c \in Ctxs : Enter(t, c)
    \/ \E e \in Events : Raise(t, e) \/ \E c \in Ctxs : RaiseTo(t, e, c)

Next == Quiet \/ \E t \in Threads : Step(t) \/ User(t)

Spec == Init /\ [][Next]_vars

(* A thread that is in the library goes on until it is out again.  Nothing *)
(* makes a thread call or a handler raise.                                 *)
FairSpec == Spec /\ \A t \in Threads : WF_vars(Step(t))
-----------------------------------------------------------------------------
TypeOK ==
    /\ sync \in [Ctxs -> Threads \cup {None}]
    /\ events \in [Ctxs -> QueueHead(Events)]
    /\ eventsto \in [Ctxs -> QueueHead(Events)]
    /\ next \in [Events -> Events \cup {NULL, NOTINQUEUE}]
    /\ to \in [Events -> Ctxs]
    /\ src \in [Events -> {-1, 0}]
    /\ at \in [Threads -> Places]
    /\ here \in [Threads -> Ctxs]
    /\ copies \in [Threads -> Seq(QueueHead(Events))]
    /\ cur \in [Threads -> Events \cup {None}]
    /\ fuel \in 0..Fuel
    /\ \A t \in Threads : /\ at[t] = "delivering" => copies[t] # <<>>
                          /\ at[t] \in {"entering", "handling"} => cur[t] # None

(* A thread holds the mutex of the context it is in and no other, and none *)
(* while it waits for one: nn_ctx_leave unlocks what was locked although   *)
(* line 62 reads the context anew, and deliveries cannot deadlock.         *)
HoldsOnlyHere ==
    \A t \in Threads, c \in Ctxs :
        sync[c] = t <=> Held(t) /\ here[t] = c

(* An unlocked context has nothing in its queues: whoever raised an event  *)
(* there has handled it or taken it along.                                 *)
NothingStranded ==
    \A c \in Ctxs :
        sync[c] = None => QueueEmpty(events[c]) /\ QueueEmpty(eventsto[c])

(* Where an event that was raised and not handled is. *)
Whereabouts(e) ==
    {<<"events", c>>   : c \in {c \in Ctxs : e \in Chain(next, events[c])}} \cup
    {<<"eventsto", c>> : c \in {c \in Ctxs : e \in Chain(next, eventsto[c])}} \cup
    (UNION {{<<"copy", t, n>> : n \in {n \in DOMAIN copies[t] :
                                        e \in Chain(next, copies[t][n])}} : t \in Threads}) \cup
    {<<"entering", t>> : t \in {t \in Threads : at[t] = "entering" /\ cur[t] = e}}

(* The intrusive queues and the copies of their heads never share, lose or *)
(* double an event: a raised event is in one place, every other event in   *)
(* none, and every chain ends at its tail.                                 *)
EventsConserved ==
    /\ \A e \in Events : Cardinality(Whereabouts(e)) = IF src[e] = -1 THEN 0 ELSE 1
    /\ \A c \in Ctxs : WellLinked(next, events[c]) /\ WellLinked(next, eventsto[c])
    /\ \A t \in Threads : \A n \in DOMAIN copies[t] : WellLinked(next, copies[t][n])

(* Every raised event is handled, even when the thread that carries it has *)
(* to wait for contexts on its way.                                        *)
EventsDelivered == \A e \in Events : src[e] # -1 ~> src[e] = -1

(* Ctx implements Mailbox. *)
Mail == INSTANCE Mailbox WITH
    Thread <- Threads, Context <- Ctxs, Event <- Events,
    owner  <- sync,
    due    <- [e \in Events |-> IF src[e] = -1 THEN None ELSE to[e]]

(* Each event is handled once, in the context it was raised to, by a       *)
(* thread that has this context, and only this one, to itself.             *)
MailSpec == Mail!MailSpec
=============================================================================
