-------------------------------- MODULE Sock --------------------------------
(***************************************************************************)
(* core/sock.c on top of core/pipe.c: one socket from the moment           *)
(* nn_sock_init returns until nn_sock_term has returned.                   *)
(*                                                                         *)
(* Who acts:                                                               *)
(*   - Callers: application threads.  A thread takes a hold, makes one     *)
(*     call (send, recv, add_ep, rm_ep) and drops the hold;                *)
(*   - the closer: the thread that runs nn_sock_stop, gives up the hold    *)
(*     nn_sock_init created, and runs nn_sock_term;                        *)
(*   - the transport (external): it starts and stops the pipes of the      *)
(*     endpoints, reports nn_pipebase_received / nn_pipebase_sent, and     *)
(*     answers nn_ep_stop with NN_EP_STOPPED.                              *)
(*                                                                         *)
(* Everything between nn_ctx_enter and nn_ctx_leave runs under the mutex   *)
(* of the socket's context; such a section, the events it raises on that   *)
(* context and the onleave callback are one action, except the loop of     *)
(* nn_sock_shutdown, whose steps other threads can see because             *)
(* nn_efd_wait and nn_sock_hold do not take the mutex.  The protocol is    *)
(* external: it is reduced to the pipes it could receive from and send to. *)
(*                                                                         *)
(* Mis-typed identifiers are read as the declared name they stand for      *)
(* (nn_sock_onleae is nn_sock_onleave, nn_sock_em_ep is nn_sock_rm_ep).    *)
(***************************************************************************)
EXTENDS List, PipeBase, FiniteSets

CONSTANTS
    Callers,    \* application threads
    MaxEp,      \* endpoints are numbered by their eid, 1..MaxEp
    Dirs,       \* "IN" unless NN_SOCKTYPE_FLAG_NORECV, "OUT" unless .._NOSEND
    Features    \* what the environment does, see FeatureNames

FeatureNames ==
    {"remove",             \* applications call nn_sock_rm_ep
     "add_while_closing",  \* nn_sock_add_ep may run after nn_sock_stop
     "no_memory",          \* nn_alloc may return NULL
     "stop_callback"}      \* the protocol may have a stop function

ASSUME SockAssumption ==
    /\ IsFiniteSet(Callers)
    /\ MaxEp \in Nat
    /\ Dirs \subseteq {"IN", "OUT"} /\ Dirs # {}      \* sock.c:45
    /\ Features \subseteq FeatureNames

Ep  == 1..MaxEp
Dir == {"IN", "OUT"}

States == {"ACTIVE", "STOPPING_EPS", "STOPPING", "FINI"}

VARIABLES
    state,      \* sock->state
    lock,       \* the context's mutex: who holds it between actions
    flags,      \* NN_SOCK_FLAG_IN / NN_SOCK_FLAG_OUT
    open,       \* [Dir -> BOOLEAN]  rcvfd / sndfd refer to an eventfd
    count,      \* [Dir -> Nat]      the counters of the eventfds
    eps, sdeps, \* the two list heads
    link,       \* [Ep -> Links]     nn_ep.item
    ep,         \* [Ep -> ...]       life of struct nn_ep (external part)
    eid,        \* sock->eid, the next endpoint's number
    cursor,     \* `it' of the loop in nn_sock_shutdown
    pipe,       \* [Ep -> Pipes]     the connection of each endpoint
    ready,      \* [Dir -> SUBSET Ep] protocol: pipes it can use right now
    conns,      \* statistics.current_connections
    holds,      \* sock->holds
    termsem, relesem,
    pc, want,   \* callers: where they are, and the direction of the call
    closer,     \* where the closing thread is
    abort       \* the assertions that failed; the process is gone then

sockVars == <<state, flags, open, count, holds, termsem, relesem>>
epVars   == <<eps, sdeps, link, ep, eid, cursor>>
pipeVars == <<pipe, ready, conns>>
thrVars  == <<pc, want, closer>>
vars     == <<sockVars, epVars, pipeVars, thrVars, lock, abort>>

(* nn_sock_init up to and including the leave that follows nn_fsm_start.   *)
(* When an nn_efd_init fails it returns with nothing kept (lines 57-70).   *)
Init ==
    /\ state = "ACTIVE"
    /\ lock = "free"
    /\ flags = {}
    /\ open = [d \in Dir |-> d \in Dirs]
    /\ count = [d \in Dir |-> 0]
    /\ eps = EmptyList /\ sdeps = EmptyList
    /\ link = [e \in Ep |-> Unlinked]
    /\ ep = [e \in Ep |-> "none"]
    /\ eid = 1
    /\ cursor = NULL
    /\ pipe = [e \in Ep |-> PipeInit]
    /\ ready = [d \in Dir |-> {}]
    /\ conns = 0
    /\ holds = 1
    /\ termsem = 0 /\ relesem = 0
    /\ pc = [t \in Callers |-> "idle"]
    /\ want = [t \in Callers |-> "IN"]
    /\ closer = "open"
    /\ abort = {}
-----------------------------------------------------------------------------
Alive == abort = {}
Enter == Alive /\ lock = "free"

(* An assertion of the code that did not hold, by the line it is on. *)
Failed(line, ok) == IF ok THEN {} ELSE {line}

(* nn_efd_wait with a zero timeout: does poll report the eventfd readable? *)
Readable(d) == open[d] /\ count[d] > 0

(* The directions the protocol's events() reports; nn_sock_onleave looks   *)
(* at them only in the state ACTIVE and otherwise leaves the flags alone.  *)
OffersAnyState(st, fl, rd) == {d \in Dirs : rd[d] # {}}
Offers(st, fl, rd) == IF st = "ACTIVE" THEN {d \in Dirs : rd[d] # {}} ELSE fl

(* The eventfds to signal: those whose flag is not set yet. *)
SignalledAgain(now, fl) == now
Signalled(now, fl)      == now \ fl

(* nn_sock_onleave: bring flag and eventfd in line with what the protocol  *)
(* can do (its events()).  fl and rd are the flags and the protocol at the *)
(* end of the section, failed the assertions that failed in it.            *)
OnLeave(st, fl, rd, failed) ==
    LET now   == Offers(st, fl, rd)
        raise == Signalled(now, fl)
        clear == fl \ now
    IN  /\ flags' = now
        /\ count' = [d \in Dir |-> IF d \in raise /\ open[d] THEN count[d] + 1
                                   ELSE IF d \in clear /\ open[d] THEN 0
                                   ELSE count[d]]
        /\ abort' = abort \cup failed \cup
               UNION {Failed("nn_efd_unsignal", open[d] => count[d] > 0) : d \in clear}
        /\ ready' = rd

(* What nn_sock_shutdown does from its label finish2 on, given the list of *)
(* endpoints that still have to stop.                                      *)
DrainedAtOnce(sd) == TRUE
Drained(sd)       == ListEmpty(sd)

Finish2(sd) ==
    \/ ~Drained(sd) /\ state' = "STOPPING_EPS" /\ UNCHANGED termsem
    \/ /\ Drained(sd) /\ "stop_callback" \in Features
       /\ state' = "STOPPING" /\ UNCHANGED termsem
    \/ Drained(sd) /\ state' = "FINI" /\ termsem' = termsem + 1

Finish2Asserts(es, sd) == Failed("sock.c:775", Drained(sd) => ListEmpty(es))

(* Memory that has been given back to nn_free. *)
Dangling(S) == Failed("use after free", \A i \in S : i \in Ep => ep[i] # "freed")
-----------------------------------------------------------------------------
(* nn_sock_hold and nn_sock_rele, called outside the context.  A refused   *)
(* hold (EBADF) changes nothing.                                           *)
MayHoldAlways == TRUE
MayHold       == state = "ACTIVE"

Hold(t) ==
    /\ Alive
    /\ pc[t] = "idle"
    /\ MayHold
    /\ holds' = holds + 1
    /\ pc' = [pc EXCEPT ![t] = "held"]
    /\ UNCHANGED <<state, flags, open, count, termsem, relesem, epVars, pipeVars,
                   want, closer, lock, abort>>

LastHoldEarly == holds <= 2
LastHold      == holds = 1

DropHold ==
    /\ holds' = holds - 1
    /\ relesem' = IF LastHold THEN relesem + 1 ELSE relesem

Rele(t) ==
    /\ Alive
    /\ pc[t] = "done"
    /\ DropHold
    /\ pc' = [pc EXCEPT ![t] = "idle"]
    /\ want' = [want EXCEPT ![t] = "IN"]
    /\ UNCHANGED <<state, flags, open, count, termsem, epVars, pipeVars,
                   closer, lock, abort>>
-----------------------------------------------------------------------------
(* One turn of the loop of nn_sock_send ("OUT") / nn_sock_recv ("IN").     *)
(* fl are the flags the turn starts with.                                  *)
ClosedTurn(t, fl) ==
    /\ state # "ACTIVE"                                  \* EBADF
    /\ pc' = [pc EXCEPT ![t] = "done"]
    /\ OnLeave(state, fl, ready, {})
    /\ UNCHANGED pipe

TransferTurn(t, d, fl) ==
    /\ state = "ACTIVE"
    /\ \E e \in ready[d], sync \in BOOLEAN :
          LET may == IF d = "IN" THEN MayRecv(pipe[e]) ELSE MaySend(pipe[e])
          IN  /\ pipe' = [pipe EXCEPT ![e] = IF d = "IN" THEN PipeRecv(@, sync)
                                             ELSE PipeSend(@, sync)]
              /\ OnLeave(state, fl,
                         IF sync THEN ready ELSE [ready EXCEPT ![d] = @ \ {e}],
                         Failed("pipe.c:156,175", may))
    /\ pc' = [pc EXCEPT ![t] = "done"]

(* EAGAIN: return at once under NN_DONTWAIT (or when the protocol answers  *)
(* with an error of its own), go to nn_efd_wait otherwise.                 *)
EagainTurn(t, d, fl) ==
    /\ state = "ACTIVE"
    /\ ready[d] = {}
    /\ \E next \in {"wait", "done"} : pc' = [pc EXCEPT ![t] = next]
    /\ OnLeave(state, fl, ready, {})
    /\ UNCHANGED pipe

Turn(t, d, fl) ==
    /\ \/ ClosedTurn(t, fl)
       \/ TransferTurn(t, d, fl)
       \/ EagainTurn(t, d, fl)
    /\ UNCHANGED <<state, open, holds, termsem, relesem, epVars, conns, closer, lock>>

SendRecv(t, d) ==
    /\ Enter
    /\ pc[t] = "held"
    /\ want' = [want EXCEPT ![t] = d]
    /\ Turn(t, d, flags)

(* After nn_efd_wait returned 0: the flag is set when the eventfd is still *)
(* readable, and the loop goes round.                                      *)
Retry(t) ==
    /\ Enter
    /\ pc[t] = "woken"
    /\ LET d == want[t]
       IN  Turn(t, d, IF Readable(d) THEN flags \cup {d} ELSE flags)
    /\ UNCHANGED want

(* nn_efd_wait, outside the context.  It returns 0 when the eventfd is     *)
(* readable, EBADF when the eventfd is gone, ETIMEDOUT only when it is not *)
(* readable, and EINTR whenever a signal arrives.                          *)
WakeUp(t) ==
    /\ Alive
    /\ pc[t] = "wait"
    /\ Readable(want[t])
    /\ pc' = [pc EXCEPT ![t] = "woken"]
    /\ UNCHANGED <<sockVars, epVars, pipeVars, want, closer, lock, abort>>

GiveUp(t) ==
    /\ Alive
    /\ pc[t] = "wait"
    /\ pc' = [pc EXCEPT ![t] = "done"]
    /\ UNCHANGED <<sockVars, epVars, pipeVars, want, closer, lock, abort>>
-----------------------------------------------------------------------------
(* An endpoint's number is used up only when the endpoint came into being. *)
EidAfterAny(added) == eid + 1
EidAfter(added)    == IF added THEN eid + 1 ELSE eid

(* nn_sock_add_ep.  When nn_alloc fails it returns without nn_ctx_leave    *)
(* (line 443); when the transport refuses the address nothing remains.     *)
AddEp(t) ==
    /\ Enter
    /\ pc[t] = "held"
    /\ state = "ACTIVE" \/ "add_while_closing" \in Features
    /\ pc' = [pc EXCEPT ![t] = "done"]
    /\ \/ /\ "no_memory" \in Features
          /\ lock' = "leaked"
          /\ UNCHANGED <<flags, count, ready, abort, epVars>>
       \/ /\ eid' = EidAfter(FALSE)
          /\ OnLeave(state, flags, ready, {})
          /\ UNCHANGED <<lock, eps, sdeps, link, ep, cursor>>
       \/ /\ eid \in Ep
          /\ ep' = [ep EXCEPT ![eid] = "started"]
          /\ eid' = EidAfter(TRUE)
          /\ eps' = AppendHead(eps, eid)
          /\ link' = AppendLinks(eps, link, eid)
          /\ OnLeave(state, flags, ready, Dangling({eps.last}))
          /\ UNCHANGED <<sdeps, cursor, lock>>
    /\ UNCHANGED <<state, open, holds, termsem, relesem, pipe, conns, want, closer>>

(* nn_sock_rm_ep: look the number up in eps; EINVAL when it is not there.  *)
RmEp(t, e) ==
    /\ Enter
    /\ "remove" \in Features
    /\ pc[t] = "held"
    /\ pc' = [pc EXCEPT ![t] = "done"]
    /\ LET met    == Reachable(eps, link)
           after  == EraseLinks(link, e)
           unsafe == Dangling(met \cup {link[e].prev, link[e].next, sdeps.last})
       IN  \/ /\ e \notin met
              /\ OnLeave(state, flags, ready, Dangling(met))
              /\ UNCHANGED epVars
           \/ /\ e \in met
              /\ eps' = EraseHead(eps, link, e)
              /\ sdeps' = AppendHead(sdeps, e)
              /\ link' = AppendLinks(sdeps, after, e)
              /\ ep' = [ep EXCEPT ![e] = IF @ = "started" THEN "stopping" ELSE @]
              /\ OnLeave(state, flags, ready, unsafe)
              /\ UNCHANGED <<eid, cursor>>
    /\ UNCHANGED <<state, open, holds, termsem, relesem, pipe, conns, want,
                   closer, lock>>
-----------------------------------------------------------------------------
(* The transport starts a connection: nn_pipebase_init, nn_pipebase_start, *)
(* nn_sock_add.  The protocol may refuse the pipe.  NN_PIPE_OUT is         *)
(* processed before the context is left.                                   *)
StartPipe(e) ==
    /\ Enter
    /\ ep[e] = "started"
    /\ pipe[e] = PipeInit
    /\ \E added \in BOOLEAN :
          /\ pipe' = [pipe EXCEPT ![e] = PipeStart(@, added)]
          /\ conns' = IF added THEN conns + 1 ELSE conns
          /\ OnLeave(state, flags,
                     IF added /\ state = "ACTIVE"
                     THEN [ready EXCEPT !["OUT"] = @ \cup {e}] ELSE ready,
                     Failed("protocol used after destroy", state # "FINI"))
    /\ UNCHANGED <<state, open, holds, termsem, relesem, epVars, thrVars, lock>>

(* nn_pipebase_received and nn_pipebase_sent, called by the transport when *)
(* the asynchronous half of a recv or a send has finished.  The socket's   *)
(* handler passes the event to the protocol; nn_sock_shutdown drops it.    *)
Notify(e, d) ==
    /\ Enter
    /\ pipe[e].state = "ACTIVE"
    /\ IF d = "IN" THEN RaisesIn(pipe[e]) ELSE RaisesOut(pipe[e])
    /\ pipe' = [pipe EXCEPT ![e] = IF d = "IN" THEN PipeReceived(@) ELSE PipeSent(@)]
    /\ OnLeave(state, flags,
               IF state = "ACTIVE" THEN [ready EXCEPT ![d] = @ \cup {e}] ELSE ready, {})
    /\ UNCHANGED <<state, open, holds, termsem, relesem, epVars, conns, thrVars, lock>>

(* nn_pipebase_stop takes back only what nn_pipebase_start added. *)
CountedAny(p) == TRUE
Counted(p)    == p.state = "ACTIVE"

(* nn_pipebase_stop, nn_sock_rm, nn_pipebase_term. *)
StopPipe(e) ==
    /\ Enter
    /\ pipe[e].state # "IDLE"
    /\ LET added == Counted(pipe[e])
       IN  /\ pipe' = [pipe EXCEPT ![e] = PipeInit]
           /\ conns' = IF added THEN conns - 1 ELSE conns
           /\ OnLeave(state, flags, [d \in Dir |-> ready[d] \ {e}],
                      Failed("sock.c:924", added => conns >= 1))
    /\ UNCHANGED <<state, open, holds, termsem, relesem, epVars, thrVars, lock>>

(* NN_EP_STOPPED reaches the socket.  nn_sock_handler erases the endpoint  *)
(* from eps (line 830), nn_sock_shutdown from sdeps (line 768).            *)
EpStoppedActive(e) ==
    /\ state = "ACTIVE"
    /\ eps' = EraseHead(eps, link, e)
    /\ OnLeave(state, flags, ready, Dangling({link[e].prev, link[e].next}))
    /\ UNCHANGED <<sdeps, state, termsem>>

EpStoppedStopping(e) ==
    /\ state = "STOPPING_EPS"
    /\ sdeps' = EraseHead(sdeps, link, e)
    /\ Finish2(sdeps')
    /\ OnLeave(state', flags, ready,
               Dangling({link[e].prev, link[e].next}) \cup Finish2Asserts(eps, sdeps'))
    /\ UNCHANGED eps

EpStopped(e) ==
    /\ Enter
    /\ ep[e] = "stopping"
    /\ pipe[e].state = "IDLE"
    /\ ep' = [ep EXCEPT ![e] = "freed"]
    /\ link' = EraseLinks(link, e)
    /\ EpStoppedActive(e) \/ EpStoppedStopping(e)
    /\ UNCHANGED <<open, holds, relesem, eid, cursor, pipe, conns, thrVars, lock>>

(* The protocol's stop has finished: nn_sockbase_stopped, nn_sock_stopped. *)
(* Line 129 compares instead of assigning, so the event keeps the source   *)
(* nn_fsm_event_init gave it, -1, and not NN_FSM_ACTION.                   *)
StoppedEventSrc == -1
FsmAction       == -2

ProtocolStopped ==
    /\ Enter
    /\ state = "STOPPING"
    /\ state' = "FINI"
    /\ termsem' = termsem + 1
    /\ OnLeave(state', flags, ready, Failed("sock.c:784", StoppedEventSrc = FsmAction))
    /\ UNCHANGED <<open, holds, relesem, epVars, pipe, conns, thrVars, lock>>
-----------------------------------------------------------------------------
(* nn_sock_stop, in the steps of nn_sock_shutdown on NN_FSM_STOP: stop the *)
(* eventfds; move the endpoints to sdeps and stop them one by one; then    *)
(* change the state and leave.                                             *)
(* nn_efd_stop on both eventfds, sock.c:745-750. *)
EfdStopRecvOnly == [count EXCEPT !["IN"] = IF open["IN"] THEN @ + 1 ELSE @]
EfdStop         == [d \in Dir |-> IF open[d] THEN count[d] + 1 ELSE count[d]]

StopBegin ==
    /\ Enter
    /\ closer = "open"
    /\ closer' = "stopping"
    /\ lock' = "closer"
    /\ abort' = Failed("sock.c:743", state = "ACTIVE")
    /\ count' = EfdStop
    /\ cursor' = eps.first
    /\ UNCHANGED <<state, flags, open, holds, termsem, relesem, eps, sdeps, link, ep,
                   eid, pipeVars, pc, want>>

StopEp ==
    /\ Alive
    /\ closer = "stopping"
    /\ cursor \in Ep
    /\ eps' = EraseHead(eps, link, cursor)
    /\ sdeps' = AppendHead(sdeps, cursor)
    /\ link' = AppendLinks(sdeps, EraseLinks(link, cursor), cursor)
    /\ ep' = [ep EXCEPT ![cursor] = IF @ = "started" THEN "stopping" ELSE @]
    /\ cursor' = link[cursor].next
    /\ abort' = Failed("list.c:70", IsInList(link, cursor)) \cup
                Dangling({cursor, link[cursor].prev, link[cursor].next, sdeps.last})
    /\ UNCHANGED <<sockVars, eid, pipeVars, thrVars, lock>>

StopEnd ==
    /\ Alive
    /\ closer = "stopping"
    /\ cursor \notin Ep
    /\ closer' = "stopped"
    /\ lock' = "free"
    /\ Finish2(sdeps)
    /\ OnLeave(state', flags, ready, Finish2Asserts(eps, sdeps))
    /\ UNCHANGED <<open, holds, relesem, epVars, pipe, conns, pc, want>>

(* The closer drops the hold of nn_sock_init, then runs nn_sock_term: it   *)
(* waits for termsem and relesem (EINTR is retried), passes through the    *)
(* context once more and destroys what is left.                            *)
CloserRele ==
    /\ Alive
    /\ closer = "stopped"
    /\ closer' = "term"
    /\ DropHold
    /\ UNCHANGED <<state, flags, open, count, termsem, epVars, pipeVars, pc, want,
                   lock, abort>>

AwaitTermsem ==
    /\ Alive
    /\ closer = "term" /\ termsem > 0
    /\ closer' = "term_rele"
    /\ termsem' = termsem - 1
    /\ UNCHANGED <<state, flags, open, count, holds, relesem, epVars, pipeVars, pc,
                   want, lock, abort>>

AwaitRelesem ==
    /\ Alive
    /\ closer = "term_rele" /\ relesem > 0
    /\ closer' = "term_free"
    /\ relesem' = relesem - 1
    /\ UNCHANGED <<state, flags, open, count, holds, termsem, epVars, pipeVars, pc,
                   want, lock, abort>>

TermFree ==
    /\ Enter
    /\ closer = "term_free"
    /\ closer' = "closed"
    /\ open' = [d \in Dir |-> FALSE]
    /\ abort' = Failed("list.c:16", ListTermOK(eps) /\ ListTermOK(sdeps))
    /\ UNCHANGED <<state, flags, count, holds, termsem, relesem, epVars, pipeVars, pc,
                   want, lock>>

(* Nothing is left to do once the socket is closed or the process is gone. *)
Finished ==
    /\ closer = "closed" \/ ~Alive
    /\ UNCHANGED vars
-----------------------------------------------------------------------------
Caller(t) ==
    \/ Hold(t) \/ Rele(t) \/ Retry(t) \/ WakeUp(t) \/ GiveUp(t) \/ AddEp(t)
    \/ \E d \in Dirs : SendRecv(t, d)
    \/ \E e \in Ep : RmEp(t, e)

Transport(e) ==
    StartPipe(e) \/ Notify(e, "IN") \/ Notify(e, "OUT") \/ StopPipe(e) \/ EpStopped(e)

Closer ==
    StopBegin \/ StopEp \/ StopEnd \/ CloserRele \/ AwaitTermsem \/ AwaitRelesem
    \/ TermFree

Next ==
    \/ \E t \in Callers : Caller(t)
    \/ \E e \in Ep : Transport(e)
    \/ ProtocolStopped
    \/ Closer
    \/ Finished

Spec == Init /\ [][Next]_vars
-----------------------------------------------------------------------------
(* Fairness.  A thread that has entered the library goes on (the sections  *)
(* are finite, and the mutex is held across actions only by the closer's   *)
(* loop, which ends); a thread blocked in nn_efd_wait leaves it when the   *)
(* eventfd stays readable.  The transport finishes what nn_ep_stop asked   *)
(* for.  Nothing makes a thread enter, be interrupted, or a pipe move.     *)
Call(t) == (\E d \in Dirs : SendRecv(t, d)) \/ AddEp(t)

Fairness ==
    /\ \A t \in Callers : /\ WF_vars(Call(t)) /\ WF_vars(Retry(t))
                          /\ WF_vars(WakeUp(t)) /\ WF_vars(Rele(t))
    /\ \A e \in Ep : /\ WF_vars(ep[e] = "stopping" /\ StopPipe(e))
                     /\ WF_vars(EpStopped(e))
    /\ WF_vars(ProtocolStopped)
    /\ WF_vars(Closer)

FairSpec == Spec /\ Fairness
-----------------------------------------------------------------------------
TypeOK ==
    /\ state \in States
    /\ lock \in {"free", "closer", "leaked"}
    /\ flags \subseteq Dir
    /\ open \in [Dir -> BOOLEAN]
    /\ count \in [Dir -> Nat]
    /\ eps \in ListHead(Ep) /\ sdeps \in ListHead(Ep)
    /\ link \in [Ep -> Links(Ep)]
    /\ ep \in [Ep -> {"none", "started", "stopping", "freed"}]
    /\ eid \in 1..MaxEp + 1
    /\ cursor \in Ep \cup {NULL, NOTINLIST}
    /\ pipe \in [Ep -> Pipes]
    /\ ready \in [Dir -> SUBSET Ep]
    /\ conns \in Int
    /\ holds \in Int
    /\ termsem \in Nat /\ relesem \in Nat
    /\ pc \in [Callers -> {"idle", "held", "wait", "woken", "done"}]
    /\ want \in [Callers -> Dir]
    /\ closer \in {"open", "stopping", "stopped", "term", "term_rele", "term_free",
                   "closed"}

(* Until the socket is being closed, an application that polls or blocks   *)
(* on one of the two eventfds sees exactly what the protocol can do: it is *)
(* readable iff some pipe can be received from (sent to), and its counter  *)
(* never builds up.  This is what lets nn_sock_onleave unsignal without    *)
(* reading an empty eventfd, and what keeps a sleeper from missing a       *)
(* message.                                                                *)
EfdFollowsProtocol ==
    closer = "open" =>
        \A d \in Dirs : count[d] = IF ready[d] = {} THEN 0 ELSE 1

(* After nn_efd_stop the eventfds stay readable until nn_sock_term takes   *)
(* them away: no pipe event, flag or late leave may drain the signal that  *)
(* a blocked sender or receiver needs to find out (sock.c:544-566).        *)
StopStaysVisible ==
    closer # "open" => \A d \in Dirs : open[d] => count[d] > 0

(* A thread between nn_sock_hold and nn_sock_rele finds the eventfds open: *)
(* nn_sock_term waits for relesem before it closes them.                   *)
UsersPinSocket ==
    \A t \in Callers : pc[t] # "idle" => \A d \in Dirs : open[d]

(* When the protocol is stopped or destroyed nothing can call it any more: *)
(* no endpoint is left, no pipe is attached, none is counted.              *)
DrainedBeforeDestroy ==
    Alive /\ state \in {"STOPPING", "FINI"} =>
        /\ \A e \in Ep : ep[e] \in {"none", "freed"} /\ pipe[e].state = "IDLE"
        /\ \A d \in Dir : ready[d] = {}
        /\ conns = 0

(* No assertion of sock.c, pipe.c, list.c or efd fails and no freed memory *)
(* is touched.                                                             *)
NoAssertionFails == Alive

(* Closing completes: once nn_sock_stop has been entered, nn_sock_term     *)
(* returns, whatever the other threads were blocked in.                    *)
CloseCompletes == closer # "open" ~> closer = "closed"

(* nn_list_term(&self->sdeps), nn_list_term(&self->eps) (sock.c:179) assert *)
(* empty lists: with no endpoint allocated both heads are NULL.            *)
ListsEmptyWithoutEndpoints ==
    (\A e \in Ep : ep[e] \in {"none", "freed"}) => ListTermOK(eps) /\ ListTermOK(sdeps)

(* nn_assert(nn_list_empty(&sock->eps)) (sock.c:775): when the last of the *)
(* endpoints that nn_sock_shutdown moved to sdeps has gone, eps is empty.  *)
EpsEmptyWhenDrained == "sock.c:775" \notin abort
-----------------------------------------------------------------------------
(* The socket implements SockLife: who is inside is who has not dropped    *)
(* its hold, and the phases are those of state and of the closer.          *)
Life == INSTANCE SockLife WITH
    Users       <- Callers,
    MaxEndpoint <- MaxEp,
    phase       <- IF closer = "closed" THEN "closed"
                   ELSE IF state = "FINI" THEN "drained"
                   ELSE IF state = "ACTIVE" THEN "open" ELSE "draining",
    inside      <- {t \in Callers : pc[t] # "idle"},
    live        <- {e \in Ep : ep[e] \in {"started", "stopping"}},
    next        <- eid

(* Every step of the code is a step the promise allows, or none at all:    *)
(* no newcomer after the shutdown, no number given twice, no destruction   *)
(* under a user or before the last endpoint is gone.                       *)
LifeSpec == Life!LifeSpec
=============================================================================
