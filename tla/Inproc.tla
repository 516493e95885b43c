------------------------------- MODULE Inproc -------------------------------
(***************************************************************************)
(* transports/inproc: the registry of addresses (ins.c) and the endpoints  *)
(* bound to them (binproc.c) or connected to them (cinproc.c), of several  *)
(* sockets.  An endpoint keeps a list of connections, the struct           *)
(* nn_sinproc; module Sinproc has both ends of one connection with its     *)
(* messages, here an end is only its state.                                *)
(*                                                                         *)
(* An action is what a thread does under the lock of one socket's context. *)
(* The registry has a lock of its own, taken inside the context's; under   *)
(* it nothing but queues of that context is touched, so that the section   *)
(* stays one action.  Events for another context are carried by the thread *)
(* that raised them, as module Ctx has it: what it raises while delivering *)
(* an event goes out before what it still had, so hand[t] is a stack.      *)
(* Taking an event off a queue and handling it are one step here (Sinproc  *)
(* has them apart); the protocol takes every pipe.                         *)
(*                                                                         *)
(* Three lines of cinproc.c do something else than the same lines of       *)
(* binproc.c; slips says which of them are read as they are written.       *)
(***************************************************************************)
EXTENDS Integers, FiniteSets, SequencesExt

CONSTANTS
    Threads,
    CallerSets,         \* who makes calls: a set of subsets of Threads
    Binder, Connector,  \* endpoints given to nn_bind, to nn_connect
    Socket, Addr,       \* [Ep -> ...] whose endpoint it is, and its address
    Protos,             \* the protocols of the sockets: a set of functions
    SlipSets            \* a set of subsets of Slip

Ep   == Binder \cup Connector
Slip == {"cinproc.c:81", "cinproc.c:96", "cinproc.c:121"}

ASSUME InprocAssumption ==
    /\ IsFiniteSet(Threads) /\ CallerSets \subseteq SUBSET Threads
    /\ SlipSets \subseteq SUBSET Slip
    /\ Binder \cap Connector = {} /\ IsFiniteSet(Ep)
    /\ DOMAIN Socket = Ep /\ DOMAIN Addr = Ep
    /\ \A p \in Protos : DOMAIN p = {Socket[e] : e \in Ep}

(* An end of a connection: whose it is, to whom it leads, and whether      *)
(* nn_sinproc_connect or nn_sinproc_accept made it.                        *)
Ends       == [own : Ep, oth : Ep, role : {"conn", "acc"}]
ConnEnd(e, p) == [own |-> e, oth |-> p, role |-> "conn"]
ConnEnds(e, s) == [i \in DOMAIN s |-> ConnEnd(e, s[i])]
Partner(x) == [own |-> x.oth, oth |-> x.own,
               role |-> IF x.role = "conn" THEN "acc" ELSE "conn"]

EndStates == {"NONE", "CONNECTING", "READY", "ACTIVE", "DISCONNECTED", "STOPPING_PEER",
              "FREED"}
Handshake == {"CONNECT", "READY", "ACCEPTED"}
Events    == [type : Handshake \cup {"DISCONNECT"}, to : Ends]

VARIABLES
    callers, slips, proto,  \* elements of CallerSets, SlipSets, Protos; never change
    ep,         \* [Ep -> {"none", "ACTIVE", "STOPPING", "gone"}]
    bound,      \* SUBSET Binder           self.bound
    connected,  \* Seq(Connector)          self.connected
    sinprocs,   \* [Ep -> Seq(Ends)]       the endpoint's list
    end,        \* [Ends -> EndStates]     fsm and state of a sinproc
    hand,       \* [Threads -> Seq(Events)]
    inprogress, \* [sockets -> Nat]        NN_STAT_INPROGRESS_CONNECTIONS
    abort       \* failed assertions, by line

envVars == <<callers, slips, proto>>
vars    == <<envVars, ep, bound, connected, sinprocs, end, hand, inprogress, abort>>

Sockets == {Socket[e] : e \in Ep}

Init ==
    /\ callers \in CallerSets /\ slips \in SlipSets /\ proto \in Protos
    /\ ep = [e \in Ep |-> "none"]
    /\ bound = {} /\ connected = <<>>
    /\ sinprocs = [e \in Ep |-> <<>>]
    /\ end = [x \in Ends |-> "NONE"]
    /\ hand = [t \in Threads |-> <<>>]
    /\ inprogress = [s \in Sockets |-> 0]
    /\ abort = {}
-----------------------------------------------------------------------------
Alive == abort = {}

Failed(line, ok) == IF ok THEN {} ELSE {line}

(* nn_list_erase; and the members of s that are in S, one after the other. *)
Without(s, x) == RemoveFirst(s, x)

Chosen(s, S) ==
    LET kept[i \in 0..Len(s)] ==
            IF i = 0 THEN <<>>
            ELSE IF s[i] \in S THEN Append(kept[i - 1], s[i]) ELSE kept[i - 1]
    IN  kept[Len(s)]

(* A thread makes calls when it carries nothing. *)
Calls(t) == Alive /\ t \in callers /\ hand[t] = <<>>

Event(type, x)  == [type |-> type, to |-> x]
ToPartners(type, made) == [i \in DOMAIN made |-> Event(type, Partner(made[i]))]
Carry(t, s)     == [hand EXCEPT ![t] = s]
Handled(t, s)   == [hand EXCEPT ![t] = s \o Tail(@)]

SameAddr(e, p) == Addr[e] = Addr[p]
IsPeer(e, p)   == proto[Socket[e]] = proto[Socket[p]]   \* nn_ep_ispeer_ep

(* nn_ep_stat_increment(INPROGRESS) by -1, asserted first at sock.c:930. *)
LessUnchecked(e) == [inprogress EXCEPT ![Socket[e]] = @ - 1]
LessInProgress(e) ==
    IF inprogress[Socket[e]] >= 1 THEN [inprogress EXCEPT ![Socket[e]] = @ - 1] ELSE inprogress
MoreInProgress(e) == [inprogress EXCEPT ![Socket[e]] = @ + 1]
-----------------------------------------------------------------------------
(* nn_binproc_create and nn_ins_bind, with nn_binproc_connect for each     *)
(* connected endpoint of the address.  A refused endpoint is gone at once. *)
AddrInUse(e) == \E b \in bound : SameAddr(e, b)

FirstWaiting(e) == LET w == Chosen(connected, {c \in Connector : SameAddr(e, c)})
                   IN  IF w # <<>> /\ IsPeer(e, Head(w)) THEN <<Head(w)>> ELSE <<>>
Waiting(e)      == Chosen(connected, {c \in Connector : SameAddr(e, c) /\ IsPeer(e, c)})

BindRefused(t, e) ==
    /\ Calls(t) /\ e \in Binder /\ ep[e] = "none"
    /\ AddrInUse(e)
    /\ ep' = [ep EXCEPT ![e] = "gone"]
    /\ UNCHANGED <<bound, connected, sinprocs, end, hand, inprogress, abort>>

Bind(t, e) ==
    LET made == ConnEnds(e, Waiting(e))
    IN  /\ Calls(t) /\ e \in Binder /\ ep[e] = "none"
        /\ ~AddrInUse(e)
        /\ ep' = [ep EXCEPT ![e] = "ACTIVE"]
        /\ bound' = bound \cup {e}
        /\ sinprocs' = [sinprocs EXCEPT ![e] = made]
        /\ end' = [x \in Ends |-> IF Contains(made, x) THEN "CONNECTING" ELSE end[x]]
        /\ hand' = Carry(t, ToPartners("CONNECT", made))
        /\ UNCHANGED <<connected, inprogress, abort>>

(* nn_cinproc_create and nn_ins_connect: the first endpoint bound to the   *)
(* address, if it is a peer, is given to nn_cinproc_connect.  That one     *)
(* takes the peer from the pointer to itself (line 81), and counts an      *)
(* established connection with -1 (line 96, against sock.c:879).           *)
Listening(e) == {b \in bound : SameAddr(e, b) /\ IsPeer(e, b)}

TargetItself(e, b) == e
Target(e, b)       == IF "cinproc.c:81" \in slips THEN e ELSE b

LessOne(e)   == -1
Increment(e) == IF "cinproc.c:96" \in slips THEN -1 ELSE 1

ConnectAlone(t, e) ==
    /\ Calls(t) /\ e \in Connector /\ ep[e] = "none"
    /\ Listening(e) = {}
    /\ ep' = [ep EXCEPT ![e] = "ACTIVE"]
    /\ connected' = Append(connected, e)
    /\ inprogress' = MoreInProgress(e)
    /\ UNCHANGED <<bound, sinprocs, end, hand, abort>>

Connect(t, e) ==
    /\ Calls(t) /\ e \in Connector /\ ep[e] = "none"
    /\ ep' = [ep EXCEPT ![e] = "ACTIVE"]
    /\ connected' = Append(connected, e)
    /\ \E b \in Listening(e) :
          LET x == ConnEnd(e, Target(e, b))
          IN  /\ sinprocs' = [sinprocs EXCEPT ![e] = <<x>>]
              /\ end' = [end EXCEPT ![x] = "CONNECTING"]
              /\ hand' = Carry(t, <<Event("CONNECT", Partner(x))>>)
    /\ abort' = Failed("sock.c:879", Increment(e) > 0)
    /\ UNCHANGED <<bound, inprogress>>
-----------------------------------------------------------------------------
(* binproc.c:111-136, cinproc.c:109-132: the endpoint leaves the registry, *)
(* every connection is stopped, and when the list is empty the endpoint    *)
(* has stopped; its socket frees it in the same section.  An end that is   *)
(* DISCONNECTED stops at once; any other one tells its peer, which it does *)
(* not know before it has heard of it.  One that stops already is left.    *)
ToldAll(e) == sinprocs[e]
Told(e) == Chosen(sinprocs[e], {x \in Ends : end[x] \in {"CONNECTING", "READY", "ACTIVE"}})
Left(e) == Chosen(sinprocs[e], {x \in Ends : end[x] # "DISCONNECTED"})

AfterStop(st) ==
    CASE st \in {"CONNECTING", "READY", "ACTIVE"} -> "STOPPING_PEER"
      [] st = "DISCONNECTED" -> "FREED"
      [] OTHER -> st

(* nn_sinproc_shutdown asserts, when the ends in S have stopped, that what *)
(* they raised in the handshake is in no queue (their peers' to handle).   *)
UnderWay(x) ==
    \E u \in Threads, type \in Handshake : Contains(hand[u], Event(type, x))

StopAsserts(S) == Failed("sinproc.c:236", \A x \in S : ~UnderWay(Partner(x)))

StillRegistered(e)  == bound
Unregistered(e)     == bound \ {e}

(* cinproc.c:121-122: erased is not what stopped. *)
ErasesOther(e) == Failed("cinproc.c:122", e \notin Connector)
Erases(e)      == Failed("cinproc.c:122", e \in Connector => "cinproc.c:121" \notin slips)

Stop(t, e) ==
    /\ Calls(t) /\ ep[e] = "ACTIVE"
    /\ bound' = Unregistered(e)
    /\ connected' = Without(connected, e)
    /\ end' = [x \in Ends |-> IF Contains(sinprocs[e], x) THEN AfterStop(end[x]) ELSE end[x]]
    /\ sinprocs' = [sinprocs EXCEPT ![e] = Left(e)]
    /\ ep' = [ep EXCEPT ![e] = IF Left(e) = <<>> THEN "gone" ELSE "STOPPING"]
    /\ hand' = Carry(t, ToPartners("DISCONNECT", Told(e)))
    /\ abort' = Failed("peer_freed",
                       \A i \in DOMAIN Told(e) :
                          /\ end[Told(e)[i]] # "CONNECTING"
                          /\ end[Partner(Told(e)[i])] # "FREED")
                \cup StopAsserts({x \in ToSet(sinprocs[e]) : end[x] = "DISCONNECTED"})
                \cup (IF Left(e) = sinprocs[e] THEN {} ELSE Erases(e))
    /\ UNCHANGED inprogress

(* The end x has stopped: its owner erases and frees it. *)
NeverLast(e, s) == FALSE
LastOne(e, s)  == ep[e] = "STOPPING" /\ s = <<>>

Release(x) ==
    LET left == Without(sinprocs[x.own], x)
    IN  /\ end' = [end EXCEPT ![x] = "FREED"]
        /\ sinprocs' = [sinprocs EXCEPT ![x.own] = left]
        /\ ep' = [ep EXCEPT ![x.own] = IF LastOne(x.own, left) THEN "gone" ELSE @]
-----------------------------------------------------------------------------
(* NN_SINPROC_CONNECT at the endpoint x.own.  An active one accepts; one   *)
(* that is stopping takes the event for an end of its own that stopped.    *)
Accept(t, x) ==
    /\ ep[x.own] = "ACTIVE"
    /\ end' = [end EXCEPT ![x] = "READY"]
    /\ sinprocs' = [sinprocs EXCEPT ![x.own] = Append(@, x)]
    /\ hand' = Handled(t, <<Event("READY", Partner(x))>>)
    /\ IF x.own \in Connector
       THEN /\ inprogress' = LessInProgress(x.own)
            /\ abort' = Failed("sock.c:930", inprogress[Socket[x.own]] >= 1)
       ELSE UNCHANGED <<inprogress, abort>>
    /\ UNCHANGED <<ep, bound, connected>>

TooLate(t, x) ==
    /\ ep[x.own] = "STOPPING"
    /\ hand' = Handled(t, <<>>)
    /\ abort' = {IF x.own \in Binder THEN "binproc.c:122" ELSE "cinproc.c:122"}
    /\ UNCHANGED <<ep, bound, connected, sinprocs, end, inprogress>>

(* sinproc.c:288-297, 319-331. *)
Ready(t, x) ==
    /\ end[x] = "CONNECTING"
    /\ end' = [end EXCEPT ![x] = "ACTIVE"]
    /\ hand' = Handled(t, <<Event("ACCEPTED", Partner(x))>>)
    /\ UNCHANGED <<ep, bound, connected, sinprocs, inprogress, abort>>

Accepted(t, x) ==
    /\ end[x] = "READY"
    /\ end' = [end EXCEPT ![x] = "ACTIVE"]
    /\ hand' = Handled(t, <<>>)
    /\ UNCHANGED <<ep, bound, connected, sinprocs, inprogress, abort>>

(* sinproc.c:374-384 and the owner: binproc.c:198 stops the end, which is  *)
(* DISCONNECTED and so done at once; cinproc.c:194 keeps it and counts.    *)
NoAnswer(x) == <<>>
Answer(x)   == <<Event("DISCONNECT", Partner(x))>>

Disconnected(t, x) ==
    /\ end[x] = "ACTIVE"
    /\ hand' = Handled(t, Answer(x))
    /\ abort' = Failed("peer_freed", end[Partner(x)] # "FREED")
                \cup (IF x.own \in Binder THEN StopAsserts({x}) ELSE {})
    /\ IF x.own \in Binder
       THEN Release(x) /\ UNCHANGED inprogress
       ELSE /\ end' = [end EXCEPT ![x] = "DISCONNECTED"]
            /\ inprogress' = MoreInProgress(x.own)
            /\ UNCHANGED <<sinprocs, ep>>
    /\ UNCHANGED <<bound, connected>>

(* sinproc.c:190-202: a stopping end waits for DISCONNECT only. *)
PeerStopped(t, x) ==
    /\ end[x] = "STOPPING_PEER"
    /\ hand' = Handled(t, <<>>)
    /\ Release(x)
    /\ abort' = StopAsserts({x}) \cup Erases(x.own)
    /\ UNCHANGED <<bound, connected, inprogress>>

Ignored(t, x) ==
    /\ end[x] = "STOPPING_PEER"
    /\ hand' = Handled(t, <<>>)
    /\ UNCHANGED <<ep, bound, connected, sinprocs, end, inprogress, abort>>

(* nn_fsm_bad_action of the state. *)
Expected ==
    [CONNECTING |-> {"READY"}, READY |-> {"ACCEPTED"}, ACTIVE |-> {"DISCONNECT"},
     DISCONNECTED |-> {}, STOPPING_PEER |-> Handshake \cup {"DISCONNECT"}]

BadAction(t, x, type) ==
    /\ type \notin Expected[end[x]]
    /\ hand' = Handled(t, <<>>)
    /\ abort' = {"nn_fsm_bad_action"}
    /\ UNCHANGED <<ep, bound, connected, sinprocs, end, inprogress>>

(* The event is for freed memory, or in it: the handshake is carried by    *)
(* the raiser's event_connect.                                             *)
InFreed(x, type) ==
    \/ IF type = "CONNECT" THEN ep[x.own] = "gone" ELSE end[x] = "FREED"
    \/ type \in Handshake /\ end[Partner(x)] = "FREED"

Stray(t) ==
    /\ hand' = Handled(t, <<>>)
    /\ abort' = {"event_in_freed"}
    /\ UNCHANGED <<ep, bound, connected, sinprocs, end, inprogress>>

Handle(t, x, type) ==
    CASE type = "CONNECT"    -> Accept(t, x) \/ TooLate(t, x)
      [] type = "READY"      -> Ready(t, x) \/ Ignored(t, x) \/ BadAction(t, x, type)
      [] type = "ACCEPTED"   -> Accepted(t, x) \/ Ignored(t, x) \/ BadAction(t, x, type)
      [] type = "DISCONNECT" -> Disconnected(t, x) \/ PeerStopped(t, x) \/ BadAction(t, x, type)

(* ctx.c:53-63 *)
Deliver(t) ==
    /\ Alive /\ hand[t] # <<>>
    /\ LET x == Head(hand[t]).to
           type == Head(hand[t]).type
       IN  IF InFreed(x, type) THEN Stray(t) ELSE Handle(t, x, type)

Finished ==
    /\ ~Alive \/ \A t \in Threads : hand[t] = <<>>
    /\ UNCHANGED vars

Step ==
    \/ \E t \in Threads, e \in Ep :
          BindRefused(t, e) \/ Bind(t, e) \/ ConnectAlone(t, e) \/ Connect(t, e) \/ Stop(t, e)
    \/ \E t \in Threads : Deliver(t)

Next == (Step /\ UNCHANGED envVars) \/ Finished

Spec == Init /\ [][Next]_vars

(* A thread delivers what it carries; nobody has to bind, connect or stop. *)
FairSpec ==
    Spec /\ \A t \in Threads : WF_vars(Deliver(t) /\ UNCHANGED envVars)
-----------------------------------------------------------------------------
TypeOK ==
    /\ ep \in [Ep -> {"none", "ACTIVE", "STOPPING", "gone"}]
    /\ bound \subseteq Binder /\ connected \in Seq(Connector)
    /\ sinprocs \in [Ep -> Seq(Ends)]
    /\ end \in [Ends -> EndStates]
    /\ hand \in [Threads -> Seq(Events)]
    /\ inprogress \in [Sockets -> Nat]

(* The registry names exactly the endpoints that can accept, no address is *)
(* bound twice, and an endpoint that is gone has left no end behind that   *)
(* is not freed.                                                           *)
RegistryTrue ==
    /\ \A e \in Ep : ep[e] = "ACTIVE" <=> e \in bound \/ Contains(connected, e)
    /\ \A b, c \in bound : SameAddr(b, c) => b = c
    /\ \A x \in Ends : ep[x.own] \in {"none", "gone"} => end[x] \in {"NONE", "FREED"}

(* Whichever of the two came first, an endpoint bound to an address and a  *)
(* peer connected to it are in the middle of exactly one connection, and   *)
(* others of none.                                                         *)
Registered(b, c) == b \in bound /\ Contains(connected, c)

OneConnection ==
    slips = {} =>
        \A b \in Binder, c \in Connector :
            LET made == {x \in {ConnEnd(b, c), ConnEnd(c, b)} : end[x] # "NONE"}
            IN  IF SameAddr(b, c) /\ IsPeer(b, c)
                THEN /\ Cardinality(made) <= 1
                     /\ Registered(b, c) => made # {}
                ELSE made = {}

(* When no event is under way, the two ends of a connection agree: both    *)
(* active if both endpoints are, and otherwise the one that is left knows. *)
SettledEndsAgree ==
    Alive /\ (\A t \in Threads : hand[t] = <<>>) =>
        \A x \in Ends : end[x] # "NONE" =>
            IF ep[x.own] = "ACTIVE" /\ ep[x.oth] = "ACTIVE"
            THEN end[x] = "ACTIVE" /\ end[Partner(x)] = "ACTIVE"
            ELSE end[x] \in {"DISCONNECTED", "FREED"}

(* With one thread, and cinproc.c doing what binproc.c does, no assertion  *)
(* and no bad action is met and nothing freed is used.                     *)
NoAssertionFails == Cardinality(callers) <= 1 /\ slips = {} => Alive

(* An endpoint that was told to stop does stop, unless an assertion fails. *)
StopCompletes == \A e \in Ep : ep[e] = "STOPPING" ~> ep[e] = "gone" \/ ~Alive
=============================================================================
