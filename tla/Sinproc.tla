------------------------------- MODULE Sinproc -------------------------------
(***************************************************************************)
(* transports/inproc/sinproc.c: one in-process connection, that is the two *)
(* struct nn_sinproc at its ends.  Each end lives in the context of its    *)
(* own socket; an action is what a thread does to one end while it holds   *)
(* the lock of that context.                                               *)
(*                                                                         *)
(* The ends talk by events raised to the other context.  aio/ctx.c (module *)
(* Ctx) lets the thread that raised an event carry it: having unlocked the *)
(* one context it takes the event off its queue, and only then locks the   *)
(* other context and handles it.  No section here raises more than one, so *)
(* hand[t] is what thread t carries: nothing or one event.  Two threads    *)
(* may carry events to the same end, and either may come first.  An event  *)
(* taken off its queue is popped: nn_fsm_event_active answers 0 for it     *)
(* (ctx.c:55), although it has not been handled yet.                       *)
(*                                                                         *)
(* The end "conn" was made by nn_sinproc_connect, the end "acc" by         *)
(* nn_sinproc_accept.  The latter is declared in sinproc.h and has no body *)
(* in the repository; what it does is read off the handshake its callers   *)
(* and the handlers expect: peer set, start, READY raised to the peer,     *)
(* action READY (the tail of nn_sinproc_connect has these last calls,      *)
(* lines 83-84, where they do not belong: see StartsTwice).                *)
(*                                                                         *)
(* The owner of an end is a binproc or a cinproc; what it does about       *)
(* NN_SINPROC_DISCONNECT and NN_SINPROC_STOPPED happens in the same        *)
(* section, so it is part of the action.                                   *)
(***************************************************************************)
EXTENDS PipeBase, Integers, Sequences, FiniteSets

CONSTANTS
    Threads,
    Users,       \* who makes calls on which socket: a set of [Threads -> SUBSET Side]
    Refusing,    \* whether the protocol may refuse the pipe: a set of Booleans
    Owner,       \* [Side -> {"binproc", "cinproc"}]
    MaxMsg,      \* bound: messages sent per direction
    Limit,       \* the receive buffer; every message has size 1
    StartsTwice  \* whether nn_sinproc_connect starts its machine twice, as it is
                 \* written: a set of Booleans

Side     == {"conn", "acc"}
Other(s) == IF s = "conn" THEN "acc" ELSE "conn"

ASSUME SinprocAssumption ==
    /\ Users \subseteq [Threads -> SUBSET Side] /\ Refusing \subseteq BOOLEAN
    /\ Owner \in [Side -> {"binproc", "cinproc"}]
    /\ MaxMsg \in Nat /\ Limit \in Nat
    /\ StartsTwice \subseteq BOOLEAN

States    == {"IDLE", "CONNECTING", "READY", "ACTIVE", "DISCONNECTED", "STOPPING_PEER",
              "STOPPING"}
Handshake == {"CONNECT", "READY", "ACCEPTED"}     \* carried by the raiser's event_connect
Types     == Handshake \cup {"SENT", "RECEIVED", "DISCONNECT"}
Events    == [to : Side, type : Types, popped : BOOLEAN]

VARIABLES
    uses, refusing, twice,               \* elements of the three sets; never change
    life,       \* [Side -> {"none", "live", "freed"}]
    fsm,        \* [Side -> {"IDLE", "ACTIVE", "STOPPING"}]   fsm.state
    state,      \* [Side -> States]
    peer,       \* [Side -> BOOLEAN]     whether peer is set
    sending, receiving,                  \* [Side -> BOOLEAN]     flags
    pipe,       \* [Side -> Pipes]       pipebase
    queue,      \* [Side -> Seq]         msgqueue, a MsgFifo
    msg,        \* [Side -> 0..MaxMsg]   the message on its way, 0 if none
    hand,       \* [Threads -> SUBSET Events]    the event a thread carries
    sent, got,  \* [Side -> Nat]         number of the last message sent / received
    abort       \* failed assertions, by line

endVars == <<life, fsm, state, peer>>
msgVars == <<sending, receiving, pipe, queue, msg, sent, got>>
envVars == <<uses, refusing, twice>>
vars    == <<envVars, endVars, msgVars, hand, abort>>

Init ==
    /\ uses \in Users /\ refusing \in Refusing /\ twice \in StartsTwice
    /\ life = [s \in Side |-> "none"]
    /\ fsm = [s \in Side |-> "IDLE"]
    /\ state = [s \in Side |-> "IDLE"]
    /\ peer = [s \in Side |-> FALSE]
    /\ sending = [s \in Side |-> FALSE] /\ receiving = [s \in Side |-> FALSE]
    /\ pipe = [s \in Side |-> PipeInit]
    /\ queue = [s \in Side |-> <<>>]
    /\ msg = [s \in Side |-> 0]
    /\ hand = [t \in Threads |-> {}]
    /\ sent = [s \in Side |-> 0] /\ got = [s \in Side |-> 0]
    /\ abort = {}
-----------------------------------------------------------------------------
Alive == abort = {}

Failed(line, ok) == IF ok THEN {} ELSE {line}

(* A thread makes a call on socket s when it is not carrying anything. *)
Calls(t, s) == Alive /\ s \in uses[t] /\ hand[t] = {}

(* nn_fsm_raiseto by thread t; with it, or with EmptyHand, the event that  *)
(* t was carrying is handled.                                              *)
Post(t, s, type) == [hand EXCEPT ![t] = {[to |-> s, type |-> type, popped |-> FALSE]}]
EmptyHand(t)     == [hand EXCEPT ![t] = {}]

(* nn_fsm_event_active: on a queue, that is, not popped. *)
Active(s, types) ==
    \E t \in Threads : \E e \in hand[t] : e.to = s /\ e.type \in types /\ ~e.popped

Due(s, types) == \E t \in Threads : \E e \in hand[t] : e.to = s /\ e.type \in types

(* ctx.c:55 *)
Pop(t) ==
    /\ Alive
    /\ \E e \in hand[t] :
          /\ ~e.popped
          /\ hand' = [hand EXCEPT ![t] = {[e EXCEPT !.popped = TRUE]}]
    /\ UNCHANGED <<endVars, msgVars, abort>>

(* The peer that self->peer points to can be used. *)
PeerThere(s) == Failed("peer is NULL or freed", peer[s] /\ life[Other(s)] = "live")
-----------------------------------------------------------------------------
(* The end of nn_sinproc_shutdown once the state is STOPPING (lines        *)
(* 231-239), and what the owner does about NN_SINPROC_STOPPED.             *)
MayStop(s) == ~Active(s, {"RECEIVED", "DISCONNECT"})

EnterStopping(s) ==
    /\ state' = [state EXCEPT ![s] = "STOPPING"]
    /\ IF MayStop(s)
       THEN /\ fsm' = [fsm EXCEPT ![s] = "IDLE"]
            /\ life' = [life EXCEPT ![s] = "freed"]
       ELSE /\ fsm' = [fsm EXCEPT ![s] = "STOPPING"]
            /\ UNCHANGED life

StopAsserts(s) ==
    IF ~MayStop(s) THEN {}
    ELSE Failed("sinproc.c:236", ~Active(Other(s), Handshake)) \cup
         Failed("sinproc.c:237", ~Active(s, {"SENT"}))

(* nn_sinproc_stop by the owner: nn_fsm_stop, then lines 163-176. *)
Stop(t, s) ==
    /\ Calls(t, s)
    /\ life[s] = "live" /\ fsm[s] = "ACTIVE"
    /\ IF state[s] = "DISCONNECTED"
       THEN /\ EnterStopping(s)
            /\ abort' = StopAsserts(s)
            /\ UNCHANGED <<hand, pipe>>
       ELSE /\ state' = [state EXCEPT ![s] = "STOPPING_PEER"]
            /\ fsm' = [fsm EXCEPT ![s] = "STOPPING"]
            /\ pipe' = [pipe EXCEPT ![s] = PipeStop(@)]
            /\ hand' = Post(t, Other(s), "DISCONNECT")
            /\ abort' = PeerThere(s)
            /\ UNCHANGED life
    /\ UNCHANGED <<peer, sending, receiving, queue, msg, sent, got>>

(* nn_sinproc_shutdown on an event from the peer: RECEIVED changes nothing *)
(* in any state, DISCONNECT ends STOPPING_PEER, and in STOPPING nothing    *)
(* else may come (line 210).                                               *)
ShutdownEvent(t, s, type) ==
    LET over == state[s] = "STOPPING" \/ type = "DISCONNECT"
    IN  /\ fsm[s] = "STOPPING"
        /\ hand' = EmptyHand(t)
        /\ IF over THEN EnterStopping(s) ELSE UNCHANGED <<state, fsm, life>>
        /\ abort' = Failed("sinproc.c:210", state[s] = "STOPPING" => type = "RECEIVED")
                    \cup (IF over THEN StopAsserts(s) ELSE {})
        /\ UNCHANGED <<peer, msgVars>>
-----------------------------------------------------------------------------
(* nn_sinproc_init and nn_sinproc_connect.  With the second nn_fsm_start   *)
(* of line 83 the machine is given NN_FSM_START in CONNECTING.             *)
StartedTwice == TRUE
StartedAgain == twice

Connect(t) ==
    /\ Calls(t, "conn")
    /\ life["conn"] = "none"
    /\ life' = [life EXCEPT !["conn"] = "live"]
    /\ fsm' = [fsm EXCEPT !["conn"] = "ACTIVE"]
    /\ state' = [state EXCEPT !["conn"] = "CONNECTING"]
    /\ hand' = Post(t, "acc", "CONNECT")
    /\ abort' = Failed("sinproc.c:282", ~StartedAgain)
    /\ UNCHANGED <<peer, msgVars>>

(* The owner's handler of NN_SINPROC_CONNECT: nn_sinproc_init and          *)
(* nn_sinproc_accept.                                                      *)
Accept(t) ==
    /\ life' = [life EXCEPT !["acc"] = "live"]
    /\ fsm' = [fsm EXCEPT !["acc"] = "ACTIVE"]
    /\ state' = [state EXCEPT !["acc"] = "READY"]
    /\ peer' = [peer EXCEPT !["acc"] = TRUE]
    /\ hand' = Post(t, "conn", "READY")
    /\ abort' = Failed("peer is NULL or freed", life["conn"] = "live")
    /\ UNCHANGED msgVars

(* CONNECTING, lines 288-297: the protocol has to take the pipe.           *)
HandleReady(t, s) ==
    /\ state[s] = "CONNECTING"
    /\ peer' = [peer EXCEPT ![s] = TRUE]
    /\ \E added \in {TRUE, ~refusing} :
          /\ pipe' = [pipe EXCEPT ![s] = PipeStart(@, added)]
          /\ abort' = Failed("sinproc.c:291", added) \cup
                      Failed("peer is NULL or freed", life[Other(s)] = "live")
    /\ state' = [state EXCEPT ![s] = "ACTIVE"]
    /\ hand' = Post(t, Other(s), "ACCEPTED")
    /\ UNCHANGED <<life, fsm, sending, receiving, queue, msg, sent, got>>

(* Line 325 raises the end's own event_disconnect to the owner; the peer   *)
(* may have the same event on its way to this end.                         *)
RaiseAgain(s) == Failed("queue.c:23", ~Active(s, {"DISCONNECT"}))

(* READY, lines 319-332.  A refused pipe ends the connection here; the     *)
(* peer is not told.  (Line 313 would start the pipe on READY too, but the *)
(* only raiser of READY is in this state itself.)                          *)
HandleAccepted(t, s) ==
    /\ state[s] = "READY"
    /\ hand' = EmptyHand(t)
    /\ \/ /\ pipe' = [pipe EXCEPT ![s] = PipeStart(@, TRUE)]
          /\ state' = [state EXCEPT ![s] = "ACTIVE"]
          /\ UNCHANGED <<life, fsm, peer, abort>>
       \/ /\ refusing
          /\ peer' = [peer EXCEPT ![s] = FALSE]
          /\ IF Owner[s] = "binproc"
             THEN EnterStopping(s) /\ abort' = RaiseAgain(s) \cup StopAsserts(s)
             ELSE /\ state' = [state EXCEPT ![s] = "DISCONNECTED"]
                  /\ abort' = RaiseAgain(s)
                  /\ UNCHANGED <<life, fsm>>
          /\ pipe' = [pipe EXCEPT ![s] = PipeStop(PipeStart(@, FALSE))]
    /\ UNCHANGED <<sending, receiving, queue, msg, sent, got>>

(* nn_msgqueue_send of the peer's message, and what follows its success. *)
Fits(s) == queue[s] = <<>> \/ Len(queue[s]) + 1 < Limit

NotTaken(s) == msg
Taken(s)    == [msg EXCEPT ![Other(s)] = 0]

TakeMessage(t, s) ==
    /\ queue' = [queue EXCEPT ![s] = Append(@, msg[Other(s)])]
    /\ msg' = Taken(s)
    /\ hand' = Post(t, Other(s), "RECEIVED")

(* ACTIVE, lines 348-367. *)
TellAlways(s) == TRUE
TellIn(s)     == queue[s] = <<>>

HandleSent(t, s) ==
    /\ state[s] = "ACTIVE"
    /\ IF Fits(s)
       THEN /\ TakeMessage(t, s)
            /\ pipe' = IF TellIn(s) THEN [pipe EXCEPT ![s] = PipeReceived(@)] ELSE pipe
            /\ abort' = PeerThere(s) \cup
                        Failed("pipe.c:84", TellIn(s) => MayReceived(pipe[s]))
            /\ UNCHANGED receiving
       ELSE /\ receiving' = [receiving EXCEPT ![s] = TRUE]
            /\ hand' = EmptyHand(t)
            /\ UNCHANGED <<queue, msg, pipe, abort>>
    /\ UNCHANGED <<endVars, sending, sent, got>>

(* ACTIVE, lines 368-373. *)
StillSending(s) == sending
SendingDone(s)  == [sending EXCEPT ![s] = FALSE]

HandleReceived(t, s) ==
    /\ state[s] = "ACTIVE"
    /\ pipe' = [pipe EXCEPT ![s] = PipeSent(@)]
    /\ sending' = SendingDone(s)
    /\ hand' = EmptyHand(t)
    /\ abort' = Failed("sinproc.c:369", sending[s]) \cup
                Failed("pipe.c:95", MaySent(pipe[s]))
    /\ UNCHANGED <<endVars, receiving, queue, msg, sent, got>>

(* ACTIVE, lines 374-384, and the owner: binproc.c:199 stops the end, which *)
(* is DISCONNECTED then; cinproc.c:194 leaves it as it is.                 *)
Unanswered(t, s) == EmptyHand(t)
Answered(t, s)   == Post(t, Other(s), "DISCONNECT")

HandleDisconnect(t, s) ==
    /\ state[s] = "ACTIVE"
    /\ pipe' = [pipe EXCEPT ![s] = PipeStop(@)]
    /\ hand' = Answered(t, s)
    /\ peer' = [peer EXCEPT ![s] = FALSE]
    /\ IF Owner[s] = "binproc"
       THEN /\ EnterStopping(s)
            /\ abort' = PeerThere(s) \cup StopAsserts(s)
       ELSE /\ state' = [state EXCEPT ![s] = "DISCONNECTED"]
            /\ abort' = PeerThere(s)
            /\ UNCHANGED <<life, fsm>>
    /\ UNCHANGED <<sending, receiving, queue, msg, sent, got>>

(* DISCONNECTED, lines 400-402. *)
IgnoreReceived(t, s) ==
    /\ state[s] = "DISCONNECTED"
    /\ hand' = EmptyHand(t)
    /\ UNCHANGED <<endVars, msgVars, abort>>

(* nn_fsm_bad_action of the state the end is in. *)
Expected(st) ==
    CASE st = "CONNECTING"   -> {"READY"}
      [] st = "READY"        -> {"ACCEPTED"}
      [] st = "ACTIVE"       -> {"SENT", "RECEIVED", "DISCONNECT"}
      [] st = "DISCONNECTED" -> {"RECEIVED"}

BadActionLine(st) ==
    CASE st = "CONNECTING"   -> "sinproc.c:299"
      [] st = "READY"        -> "sinproc.c:334"
      [] st = "ACTIVE"       -> "sinproc.c:386"
      [] st = "DISCONNECTED" -> "sinproc.c:404"

BadEvent(t, s, type) ==
    /\ type \notin Expected(state[s])
    /\ hand' = EmptyHand(t)
    /\ abort' = {BadActionLine(state[s])}
    /\ UNCHANGED <<endVars, msgVars>>

Handler(t, s, type) ==
    /\ fsm[s] = "ACTIVE"
    /\ \/ type = "READY"      /\ HandleReady(t, s)
       \/ type = "ACCEPTED"   /\ HandleAccepted(t, s)
       \/ type = "SENT"       /\ HandleSent(t, s)
       \/ type = "RECEIVED"   /\ (HandleReceived(t, s) \/ IgnoreReceived(t, s))
       \/ type = "DISCONNECT" /\ HandleDisconnect(t, s)
       \/ BadEvent(t, s, type)

(* The event, or the machine it is for, is in memory that was freed. *)
InFreed(s, type) ==
    life[s] = "freed" \/ (type \in Handshake /\ life[Other(s)] = "freed")

Stray(t) ==
    /\ hand' = EmptyHand(t)
    /\ abort' = {"event in freed memory"}
    /\ UNCHANGED <<endVars, msgVars>>

(* ctx.c:60-61: the event is handled under the lock of its target. *)
Deliver(t, s, type) ==
    /\ Alive
    /\ [to |-> s, type |-> type, popped |-> TRUE] \in hand[t]
    /\ IF InFreed(s, type) THEN Stray(t)
       ELSE IF type = "CONNECT" THEN Accept(t)
       ELSE Handler(t, s, type) \/ ShutdownEvent(t, s, type)
-----------------------------------------------------------------------------
(* nn_pipe_send of the protocol, which uses a pipe between its start and   *)
(* its stop and only when NN_PIPE_OUT has told it so.  sinproc.c:89-120.   *)
Send(t, s) ==
    /\ Calls(t, s)
    /\ pipe[s].state = "ACTIVE" /\ MaySend(pipe[s])
    /\ sent[s] < MaxMsg
    /\ sent' = [sent EXCEPT ![s] = @ + 1]
    /\ msg' = [msg EXCEPT ![s] = sent'[s]]
    /\ sending' = [sending EXCEPT ![s] = TRUE]
    /\ pipe' = [pipe EXCEPT ![s] = PipeSend(@, FALSE)]
    /\ hand' = Post(t, Other(s), "SENT")
    /\ abort' = Failed("sinproc.c:100", state[s] = "ACTIVE") \cup
                Failed("sinproc.c:101", ~sending[s]) \cup PeerThere(s) \cup
                Failed("queue.c:23", ~Active(Other(s), {"SENT"}))
    /\ UNCHANGED <<endVars, receiving, queue, got>>

(* nn_pipe_recv of the protocol, when NN_PIPE_IN has told it so: take the  *)
(* first message, let a sender that was held back go on, and say at once   *)
(* whether there is more.  sinproc.c:122-155.                              *)
LetInAnyway(s, rest) == rest = <<>> \/ Len(rest) + 1 < Limit
LetInNever(s, rest)  == FALSE
LetIn(s, rest)       == receiving[s] /\ (rest = <<>> \/ Len(rest) + 1 < Limit)

Recv(t, s) ==
    /\ Calls(t, s)
    /\ pipe[s].state = "ACTIVE" /\ MayRecv(pipe[s])
    /\ got' = [got EXCEPT ![s] = Head(queue[s])]
    /\ LET rest == Tail(queue[s])
       IN  IF LetIn(s, rest)
           THEN /\ queue' = [queue EXCEPT ![s] = Append(rest, msg[Other(s)])]
                /\ msg' = Taken(s)
                /\ hand' = Post(t, Other(s), "RECEIVED")
                /\ receiving' = [receiving EXCEPT ![s] = FALSE]
                /\ abort' = Failed("sinproc.c:129", state[s] = "ACTIVE") \cup PeerThere(s)
           ELSE /\ queue' = [queue EXCEPT ![s] = rest]
                /\ abort' = Failed("sinproc.c:129", state[s] = "ACTIVE")
                /\ UNCHANGED <<msg, hand, receiving>>
    /\ pipe' = [pipe EXCEPT ![s] = PipeRecv(@, queue'[s] # <<>>)]
    /\ UNCHANGED <<endVars, sending, sent>>

Finished ==
    /\ ~Alive \/ \A t \in Threads : hand[t] = {}
    /\ UNCHANGED vars
-----------------------------------------------------------------------------
Step ==
    \/ \E t \in Threads : Connect(t) \/ Pop(t)
    \/ \E t \in Threads, s \in Side : Stop(t, s) \/ Send(t, s) \/ Recv(t, s)
    \/ \E t \in Threads, s \in Side, type \in Types : Deliver(t, s, type)

Next == (Step /\ UNCHANGED envVars) \/ Finished

Spec == Init /\ [][Next]_vars

(* A thread goes on with what it carries; a receiving application keeps    *)
(* receiving.  Nothing makes anybody connect, send or stop.                *)
FairSpec ==
    /\ Spec
    /\ \A t \in Threads :
          /\ WF_vars(Pop(t) /\ UNCHANGED envVars)
          /\ WF_vars(\E s \in Side, type \in Types :
                         Deliver(t, s, type) /\ UNCHANGED envVars)
    /\ \A s \in Side : WF_vars(\E t \in Threads : Recv(t, s) /\ UNCHANGED envVars)
-----------------------------------------------------------------------------
TypeOK ==
    /\ life \in [Side -> {"none", "live", "freed"}]
    /\ fsm \in [Side -> {"IDLE", "ACTIVE", "STOPPING"}]
    /\ state \in [Side -> States]
    /\ peer \in [Side -> BOOLEAN]
    /\ sending \in [Side -> BOOLEAN] /\ receiving \in [Side -> BOOLEAN]
    /\ pipe \in [Side -> Pipes]
    /\ queue \in [Side -> Seq(1..MaxMsg)]
    /\ msg \in [Side -> 0..MaxMsg]
    /\ hand \in [Threads -> SUBSET Events]
    /\ sent \in [Side -> 0..MaxMsg] /\ got \in [Side -> 0..MaxMsg]

(* Messages are neither lost, doubled nor reordered on their way: what was *)
(* sent and not received yet is in the receiver's queue and then, if there *)
(* was no room, with the sender, in the order in which it was sent.        *)
MessagesInOrder ==
    \A s \in Side :
        LET under == queue[Other(s)] \o (IF msg[s] = 0 THEN <<>> ELSE <<msg[s]>>)
        IN  under = [i \in 1..sent[s] - got[Other(s)] |-> got[Other(s)] + i]

(* The hand-over of one message at a time: while both ends are connected,  *)
(* SENDING is set exactly when one of three things is still to come: the   *)
(* peer hears of the message, the peer finds room for it, or this end      *)
(* hears that the peer took it.                                            *)
HandOver ==
    (\A s \in Side : state[s] = "ACTIVE") =>
        \A s \in Side :
            LET o == Other(s)
            IN  Cardinality({x \in {"sent", "held", "received"} :
                    \/ x = "sent" /\ Due(o, {"SENT"})
                    \/ x = "held" /\ receiving[o]
                    \/ x = "received" /\ Due(s, {"RECEIVED"})})
                = IF sending[s] THEN 1 ELSE 0

(* The protocol is told the truth: while the pipe is active it may receive *)
(* exactly when a message is there, and may send exactly when the previous *)
(* one has been taken.                                                     *)
PipeFollowsQueue ==
    \A s \in Side : pipe[s].state = "ACTIVE" =>
        /\ MayRecv(pipe[s]) <=> queue[s] # <<>>
        /\ MaySend(pipe[s]) <=> ~sending[s]

(* As long as one thread uses both sockets, the protocol takes the pipe    *)
(* and the machine is started once, no assertion and no bad action of      *)
(* sinproc.c, pipe.c or queue.c is met, and no peer or event is used that  *)
(* is gone.  (With more threads it is another matter: the properties at    *)
(* the end.)                                                               *)
OneUser == \E t \in Threads : \A u \in Threads \ {t} : uses[u] = {}

NoAssertionFails == OneUser /\ ~refusing /\ ~twice => Alive

(* Stopping an end completes, unless an assertion fails. *)
StopCompletes == \A s \in Side : fsm[s] = "STOPPING" ~> life[s] = "freed" \/ ~Alive

(* A message is taken over by the peer, however full its queue is, as long *)
(* as the connection lasts and no assertion fails.                         *)
SenderReleased ==
    \A s \in Side : sending[s] ~> ~sending[s] \/ pipe[s].state # "ACTIVE" \/ ~Alive

(* sinproc.c:404 is nn_fsm_bad_action: in DISCONNECTED nothing but         *)
(* RECEIVED comes from the peer.                                           *)
OnlyReceivedWhenDisconnected == "sinproc.c:404" \notin abort

(* sinproc.c:237: when an end stops, no event_sent for it is under way.    *)
NoSentWhenStopped == "sinproc.c:237" \notin abort
=============================================================================
