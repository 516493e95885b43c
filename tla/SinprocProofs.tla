---------------------------- MODULE SinprocProofs ----------------------------
(***************************************************************************)
(* Proofs about one in-process connection (module Sinproc), for any number *)
(* of threads, of messages and any size of the receive buffer, whoever     *)
(* owns the ends, whether the protocol refuses pipes or not, and whether   *)
(* nn_sinproc_connect starts its machine twice or not.                     *)
(***************************************************************************)
EXTENDS Sinproc, SeqLemmas, FiniteSetTheorems

(* Thread t carries an event of this type for the end s.                   *)
At(t, s, type) == \E e \in hand[t] : e.to = s /\ e.type = type

(* A section raises one event, so a thread carries one.                    *)
OneEach == \A t \in Threads : \A e, f \in hand[t] : e = f

(* The states of an end before it is active.                               *)
Early   == {"IDLE", "CONNECTING", "READY"}
(* The states in which the fsm of an end runs.                             *)
Running == {"CONNECTING", "READY", "ACTIVE", "DISCONNECTED"}

(* The fsm and the memory of an end follow its state.                      *)
LifeInv ==
    \A s \in Side :
        /\ state[s] = "IDLE" <=> life[s] = "none"
        /\ life[s] = "none" => fsm[s] = "IDLE"
        /\ fsm[s] = "ACTIVE" <=> state[s] \in Running
        /\ fsm[s] = "STOPPING" => state[s] \in {"STOPPING_PEER", "STOPPING"}
        /\ state[s] = "STOPPING_PEER" => fsm[s] = "STOPPING"
        /\ life[s] = "freed" => state[s] = "STOPPING" /\ fsm[s] = "IDLE"

(* The connection is asked for once, before the other end is there.        *)
ConnectInv ==
    /\ life["conn"] = "none" => life["acc"] = "none"
    /\ \A t \in Threads, s \in Side : At(t, s, "CONNECT") =>
          s = "acc" /\ life["acc"] = "none" /\ life["conn"] # "none"
    /\ \A t, u \in Threads : At(t, "acc", "CONNECT") /\ At(u, "acc", "CONNECT") => t = u

(* What the pipe shows to the protocol, while it is in use.                *)
PipeInv ==
    \A s \in Side : pipe[s].state = "ACTIVE" =>
        /\ state[s] = "ACTIVE"
        /\ pipe[s].instate = IF queue[s] = <<>> THEN "ASYNC" ELSE "IDLE"
        /\ pipe[s].outstate = IF sending[s] THEN "ASYNC" ELSE "IDLE"

(* One message at a time is handed over, from s to Other(s).               *)
Token(s) ==
    \/ receiving[Other(s)]
    \/ \E t \in Threads : At(t, Other(s), "SENT") \/ At(t, s, "RECEIVED")

(* The peer will be active, or is.                                         *)
Coming(s) == state[s] = "ACTIVE" \/ (Alive /\ state[s] \in Early)

(* The hand-over of a message from s to its peer: at most one SENT and one *)
(* RECEIVED event is under way, each only at its point of the exchange,    *)
(* and while both ends are active the exchange has not been lost.          *)
HandInv(s) ==
    /\ \A t, u \in Threads : At(t, Other(s), "SENT") /\ At(u, Other(s), "SENT") => t = u
    /\ \A t, u \in Threads : At(t, s, "RECEIVED") /\ At(u, s, "RECEIVED") => t = u
    /\ \A t \in Threads : At(t, Other(s), "SENT") =>
          sending[s] /\ msg[s] # 0 /\ ~receiving[Other(s)]
    /\ receiving[Other(s)] => sending[s] /\ msg[s] # 0
    /\ \A t \in Threads : At(t, s, "RECEIVED") => sending[s] /\ msg[s] = 0
    /\ msg[s] # 0 => sending[s]
    /\ sending[s] /\ state[s] = "ACTIVE" /\ Coming(Other(s)) => Token(s)

(* Before an end is active it has nothing to send and received nothing.    *)
EarlyInv ==
    \A s \in Side : state[s] \in Early => ~sending[s] /\ ~receiving[s] /\ queue[s] = <<>>

(* A sender that sent the messages 1..n holds m (0: none), the queue q of  *)
(* its peer comes before it, and the peer received the messages up to g.   *)
InLine(q, g, m, n) ==
    /\ \A i \in 1..Len(q) : q[i] = g + i
    /\ n = g + Len(q) + IF m = 0 THEN 0 ELSE 1
    /\ m # 0 => m = n

(* What is on its way, from s to Other(s).                                 *)
OrderInv(s) == InLine(queue[Other(s)], got[Other(s)], msg[s], sent[s])

(* Hand-over and order, in both directions.                                *)
DataInv == \A s \in Side : HandInv(s) /\ OrderInv(s)

(* One thread that makes all the calls carries all the events: the         *)
(* connection goes through these phases.                                   *)
Solo(t)  == (\A u \in Threads \ {t} : uses[u] = {}) /\ ~refusing /\ ~twice
(* No event is under way.                                                  *)
Idle(t)  == hand[t] = {}
(* Both ends are active and so are their pipes.                            *)
Up       == \A s \in Side : state[s] = "ACTIVE" /\ peer[s] /\ pipe[s].state = "ACTIVE"
(* An end that got the DISCONNECT of its peer, or is gone.                 *)
Down(s)  == state[s] = "DISCONNECTED" \/ life[s] = "freed"

(* The phases: not connected, the three steps of the handshake, in use,    *)
(* the disconnection asked for, answered, done.                            *)
Phase(t) ==
    \/ state["conn"] = "IDLE" /\ state["acc"] = "IDLE" /\ Idle(t)
    \/ state["conn"] = "CONNECTING" /\ state["acc"] = "IDLE" /\ At(t, "acc", "CONNECT")
    \/ state["conn"] = "CONNECTING" /\ state["acc"] = "READY" /\ At(t, "conn", "READY") /\ peer["acc"]
    \/ /\ state["conn"] = "ACTIVE" /\ state["acc"] = "READY" /\ At(t, "acc", "ACCEPTED")
       /\ peer["acc"] /\ peer["conn"] /\ pipe["conn"].state = "ACTIVE"
    \/ Up /\ (Idle(t) \/ \E s \in Side : At(t, s, "SENT") \/ At(t, s, "RECEIVED"))
    \/ \E s \in Side :
          /\ state[s] = "STOPPING_PEER" /\ state[Other(s)] = "ACTIVE" /\ peer[Other(s)]
          /\ At(t, Other(s), "DISCONNECT")
    \/ \E s \in Side : state[s] = "STOPPING_PEER" /\ Down(Other(s)) /\ At(t, s, "DISCONNECT")
    \/ \E s \in Side : life[s] = "freed" /\ Down(Other(s)) /\ Idle(t)

(* All events are in the hands of one thread, which is in one of the       *)
(* phases.                                                                 *)
Serial(t) == Alive /\ (\A u \in Threads \ {t} : hand[u] = {}) /\ Phase(t)

(* A thread that makes all calls alone keeps to the phases.                *)
SoloInv == \A t \in Threads : Solo(t) => Serial(t)

(* The inductive invariant, whoever makes the calls.                       *)
IInv == TypeOK /\ OneEach /\ LifeInv /\ ConnectInv /\ PipeInv /\ EarlyInv /\ DataInv
-----------------------------------------------------------------------------
(* The two sides.                                                          *)
LEMMA Sides ==
    /\ "conn" \in Side /\ "acc" \in Side /\ Other("conn") = "acc" /\ Other("acc") = "conn"
    /\ \A s \in Side : /\ s = "conn" \/ s = "acc"
                       /\ Other(s) \in Side /\ Other(s) # s /\ Other(Other(s)) = s
    /\ \A s, q \in Side : q = s \/ q = Other(s)
BY DEF Side, Other

(* An event is told from another one by its fields.                        *)
LEMMA EventIn ==
    \A s \in Side, type \in Types, p \in BOOLEAN : [to |-> s, type |-> type, popped |-> p] \in Events
BY DEF Events

(* The hands and the events in them, once an event is raised ...           *)
LEMMA PostFacts ==
    ASSUME hand \in [Threads -> SUBSET Events], OneEach,
           NEW t \in Threads, NEW s \in Side, NEW type \in Types, hand' = Post(t, s, type)
    PROVE  /\ hand' \in [Threads -> SUBSET Events] /\ OneEach'
           /\ \A u \in Threads : \A q, y : At(u, q, y)' <=> IF u = t THEN q = s /\ y = type ELSE At(u, q, y)
           /\ \A u \in Threads \ {t} : hand'[u] = hand[u]
           /\ hand'[t] # {}
<1> DEFINE v == [to |-> s, type |-> type, popped |-> FALSE]
<1>1. v \in Events /\ v.to = s /\ v.type = type
  BY EventIn
<1>2. hand' = [hand EXCEPT ![t] = {v}]
  BY DEF Post
<1> HIDE DEF v
<1>3. hand'[t] = {v} /\ \A u \in Threads \ {t} : hand'[u] = hand[u]
  BY <1>2
<1>4. hand' \in [Threads -> SUBSET Events]
  BY <1>1, <1>2
<1>5. OneEach'
  BY <1>3 DEF OneEach
<1>6. ASSUME NEW u \in Threads, NEW q, NEW y
      PROVE  At(u, q, y)' <=> IF u = t THEN q = s /\ y = type ELSE At(u, q, y)
  <2>1. CASE u = t
    <3>1. At(u, q, y)' <=> \E e \in {v} : e.to = q /\ e.type = y
      BY <1>3, <2>1 DEF At
    <3> QED
      BY <1>1, <2>1, <3>1
  <2>2. CASE u # t
    BY <1>3, <2>2 DEF At
  <2> QED
    BY <2>1, <2>2
<1> QED
  BY <1>3, <1>4, <1>5, <1>6

(* ... once one is handled without another being raised ...                *)
LEMMA EmptyFacts ==
    ASSUME hand \in [Threads -> SUBSET Events], OneEach,
           NEW t \in Threads, hand' = EmptyHand(t)
    PROVE  /\ hand' \in [Threads -> SUBSET Events] /\ OneEach'
           /\ \A u \in Threads : \A q, y : At(u, q, y)' <=> u # t /\ At(u, q, y)
           /\ \A u \in Threads \ {t} : hand'[u] = hand[u]
           /\ hand'[t] = {}
<1>1. hand' = [hand EXCEPT ![t] = {}]
  BY DEF EmptyHand
<1>2. hand'[t] = {} /\ \A u \in Threads \ {t} : hand'[u] = hand[u]
  BY <1>1
<1>3. hand' \in [Threads -> SUBSET Events]
  BY <1>1
<1>4. OneEach'
  BY <1>2 DEF OneEach
<1>5. \A u \in Threads : \A q, y : At(u, q, y)' <=> u # t /\ At(u, q, y)
  BY <1>2 DEF At
<1> QED
  BY <1>2, <1>3, <1>4, <1>5

(* ... and when one is taken off its queue.                                *)
LEMMA PopFacts ==
    ASSUME hand \in [Threads -> SUBSET Events], OneEach,
           NEW t \in Threads, Pop(t)
    PROVE  /\ hand' \in [Threads -> SUBSET Events] /\ OneEach'
           /\ \A u \in Threads : \A q, y : At(u, q, y)' <=> At(u, q, y)
           /\ \A u \in Threads \ {t} : hand'[u] = hand[u]
<1>1. PICK e \in hand[t] : hand' = [hand EXCEPT ![t] = {[e EXCEPT !.popped = TRUE]}]
  BY DEF Pop
<1>2. e \in Events
  BY <1>1
<1> DEFINE v == [e EXCEPT !.popped = TRUE]
<1>3. v \in Events /\ v.to = e.to /\ v.type = e.type
  BY <1>2 DEF Events
<1> HIDE DEF v
<1>4. hand' = [hand EXCEPT ![t] = {v}]
  BY <1>1 DEF v
<1>5. hand'[t] = {v} /\ \A u \in Threads \ {t} : hand'[u] = hand[u]
  BY <1>4
<1>6. hand' \in [Threads -> SUBSET Events]
  BY <1>3, <1>4
<1>7. OneEach'
  BY <1>5 DEF OneEach
<1>8. ASSUME NEW u \in Threads, NEW q, NEW y PROVE At(u, q, y)' <=> At(u, q, y)
  <2>1. CASE u = t
    <3>1. At(u, q, y)' <=> v.to = q /\ v.type = y
      BY <1>5, <2>1 DEF At
    <3>2. At(u, q, y) <=> e.to = q /\ e.type = y
      BY <1>1, <2>1 DEF At, OneEach
    <3> QED
      BY <1>3, <3>1, <3>2
  <2>2. CASE u # t
    BY <1>5, <2>2 DEF At
  <2> QED
    BY <2>1, <2>2
<1> QED
  BY <1>5, <1>6, <1>7, <1>8

(* The event that is delivered is all that its thread carries.             *)
LEMMA InHand ==
    ASSUME OneEach, NEW t \in Threads, NEW s \in Side, NEW type \in Types,
           [to |-> s, type |-> type, popped |-> TRUE] \in hand[t]
    PROVE  /\ \A q, y : At(t, q, y) <=> q = s /\ y = type
           /\ \A e \in hand[t] : e.popped
<1> DEFINE v == [to |-> s, type |-> type, popped |-> TRUE]
<1>1. v \in hand[t] /\ v.to = s /\ v.type = type /\ v.popped
  OBVIOUS
<1> HIDE DEF v
<1>2. \A e \in hand[t] : e = v
  BY <1>1 DEF OneEach
<1> QED
  BY <1>1, <1>2 DEF At

(* It holds in the initial states.                                         *)
LEMMA InitIInv == Init => IInv
<1> SUFFICES ASSUME Init PROVE IInv
  OBVIOUS
<1>1. \A s \in Side : /\ life[s] = "none" /\ fsm[s] = "IDLE" /\ state[s] = "IDLE" /\ ~peer[s]
                      /\ ~sending[s] /\ ~receiving[s] /\ pipe[s] = PipeInit
                      /\ queue[s] = <<>> /\ msg[s] = 0 /\ sent[s] = 0 /\ got[s] = 0
  BY DEF Init
<1>2. \A t \in Threads : hand[t] = {}
  BY DEF Init
<1>3. \A t \in Threads : \A s, y : ~At(t, s, y)
  BY <1>2 DEF At
<1>4. TypeOK
  <2>1. PipeInit \in Pipes
    BY DEF PipeInit, Pipes, PipeStates, InStates, OutStates
  <2>2. queue \in [Side -> Seq(1..MaxMsg)]
    <3>1. <<>> \in Seq(1..MaxMsg)
      OBVIOUS
    <3> QED
      BY <3>1 DEF Init
  <2>3. 0 \in 0..MaxMsg
    BY SinprocAssumption
  <2>4. sending \in [Side -> BOOLEAN] /\ receiving \in [Side -> BOOLEAN] /\ peer \in [Side -> BOOLEAN]
    BY DEF Init
  <2> QED
    BY <2>1, <2>2, <2>3, <2>4 DEF Init, TypeOK, States
<1>5. OneEach /\ LifeInv
  BY <1>1, <1>2 DEF OneEach, LifeInv, Running
<1>6. ConnectInv
  BY <1>1, <1>3, Sides DEF ConnectInv
<1>7. PipeInv /\ EarlyInv
  BY <1>1 DEF PipeInv, PipeInit, EarlyInv
<1>8. DataInv
  <2> SUFFICES ASSUME NEW s \in Side PROVE HandInv(s) /\ OrderInv(s)
    BY DEF DataInv
  <2>1. Other(s) \in Side
    BY Sides
  <2>2. HandInv(s)
    BY <1>1, <1>3, <2>1 DEF HandInv
  <2>3. InLine(<<>>, 0, 0, 0)
    BY DEF InLine
  <2>4. OrderInv(s)
    BY <1>1, <2>1, <2>3 DEF OrderInv
  <2> QED
    BY <2>2, <2>4
<1> QED
  BY <1>4, <1>5, <1>6, <1>7, <1>8 DEF IInv
-----------------------------------------------------------------------------
(* A step that leaves one direction alone: what was handed over still is,  *)
(* and nothing is lost that anybody waits for.                             *)
Forward(q) ==
    /\ state'[q] \in Early => state[q] \in Early
    /\ state'[q] = "ACTIVE" => state[q] \in Early \cup {"ACTIVE"}

(* Hand-over and order from s to its peer survive a step that leaves the   *)
(* messages of that direction alone, moves the ends only forward, and      *)
(* loses an event of the exchange only when the end that should have got   *)
(* it is no longer active.                                                 *)
LEMMA DirKept ==
    ASSUME Alive, EarlyInv, NEW s \in Side, HandInv(s), OrderInv(s),
           sending'[s] = sending[s], msg'[s] = msg[s], sent'[s] = sent[s],
           receiving'[Other(s)] = receiving[Other(s)],
           queue'[Other(s)] = queue[Other(s)], got'[Other(s)] = got[Other(s)],
           Forward(s), Forward(Other(s)),
           \A u \in Threads : At(u, Other(s), "SENT")' => At(u, Other(s), "SENT"),
           \A u \in Threads : At(u, s, "RECEIVED")' => At(u, s, "RECEIVED"),
           \A u \in Threads : At(u, Other(s), "SENT") =>
               At(u, Other(s), "SENT")' \/ ~Coming(Other(s))',
           \A u \in Threads : At(u, s, "RECEIVED") =>
               At(u, s, "RECEIVED")' \/ state'[s] # "ACTIVE"
    PROVE  HandInv(s)' /\ OrderInv(s)'
<1>1. OrderInv(s)'
  BY DEF OrderInv
<1>2. ASSUME sending'[s], state'[s] = "ACTIVE", Coming(Other(s))' PROVE Token(s)'
  <2>1. state[s] = "ACTIVE"
    BY <1>2 DEF Forward, EarlyInv
  <2>2. Coming(Other(s))
    BY <1>2 DEF Coming, Forward
  <2>3. Token(s)
    BY <1>2, <2>1, <2>2 DEF HandInv
  <2>4. CASE receiving[Other(s)]
    BY <2>4 DEF Token
  <2>5. CASE \E t \in Threads : At(t, Other(s), "SENT") \/ At(t, s, "RECEIVED")
    BY <1>2, <2>5 DEF Token
  <2> QED
    BY <2>3, <2>4, <2>5 DEF Token
<1>3. \A t, u \in Threads : At(t, Other(s), "SENT")' /\ At(u, Other(s), "SENT")' => t = u
  BY DEF HandInv
<1>4. \A t, u \in Threads : At(t, s, "RECEIVED")' /\ At(u, s, "RECEIVED")' => t = u
  BY DEF HandInv
<1>5. \A t \in Threads : At(t, Other(s), "SENT")' => sending'[s] /\ msg'[s] # 0 /\ ~receiving'[Other(s)]
  BY DEF HandInv
<1>6. \A t \in Threads : At(t, s, "RECEIVED")' => sending'[s] /\ msg'[s] = 0
  BY DEF HandInv
<1>7. (receiving'[Other(s)] => sending'[s] /\ msg'[s] # 0) /\ (msg'[s] # 0 => sending'[s])
  BY DEF HandInv
<1> QED
  BY <1>1, <1>2, <1>3, <1>4, <1>5, <1>6, <1>7 DEF HandInv

(* The pipe of an end is started when the end becomes active.              *)
Starts(q) ==
    /\ state[q] \in Early /\ state'[q] = "ACTIVE"
    /\ pipe'[q].instate = "ASYNC" /\ pipe'[q].outstate = "IDLE"

(* A step that changes no message, no flag and no queue.                   *)
LEMMA ControlStep ==
    ASSUME IInv, Alive, TypeOK', OneEach', LifeInv',
           UNCHANGED <<sending, receiving, queue, msg, sent, got>>,
           \A q \in Side : Forward(q) /\ (life'[q] = "none" => life[q] = "none"),
           \A q \in Side : pipe'[q].state = "ACTIVE" =>
               (pipe'[q] = pipe[q] /\ state'[q] = state[q]) \/ Starts(q),
           \A u \in Threads, q \in Side, y \in {"SENT", "RECEIVED", "CONNECT"} :
               At(u, q, y)' => At(u, q, y),
           \A u \in Threads : At(u, "acc", "CONNECT")' => life'["acc"] = "none",
           life'["conn"] = "none" => life'["acc"] = "none",
           \A u \in Threads, q \in Side : At(u, q, "SENT") => At(u, q, "SENT")' \/ ~Coming(q)',
           \A u \in Threads, q \in Side :
               At(u, q, "RECEIVED") => At(u, q, "RECEIVED")' \/ state'[q] # "ACTIVE"
    PROVE  IInv'
<1>1. DataInv'
  <2> SUFFICES ASSUME NEW s \in Side PROVE HandInv(s)' /\ OrderInv(s)'
    BY DEF DataInv
  <2>1. Other(s) \in Side
    BY Sides
  <2>2. HandInv(s) /\ OrderInv(s) /\ EarlyInv
    BY DEF IInv, DataInv
  <2> QED
    BY <2>1, <2>2, DirKept
<1>2. EarlyInv'
  BY DEF IInv, EarlyInv, Forward
<1>3. PipeInv'
  BY DEF IInv, PipeInv, Starts, EarlyInv
<1>4. ConnectInv'
  <2>1. \A t \in Threads, s \in Side : At(t, s, "CONNECT")' => s = "acc" /\ life'["conn"] # "none"
    BY Sides DEF IInv, ConnectInv
  <2>2. \A t, u \in Threads : At(t, "acc", "CONNECT")' /\ At(u, "acc", "CONNECT")' => t = u
    BY Sides DEF IInv, ConnectInv
  <2> QED
    BY <2>1, <2>2 DEF ConnectInv
<1> QED
  BY <1>1, <1>2, <1>3, <1>4 DEF IInv

(* The hands when an event is handled by an answer that is no message.     *)
LEMMA AnswerHand ==
    ASSUME hand \in [Threads -> SUBSET Events], OneEach,
           NEW t \in Threads, NEW s \in Side, NEW type \in Types,
           \A q, y : At(t, q, y) => q = s /\ y = type,
           NEW o \in Side,
           hand' = EmptyHand(t) \/ \E y \in {"READY", "ACCEPTED", "DISCONNECT"} : hand' = Post(t, o, y)
    PROVE  /\ hand' \in [Threads -> SUBSET Events] /\ OneEach'
           /\ \A u \in Threads, q \in Side, y \in {"SENT", "RECEIVED", "CONNECT"} :
                 At(u, q, y)' => At(u, q, y) /\ u # t
           /\ \A u \in Threads, q \in Side, y \in Types :
                 At(u, q, y) => At(u, q, y)' \/ (u = t /\ q = s /\ y = type)
<1>1. CASE hand' = EmptyHand(t)
  BY <1>1, EmptyFacts
<1>2. ASSUME NEW k \in {"READY", "ACCEPTED", "DISCONNECT"}, hand' = Post(t, o, k)
      PROVE  /\ hand' \in [Threads -> SUBSET Events] /\ OneEach'
             /\ \A u \in Threads, q \in Side, y \in {"SENT", "RECEIVED", "CONNECT"} :
                   At(u, q, y)' => At(u, q, y) /\ u # t
             /\ \A u \in Threads, q \in Side, y \in Types :
                   At(u, q, y) => At(u, q, y)' \/ (u = t /\ q = s /\ y = type)
  <2>1. k \in Types
    BY DEF Types, Handshake
  <2>2. /\ hand' \in [Threads -> SUBSET Events] /\ OneEach'
        /\ \A u \in Threads : \A q, y : At(u, q, y)' <=> IF u = t THEN q = o /\ y = k ELSE At(u, q, y)
    BY <1>2, <2>1, PostFacts
  <2> QED
    BY <2>2
<1> QED
  BY <1>1, <1>2

(* An end that enters STOPPING: if nothing is under way it is freed.       *)
LEMMA EnterFacts ==
    ASSUME TypeOK, LifeInv, NEW s \in Side, state[s] # "IDLE", life[s] # "freed", EnterStopping(s)
    PROVE  /\ state' \in [Side -> States] /\ fsm' \in [Side -> {"IDLE", "ACTIVE", "STOPPING"}]
           /\ life' \in [Side -> {"none", "live", "freed"}]
           /\ LifeInv'
           /\ \A q \in Side : life'[q] = "none" <=> life[q] = "none"
           /\ state'[s] = "STOPPING" /\ \A q \in Side : q # s => state'[q] = state[q] /\ life'[q] = life[q]
<1>1. /\ state' = [state EXCEPT ![s] = "STOPPING"]
      /\ \/ fsm' = [fsm EXCEPT ![s] = "IDLE"] /\ life' = [life EXCEPT ![s] = "freed"]
         \/ fsm' = [fsm EXCEPT ![s] = "STOPPING"] /\ life' = life
  BY DEF EnterStopping
<1>2. life[s] # "none"
  BY DEF LifeInv
<1>3. state' \in [Side -> States] /\ fsm' \in [Side -> {"IDLE", "ACTIVE", "STOPPING"}]
      /\ life' \in [Side -> {"none", "live", "freed"}]
  BY <1>1 DEF TypeOK, States
<1>4. /\ state'[s] = "STOPPING" /\ \A q \in Side : q # s => state'[q] = state[q] /\ life'[q] = life[q] /\ fsm'[q] = fsm[q]
      /\ \/ fsm'[s] = "IDLE" /\ life'[s] = "freed"
         \/ fsm'[s] = "STOPPING" /\ life'[s] = life[s]
  BY <1>1 DEF TypeOK
<1>5. LifeInv'
  <2> SUFFICES ASSUME NEW q \in Side
               PROVE  (/\ state[q] = "IDLE" <=> life[q] = "none"
                       /\ life[q] = "none" => fsm[q] = "IDLE"
                       /\ fsm[q] = "ACTIVE" <=> state[q] \in Running
                       /\ fsm[q] = "STOPPING" => state[q] \in {"STOPPING_PEER", "STOPPING"}
                       /\ state[q] = "STOPPING_PEER" => fsm[q] = "STOPPING"
                       /\ life[q] = "freed" => state[q] = "STOPPING" /\ fsm[q] = "IDLE")'
    BY DEF LifeInv
  <2>1. CASE q = s
    BY <1>2, <1>4, <2>1 DEF Running
  <2>2. CASE q # s
    BY <1>4, <2>2 DEF LifeInv
  <2> QED
    BY <2>1, <2>2
<1> QED
  BY <1>2, <1>3, <1>4, <1>5
-----------------------------------------------------------------------------
(* One lemma per action: it keeps the invariant.                           *)
LEMMA PipeTypes ==
    /\ \A p \in Pipes : PipeStop(p) \in Pipes /\ PipeStop(p).state = "IDLE"
    /\ \A p \in Pipes, added \in BOOLEAN :
          /\ PipeStart(p, added) \in Pipes
          /\ PipeStart(p, added).state = (IF added THEN "ACTIVE" ELSE "FAILED")
          /\ PipeStart(p, added).instate = "ASYNC" /\ PipeStart(p, added).outstate = "IDLE"
    /\ \A p \in Pipes : /\ PipeReceived(p) \in Pipes /\ PipeReceived(p).state = p.state
                        /\ PipeReceived(p).outstate = p.outstate
                        /\ p.instate = "ASYNC" => PipeReceived(p).instate = "IDLE"
    /\ \A p \in Pipes : /\ PipeSent(p) \in Pipes /\ PipeSent(p).state = p.state
                        /\ PipeSent(p).instate = p.instate
                        /\ p.outstate = "ASYNC" => PipeSent(p).outstate = "IDLE"
<1>1. \A p \in Pipes : PipeStop(p) \in Pipes /\ PipeStop(p).state = "IDLE"
  BY DEF PipeStop, Pipes, PipeStates
<1>2. \A p \in Pipes, added \in BOOLEAN :
          /\ PipeStart(p, added) \in Pipes
          /\ PipeStart(p, added).state = (IF added THEN "ACTIVE" ELSE "FAILED")
          /\ PipeStart(p, added).instate = "ASYNC" /\ PipeStart(p, added).outstate = "IDLE"
  BY DEF PipeStart, Pipes, PipeStates, InStates, OutStates
<1>3. \A p \in Pipes : /\ PipeReceived(p) \in Pipes /\ PipeReceived(p).state = p.state
                       /\ PipeReceived(p).outstate = p.outstate
                       /\ p.instate = "ASYNC" => PipeReceived(p).instate = "IDLE"
  BY DEF PipeReceived, Pipes, InStates
<1>4. \A p \in Pipes : /\ PipeSent(p) \in Pipes /\ PipeSent(p).state = p.state
                       /\ PipeSent(p).instate = p.instate
                       /\ p.outstate = "ASYNC" => PipeSent(p).outstate = "IDLE"
  BY DEF PipeSent, Pipes, OutStates
<1> QED
  BY <1>1, <1>2, <1>3, <1>4

(* What nn_pipe_send and nn_pipe_recv do to the states of a pipe.          *)
LEMMA PipeCalls ==
    ASSUME NEW p \in Pipes
    PROVE  /\ PipeSend(p, FALSE) \in Pipes /\ PipeSend(p, FALSE).state = p.state
           /\ PipeSend(p, FALSE).instate = p.instate /\ PipeSend(p, FALSE).outstate = "ASYNC"
           /\ \A sync \in BOOLEAN :
                 /\ PipeRecv(p, sync) \in Pipes /\ PipeRecv(p, sync).state = p.state
                 /\ PipeRecv(p, sync).outstate = p.outstate
                 /\ PipeRecv(p, sync).instate = IF sync THEN "IDLE" ELSE "ASYNC"
<1>1. /\ PipeSend(p, FALSE) \in Pipes /\ PipeSend(p, FALSE).state = p.state
      /\ PipeSend(p, FALSE).instate = p.instate /\ PipeSend(p, FALSE).outstate = "ASYNC"
  BY DEF PipeSend, Pipes, OutStates
<1>2. ASSUME NEW sync \in BOOLEAN
      PROVE  /\ PipeRecv(p, sync) \in Pipes /\ PipeRecv(p, sync).state = p.state
             /\ PipeRecv(p, sync).outstate = p.outstate
             /\ PipeRecv(p, sync).instate = IF sync THEN "IDLE" ELSE "ASYNC"
  <2>1. CASE sync
    BY <2>1 DEF PipeRecv, PipeReceived, Pipes, InStates
  <2>2. CASE ~sync
    BY <2>2 DEF PipeRecv, PipeReceived, Pipes, InStates
  <2> QED
    BY <2>1, <2>2
<1> QED
  BY <1>1, <1>2

(* nn_sinproc_stop, and the shutdown handler as far as it runs at once.    *)
LEMMA StopStep ==
    ASSUME IInv, NEW t \in Threads, NEW s \in Side, Stop(t, s)
    PROVE  IInv'
<1> USE DEF IInv
<1>1. /\ Alive /\ hand[t] = {} /\ life[s] = "live" /\ fsm[s] = "ACTIVE" /\ state[s] \in Running
      /\ UNCHANGED <<peer, sending, receiving, queue, msg, sent, got>>
  BY DEF Stop, Calls, LifeInv
<1>2. \A q, y : ~At(t, q, y)
  BY <1>1 DEF At
<1>3. CASE state[s] = "DISCONNECTED"
  <2>1. EnterStopping(s) /\ UNCHANGED <<hand, pipe>>
    BY <1>3 DEF Stop
  <2>2. /\ state' \in [Side -> States] /\ fsm' \in [Side -> {"IDLE", "ACTIVE", "STOPPING"}]
        /\ life' \in [Side -> {"none", "live", "freed"}]
        /\ LifeInv'
        /\ \A q \in Side : life'[q] = "none" <=> life[q] = "none"
        /\ state'[s] = "STOPPING" /\ \A q \in Side : q # s => state'[q] = state[q] /\ life'[q] = life[q]
    BY <1>1, <1>3, <2>1, EnterFacts
  <2>3. TypeOK' /\ OneEach'
    BY <1>1, <2>1, <2>2 DEF TypeOK, OneEach
  <2>4. \A u, q, y : At(u, q, y)' <=> At(u, q, y)
    BY <2>1 DEF At
  <2>5. \A q \in Side : Forward(q)
    BY <2>2 DEF Forward, Early
  <2>6. \A q \in Side : pipe'[q].state = "ACTIVE" => pipe'[q] = pipe[q] /\ state'[q] = state[q]
    BY <1>3, <2>1, <2>2 DEF PipeInv
  <2>7. "conn" \in Side /\ "acc" \in Side
    BY Sides
  <2>8. \A u \in Threads : At(u, "acc", "CONNECT")' => life'["acc"] = "none"
    BY <2>2, <2>4, <2>7 DEF ConnectInv
  <2>9. life'["conn"] = "none" => life'["acc"] = "none"
    BY <2>2, <2>7 DEF ConnectInv
  <2> QED
    BY <1>1, <2>2, <2>3, <2>4, <2>5, <2>6, <2>8, <2>9, ControlStep
<1>4. CASE state[s] # "DISCONNECTED"
  <2>1. /\ state' = [state EXCEPT ![s] = "STOPPING_PEER"]
        /\ fsm' = [fsm EXCEPT ![s] = "STOPPING"]
        /\ pipe' = [pipe EXCEPT ![s] = PipeStop(@)]
        /\ hand' = Post(t, Other(s), "DISCONNECT")
        /\ UNCHANGED life
    BY <1>4 DEF Stop
  <2>2. /\ state'[s] = "STOPPING_PEER" /\ fsm'[s] = "STOPPING" /\ pipe'[s].state = "IDLE"
        /\ \A q \in Side : q # s => state'[q] = state[q] /\ fsm'[q] = fsm[q] /\ pipe'[q] = pipe[q]
        /\ state' \in [Side -> States] /\ fsm' \in [Side -> {"IDLE", "ACTIVE", "STOPPING"}]
        /\ pipe' \in [Side -> Pipes]
    BY <2>1, PipeTypes DEF TypeOK, States
  <2>3. /\ hand' \in [Threads -> SUBSET Events] /\ OneEach'
        /\ \A u \in Threads : \A q, y : At(u, q, y)' <=>
              IF u = t THEN q = Other(s) /\ y = "DISCONNECT" ELSE At(u, q, y)
    <3>1. Other(s) \in Side /\ "DISCONNECT" \in Types
      BY Sides DEF Types
    <3> QED
      BY <2>1, <3>1, PostFacts DEF TypeOK
  <2>4. TypeOK'
    BY <1>1, <2>1, <2>2, <2>3 DEF TypeOK
  <2>5. LifeInv'
    BY <1>1, <2>1, <2>2 DEF LifeInv, Running
  <2>6. \A q \in Side : Forward(q) /\ (life'[q] = "none" => life[q] = "none")
    BY <2>1, <2>2 DEF Forward, Early
  <2>7. \A q \in Side : pipe'[q].state = "ACTIVE" => pipe'[q] = pipe[q] /\ state'[q] = state[q]
    BY <2>2
  <2>8. \A u \in Threads, q \in Side, y \in {"SENT", "RECEIVED", "CONNECT"} : At(u, q, y)' <=> At(u, q, y)
    BY <1>2, <2>3
  <2>9. \A u \in Threads : At(u, "acc", "CONNECT")' => life'["acc"] = "none"
    BY <2>1, <2>8, Sides DEF ConnectInv
  <2>10. life'["conn"] = "none" => life'["acc"] = "none"
    BY <2>1 DEF ConnectInv
  <2> QED
    BY <1>1, <2>3, <2>4, <2>5, <2>6, <2>7, <2>8, <2>9, <2>10, ControlStep
<1> QED
  BY <1>3, <1>4

(* nn_ctx_leave takes the next event from its queue.                       *)
LEMMA PopStep ==
    ASSUME IInv, NEW t \in Threads, Pop(t)
    PROVE  IInv'
<1> USE DEF IInv
<1>1. Alive /\ UNCHANGED <<endVars, msgVars, abort>>
  BY DEF Pop
<1>2. /\ hand' \in [Threads -> SUBSET Events] /\ OneEach'
      /\ \A u \in Threads : \A q, y : At(u, q, y)' <=> At(u, q, y)
  BY PopFacts DEF TypeOK
<1>3. TypeOK' /\ LifeInv'
  BY <1>1, <1>2 DEF TypeOK, LifeInv, endVars, msgVars
<1>4. \A q \in Side : Forward(q) /\ (life'[q] = "none" => life[q] = "none")
  BY <1>1 DEF Forward, endVars
<1>5. \A q \in Side : pipe'[q].state = "ACTIVE" => pipe'[q] = pipe[q] /\ state'[q] = state[q]
  BY <1>1 DEF endVars, msgVars
<1>6. (\A u \in Threads : At(u, "acc", "CONNECT")' => life'["acc"] = "none")
      /\ (life'["conn"] = "none" => life'["acc"] = "none")
  BY <1>1, <1>2, Sides DEF ConnectInv, endVars
<1>7. UNCHANGED <<sending, receiving, queue, msg, sent, got>>
  BY <1>1 DEF msgVars
<1> QED
  BY <1>1, <1>2, <1>3, <1>4, <1>5, <1>6, <1>7, ControlStep

(* Connect and Accept: an end is made.                                     *)
LEMMA ConnectStep ==
    ASSUME IInv, NEW t \in Threads, Connect(t)
    PROVE  IInv'
<1> USE DEF IInv
<1>1. /\ Alive /\ hand[t] = {} /\ life["conn"] = "none"
      /\ life' = [life EXCEPT !["conn"] = "live"]
      /\ fsm' = [fsm EXCEPT !["conn"] = "ACTIVE"]
      /\ state' = [state EXCEPT !["conn"] = "CONNECTING"]
      /\ hand' = Post(t, "acc", "CONNECT")
      /\ UNCHANGED <<peer, msgVars>>
  BY DEF Connect, Calls
<1>2. state["conn"] = "IDLE" /\ life["acc"] = "none"
  BY <1>1, Sides DEF LifeInv, ConnectInv
<1>3. /\ hand' \in [Threads -> SUBSET Events] /\ OneEach'
      /\ \A u \in Threads : \A q, y : At(u, q, y)' <=>
            IF u = t THEN q = "acc" /\ y = "CONNECT" ELSE At(u, q, y)
  BY <1>1, Sides, PostFacts DEF TypeOK, Types, Handshake
<1>4. /\ state'["conn"] = "CONNECTING" /\ fsm'["conn"] = "ACTIVE" /\ life'["conn"] = "live"
      /\ \A q \in Side : q # "conn" => state'[q] = state[q] /\ fsm'[q] = fsm[q] /\ life'[q] = life[q]
      /\ state' \in [Side -> States] /\ fsm' \in [Side -> {"IDLE", "ACTIVE", "STOPPING"}]
      /\ life' \in [Side -> {"none", "live", "freed"}]
  BY <1>1, Sides DEF TypeOK, States
<1>5. TypeOK' /\ LifeInv'
  BY <1>1, <1>3, <1>4 DEF TypeOK, LifeInv, Running, msgVars
<1>6. \A u \in Threads, q \in Side : ~At(u, q, "CONNECT")
  BY <1>1 DEF ConnectInv
<1>7. ConnectInv'
  BY <1>2, <1>3, <1>4, <1>6, Sides DEF ConnectInv
<1>8. EarlyInv' /\ PipeInv'
  <2>1. \A q \in Side : q = "conn" \/ state'[q] = state[q]
    BY <1>4
  <2>2. ~sending["conn"] /\ ~receiving["conn"] /\ queue["conn"] = <<>> /\ pipe["conn"].state # "ACTIVE"
    BY <1>2, Sides DEF EarlyInv, Early, PipeInv
  <2> QED
    BY <1>1, <2>1, <2>2 DEF EarlyInv, PipeInv, msgVars
<1>9. DataInv'
  <2> SUFFICES ASSUME NEW s \in Side PROVE HandInv(s)' /\ OrderInv(s)'
    BY DEF DataInv
  <2>1. \A q \in Side : Forward(q)
    BY <1>2, <1>4 DEF Forward, Early
  <2>2. \A u \in Threads, q \in Side, y \in {"SENT", "RECEIVED"} : At(u, q, y)' <=> At(u, q, y)
    <3>1. \A q, y : ~At(t, q, y)
      BY <1>1 DEF At
    <3> QED
      BY <1>3, <3>1
  <2>3. HandInv(s) /\ OrderInv(s) /\ Other(s) \in Side
    BY Sides DEF DataInv
  <2> QED
    BY <1>1, <2>1, <2>2, <2>3, DirKept DEF msgVars
<1> QED
  BY <1>3, <1>5, <1>7, <1>8, <1>9

(* CONNECT: the accepting end is made.                                     *)
LEMMA AcceptStep ==
    ASSUME IInv, Alive, NEW t \in Threads,
           [to |-> "acc", type |-> "CONNECT", popped |-> TRUE] \in hand[t], Accept(t)
    PROVE  IInv'
<1> USE DEF IInv
<1>1. /\ life' = [life EXCEPT !["acc"] = "live"]
      /\ fsm' = [fsm EXCEPT !["acc"] = "ACTIVE"]
      /\ state' = [state EXCEPT !["acc"] = "READY"]
      /\ peer' = [peer EXCEPT !["acc"] = TRUE]
      /\ hand' = Post(t, "conn", "READY")
      /\ UNCHANGED msgVars
  BY DEF Accept
<1>2. (\A q, y : At(t, q, y) <=> q = "acc" /\ y = "CONNECT")
  BY Sides, InHand, ZenonT(60) DEF Types, Handshake
<1>3. life["acc"] = "none" /\ life["conn"] # "none" /\ state["acc"] = "IDLE"
  BY <1>2, Sides DEF ConnectInv, LifeInv
<1>4. /\ hand' \in [Threads -> SUBSET Events] /\ OneEach'
      /\ \A u \in Threads : \A q, y : At(u, q, y)' <=>
            IF u = t THEN q = "conn" /\ y = "READY" ELSE At(u, q, y)
  BY <1>1, Sides, PostFacts DEF TypeOK, Types, Handshake
<1>5. /\ state'["acc"] = "READY" /\ fsm'["acc"] = "ACTIVE" /\ life'["acc"] = "live"
      /\ \A q \in Side : q # "acc" => state'[q] = state[q] /\ fsm'[q] = fsm[q] /\ life'[q] = life[q]
      /\ state' \in [Side -> States] /\ fsm' \in [Side -> {"IDLE", "ACTIVE", "STOPPING"}]
      /\ life' \in [Side -> {"none", "live", "freed"}] /\ peer' \in [Side -> BOOLEAN]
  BY <1>1, Sides DEF TypeOK, States
<1>6. TypeOK' /\ LifeInv'
  BY <1>1, <1>4, <1>5 DEF TypeOK, LifeInv, Running, msgVars
<1>7. \A u \in Threads, q \in Side : ~At(u, q, "CONNECT")'
  <2> SUFFICES ASSUME NEW u \in Threads, NEW q \in Side, At(u, q, "CONNECT")' PROVE FALSE
    OBVIOUS
  <2>1. u # t /\ At(u, q, "CONNECT")
    BY <1>4
  <2>2. q = "acc" /\ At(t, "acc", "CONNECT")
    BY <1>2, <2>1 DEF ConnectInv
  <2> QED
    BY <2>1, <2>2 DEF ConnectInv
<1>8. ConnectInv'
  BY <1>3, <1>5, <1>7, Sides DEF ConnectInv
<1>9. EarlyInv' /\ PipeInv'
  <2>1. \A q \in Side : q = "acc" \/ state'[q] = state[q]
    BY <1>5
  <2>2. ~sending["acc"] /\ ~receiving["acc"] /\ queue["acc"] = <<>> /\ pipe["acc"].state # "ACTIVE"
    BY <1>3, Sides DEF EarlyInv, Early, PipeInv
  <2> QED
    BY <1>1, <2>1, <2>2 DEF EarlyInv, PipeInv, msgVars
<1>10. DataInv'
  <2> SUFFICES ASSUME NEW s \in Side PROVE HandInv(s)' /\ OrderInv(s)'
    BY DEF DataInv
  <2>1. \A q \in Side : Forward(q)
    BY <1>3, <1>5 DEF Forward, Early
  <2>2. \A u \in Threads, q \in Side, y \in {"SENT", "RECEIVED"} : At(u, q, y)' <=> At(u, q, y)
    BY <1>2, <1>4
  <2>3. HandInv(s) /\ OrderInv(s) /\ Other(s) \in Side
    BY Sides DEF DataInv
  <2> QED
    BY <1>1, <2>1, <2>2, <2>3, DirKept DEF msgVars
<1> QED
  BY <1>4, <1>6, <1>8, <1>9, <1>10
-----------------------------------------------------------------------------
(* An event for s, other than CONNECT, is handled without touching data.   *)
LEMMA HandledStep ==
    ASSUME IInv, Alive, NEW t \in Threads, NEW s \in Side, NEW type \in Types \ {"CONNECT"},
           [to |-> s, type |-> type, popped |-> TRUE] \in hand[t],
           hand' = EmptyHand(t)
           \/ \E y \in {"READY", "ACCEPTED", "DISCONNECT"} : hand' = Post(t, Other(s), y),
           state' \in [Side -> States], fsm' \in [Side -> {"IDLE", "ACTIVE", "STOPPING"}],
           life' \in [Side -> {"none", "live", "freed"}], peer' \in [Side -> BOOLEAN],
           pipe' \in [Side -> Pipes], LifeInv',
           UNCHANGED <<sending, receiving, queue, msg, sent, got>>,
           \A q \in Side : Forward(q) /\ (life'[q] = "none" <=> life[q] = "none"),
           \A q \in Side : pipe'[q].state = "ACTIVE" =>
               (pipe'[q] = pipe[q] /\ state'[q] = state[q]) \/ Starts(q),
           type = "SENT" => ~Coming(s)',
           type = "RECEIVED" => state'[s] # "ACTIVE"
    PROVE  IInv'
<1>1. \A q, y : At(t, q, y) <=> q = s /\ y = type
  BY InHand DEF IInv
<1>2. /\ hand' \in [Threads -> SUBSET Events] /\ OneEach'
      /\ \A u \in Threads, q \in Side, y \in {"SENT", "RECEIVED", "CONNECT"} :
            At(u, q, y)' => At(u, q, y) /\ u # t
      /\ \A u \in Threads, q \in Side, y \in Types :
            At(u, q, y) => At(u, q, y)' \/ (u = t /\ q = s /\ y = type)
  <2>1. hand \in [Threads -> SUBSET Events] /\ OneEach /\ Other(s) \in Side
    BY Sides DEF IInv, TypeOK
  <2> QED
    BY <1>1, <2>1, AnswerHand
<1>3. TypeOK'
  BY <1>2 DEF IInv, TypeOK
<1>4. \A u \in Threads : At(u, "acc", "CONNECT")' => life'["acc"] = "none"
  BY <1>2, Sides DEF IInv, ConnectInv
<1>5. life'["conn"] = "none" => life'["acc"] = "none"
  BY Sides DEF IInv, ConnectInv
<1>6. \A u \in Threads, q \in Side : At(u, q, "SENT") => At(u, q, "SENT")' \/ ~Coming(q)'
  BY <1>2 DEF Types
<1>7. \A u \in Threads, q \in Side : At(u, q, "RECEIVED") => At(u, q, "RECEIVED")' \/ state'[q] # "ACTIVE"
  BY <1>2 DEF Types
<1>8. \A u \in Threads, q \in Side, y \in {"SENT", "RECEIVED", "CONNECT"} : At(u, q, y)' => At(u, q, y)
  BY <1>2
<1> QED
  BY <1>2, <1>3, <1>4, <1>5, <1>6, <1>7, <1>8, ControlStep

(* Only the event is taken.                                                *)
LEMMA DroppedStep ==
    ASSUME IInv, Alive, NEW t \in Threads, NEW s \in Side, NEW type \in Types \ {"CONNECT"},
           [to |-> s, type |-> type, popped |-> TRUE] \in hand[t],
           hand' = EmptyHand(t), UNCHANGED <<endVars, msgVars>>,
           type = "SENT" => ~Coming(s)',
           type = "RECEIVED" => state[s] # "ACTIVE"
    PROVE  IInv'
<1>1. UNCHANGED <<life, fsm, state, peer, pipe, sending, receiving, queue, msg, sent, got>>
  BY DEF endVars, msgVars
<1>2. /\ state' \in [Side -> States] /\ fsm' \in [Side -> {"IDLE", "ACTIVE", "STOPPING"}]
      /\ life' \in [Side -> {"none", "live", "freed"}] /\ peer' \in [Side -> BOOLEAN]
      /\ pipe' \in [Side -> Pipes]
  BY <1>1 DEF IInv, TypeOK
<1>3. LifeInv'
  BY <1>1 DEF IInv, LifeInv
<1>4. \A q \in Side : Forward(q) /\ (life'[q] = "none" <=> life[q] = "none")
  BY <1>1 DEF Forward
<1> QED
  BY <1>1, <1>2, <1>3, <1>4, HandledStep

(* An event no state expects: the assertion of the handler fails.          *)
LEMMA BadEventStep ==
    ASSUME IInv, Alive, NEW t \in Threads, NEW s \in Side, NEW type \in Types \ {"CONNECT"},
           [to |-> s, type |-> type, popped |-> TRUE] \in hand[t], fsm[s] = "ACTIVE",
           BadEvent(t, s, type)
    PROVE  IInv'
<1>1. /\ type \notin Expected(state[s]) /\ hand' = EmptyHand(t) /\ ~Alive'
      /\ UNCHANGED <<endVars, msgVars>>
  BY DEF BadEvent, Alive
<1>2. state[s] = "ACTIVE" => type \notin {"SENT", "RECEIVED"}
  BY <1>1 DEF Expected
<1>3. type = "SENT" => ~Coming(s)'
  BY <1>1, <1>2 DEF Coming, endVars
<1> QED
  BY <1>1, <1>2, <1>3, DroppedStep

(* An event for an end that is gone.                                       *)
LEMMA StrayStep ==
    ASSUME IInv, Alive, NEW t \in Threads, NEW s \in Side, NEW type \in Types \ {"CONNECT"},
           [to |-> s, type |-> type, popped |-> TRUE] \in hand[t], InFreed(s, type),
           Stray(t)
    PROVE  IInv'
<1>1. /\ hand' = EmptyHand(t) /\ UNCHANGED <<endVars, msgVars>>
  BY DEF Stray
<1>2. type \in {"SENT", "RECEIVED"} => state[s] = "STOPPING"
  BY DEF InFreed, Handshake, IInv, LifeInv
<1>3. type = "SENT" => ~Coming(s)'
  BY <1>1, <1>2 DEF Coming, endVars, Early
<1> QED
  BY <1>1, <1>2, <1>3, DroppedStep

(* nn_sinproc_shutdown: the answers of the peer while an end stops.        *)
LEMMA ShutdownStep ==
    ASSUME IInv, Alive, NEW t \in Threads, NEW s \in Side, NEW type \in Types \ {"CONNECT"},
           [to |-> s, type |-> type, popped |-> TRUE] \in hand[t],
           ShutdownEvent(t, s, type)
    PROVE  IInv'
<1>1. /\ fsm[s] = "STOPPING" /\ hand' = EmptyHand(t)
      /\ EnterStopping(s) \/ UNCHANGED <<state, fsm, life>>
      /\ UNCHANGED <<peer, msgVars>>
  BY DEF ShutdownEvent
<1>2. state[s] \in {"STOPPING_PEER", "STOPPING"} /\ life[s] # "freed"
  BY <1>1 DEF IInv, LifeInv
<1>3. CASE EnterStopping(s)
  <2>1. /\ state' \in [Side -> States] /\ fsm' \in [Side -> {"IDLE", "ACTIVE", "STOPPING"}]
        /\ life' \in [Side -> {"none", "live", "freed"}]
        /\ LifeInv'
        /\ \A q \in Side : life'[q] = "none" <=> life[q] = "none"
        /\ state'[s] = "STOPPING" /\ \A q \in Side : q # s => state'[q] = state[q] /\ life'[q] = life[q]
    BY <1>2, <1>3, EnterFacts DEF IInv
  <2>2. peer' \in [Side -> BOOLEAN] /\ pipe' \in [Side -> Pipes] /\ pipe' = pipe
        /\ UNCHANGED <<sending, receiving, queue, msg, sent, got>>
    BY <1>1 DEF IInv, TypeOK, msgVars
  <2>3. \A q \in Side : Forward(q)
    BY <2>1 DEF Forward, Early
  <2>4. \A q \in Side : pipe'[q].state = "ACTIVE" =>
               (pipe'[q] = pipe[q] /\ state'[q] = state[q]) \/ Starts(q)
    BY <1>2, <2>1, <2>2 DEF IInv, PipeInv
  <2>5. ~Coming(s)' /\ state'[s] # "ACTIVE"
    BY <2>1 DEF Coming, Early
  <2> QED
    BY <1>1, <2>1, <2>2, <2>3, <2>4, <2>5, HandledStep
<1>4. CASE UNCHANGED <<state, fsm, life>>
  <2>1. UNCHANGED <<endVars, msgVars>>
    BY <1>1, <1>4 DEF endVars
  <2>2. ~Coming(s)' /\ state[s] # "ACTIVE"
    BY <1>2, <1>4 DEF Coming, Early
  <2> QED
    BY <1>1, <2>1, <2>2, DroppedStep
<1> QED
  BY <1>1, <1>3, <1>4

(* READY at the connecting end: it is active and answers ACCEPTED, or the  *)
(* protocol refused the pipe and it answers DISCONNECT.                    *)
LEMMA ReadyStep ==
    ASSUME IInv, Alive, NEW t \in Threads, NEW s \in Side,
           [to |-> s, type |-> "READY", popped |-> TRUE] \in hand[t],
           refusing \in BOOLEAN, HandleReady(t, s)
    PROVE  IInv'
<1>1. PICK added \in {TRUE, ~refusing} : pipe' = [pipe EXCEPT ![s] = PipeStart(@, added)]
  BY DEF HandleReady
<1>2. /\ state[s] = "CONNECTING" /\ state' = [state EXCEPT ![s] = "ACTIVE"]
      /\ peer' = [peer EXCEPT ![s] = TRUE]
      /\ hand' = Post(t, Other(s), "ACCEPTED")
      /\ UNCHANGED <<life, fsm, sending, receiving, queue, msg, sent, got>>
  BY DEF HandleReady
<1>3. /\ state'[s] = "ACTIVE" /\ \A q \in Side : q # s => state'[q] = state[q] /\ pipe'[q] = pipe[q]
      /\ pipe'[s] = PipeStart(pipe[s], added) /\ added \in BOOLEAN /\ pipe[s] \in Pipes
      /\ state' \in [Side -> States] /\ peer' \in [Side -> BOOLEAN]
      /\ fsm' \in [Side -> {"IDLE", "ACTIVE", "STOPPING"}] /\ life' \in [Side -> {"none", "live", "freed"}]
  BY <1>1, <1>2 DEF IInv, TypeOK, States
<1>4. /\ pipe'[s] \in Pipes
      /\ pipe'[s].instate = "ASYNC" /\ pipe'[s].outstate = "IDLE"
  BY <1>3, PipeTypes
<1>5. pipe' \in [Side -> Pipes]
  BY <1>1, <1>3, <1>4 DEF IInv, TypeOK
<1>6. LifeInv'
  BY <1>2, <1>3 DEF IInv, LifeInv, Running
<1>7. \A q \in Side : Forward(q) /\ (life'[q] = "none" <=> life[q] = "none")
  BY <1>2, <1>3 DEF Forward, Early
<1>8. \A q \in Side : pipe'[q].state = "ACTIVE" =>
               (pipe'[q] = pipe[q] /\ state'[q] = state[q]) \/ Starts(q)
  BY <1>2, <1>3, <1>4 DEF Starts, Early
<1>9. "READY" \in Types \ {"CONNECT"}
  BY DEF Types, Handshake
<1> QED
  BY <1>2, <1>3, <1>5, <1>6, <1>7, <1>8, <1>9, HandledStep

(* ACCEPTED at the accepting end.                                          *)
LEMMA AcceptedStep ==
    ASSUME IInv, Alive, NEW t \in Threads, NEW s \in Side, fsm[s] = "ACTIVE",
           [to |-> s, type |-> "ACCEPTED", popped |-> TRUE] \in hand[t],
           HandleAccepted(t, s)
    PROVE  IInv'
<1>1. /\ state[s] = "READY" /\ hand' = EmptyHand(t)
      /\ UNCHANGED <<sending, receiving, queue, msg, sent, got>>
  BY DEF HandleAccepted
<1>2. "ACCEPTED" \in Types \ {"CONNECT"} /\ pipe[s] \in Pipes
  BY DEF Types, Handshake, IInv, TypeOK
<1>3. CASE /\ pipe' = [pipe EXCEPT ![s] = PipeStart(@, TRUE)]
           /\ state' = [state EXCEPT ![s] = "ACTIVE"]
           /\ UNCHANGED <<life, fsm, peer, abort>>
  <2>1. /\ state'[s] = "ACTIVE" /\ \A q \in Side : q # s => state'[q] = state[q] /\ pipe'[q] = pipe[q]
        /\ pipe'[s] = PipeStart(pipe[s], TRUE)
        /\ state' \in [Side -> States] /\ peer' \in [Side -> BOOLEAN]
        /\ fsm' \in [Side -> {"IDLE", "ACTIVE", "STOPPING"}] /\ life' \in [Side -> {"none", "live", "freed"}]
    BY <1>3 DEF IInv, TypeOK, States
  <2>2. /\ pipe'[s] \in Pipes
        /\ pipe'[s].instate = "ASYNC" /\ pipe'[s].outstate = "IDLE"
    <3>1. /\ PipeStart(pipe[s], TRUE) \in Pipes
          /\ PipeStart(pipe[s], TRUE).instate = "ASYNC" /\ PipeStart(pipe[s], TRUE).outstate = "IDLE"
      BY <1>2 DEF PipeStart, Pipes, PipeStates, InStates, OutStates
    <3> QED
      BY <2>1, <3>1
  <2>3. pipe' \in [Side -> Pipes]
    BY <1>3, <2>1, <2>2 DEF IInv, TypeOK
  <2>4. LifeInv'
    BY <1>1, <1>3, <2>1 DEF IInv, LifeInv, Running
  <2>5. \A q \in Side : Forward(q) /\ (life'[q] = "none" <=> life[q] = "none")
    BY <1>1, <1>3, <2>1 DEF Forward, Early
  <2>6. \A q \in Side : pipe'[q].state = "ACTIVE" =>
               (pipe'[q] = pipe[q] /\ state'[q] = state[q]) \/ Starts(q)
    BY <1>1, <2>1, <2>2 DEF Starts, Early
  <2> QED
    BY <1>1, <1>2, <2>1, <2>3, <2>4, <2>5, <2>6, HandledStep
<1>4. CASE /\ peer' = [peer EXCEPT ![s] = FALSE]
           /\ EnterStopping(s) \/ (state' = [state EXCEPT ![s] = "DISCONNECTED"] /\ UNCHANGED <<life, fsm>>)
           /\ pipe' = [pipe EXCEPT ![s] = PipeStop(PipeStart(@, FALSE))]
  <2>1. PipeStop(PipeStart(pipe[s], FALSE)) \in Pipes /\ PipeStop(PipeStart(pipe[s], FALSE)).state = "IDLE"
    BY <1>2, PipeTypes
  <2>2. /\ peer' \in [Side -> BOOLEAN] /\ pipe' \in [Side -> Pipes] /\ pipe'[s].state = "IDLE"
        /\ \A q \in Side : q # s => pipe'[q] = pipe[q]
    BY <1>4, <2>1 DEF IInv, TypeOK
  <2>3. /\ state' \in [Side -> States] /\ fsm' \in [Side -> {"IDLE", "ACTIVE", "STOPPING"}]
        /\ life' \in [Side -> {"none", "live", "freed"}]
        /\ LifeInv'
        /\ \A q \in Side : life'[q] = "none" <=> life[q] = "none"
        /\ state'[s] \in {"STOPPING", "DISCONNECTED"} /\ \A q \in Side : q # s => state'[q] = state[q]
    <3>1. CASE EnterStopping(s)
      <4>1. state[s] # "IDLE" /\ life[s] # "freed"
        BY <1>1 DEF IInv, LifeInv
      <4> QED
        BY <3>1, <4>1, EnterFacts DEF IInv
    <3>2. CASE state' = [state EXCEPT ![s] = "DISCONNECTED"] /\ UNCHANGED <<life, fsm>>
      <4>1. /\ state' \in [Side -> States] /\ fsm' \in [Side -> {"IDLE", "ACTIVE", "STOPPING"}]
            /\ life' \in [Side -> {"none", "live", "freed"}]
            /\ state'[s] = "DISCONNECTED" /\ \A q \in Side : q # s => state'[q] = state[q]
        BY <3>2 DEF IInv, TypeOK, States
      <4>2. LifeInv'
        BY <1>1, <3>2, <4>1 DEF IInv, LifeInv, Running
      <4> QED
        BY <3>2, <4>1, <4>2
    <3> QED
      BY <1>4, <3>1, <3>2
  <2>4. \A q \in Side : Forward(q)
    BY <2>3 DEF Forward, Early
  <2>5. \A q \in Side : pipe'[q].state = "ACTIVE" =>
               (pipe'[q] = pipe[q] /\ state'[q] = state[q]) \/ Starts(q)
    BY <2>2, <2>3
  <2> QED
    BY <1>1, <1>2, <2>2, <2>3, <2>4, <2>5, HandledStep
<1> QED
  BY <1>3, <1>4 DEF HandleAccepted

(* DISCONNECT at an active end: the pipe is stopped and the answer raised. *)
LEMMA DisconnectStep ==
    ASSUME IInv, Alive, NEW t \in Threads, NEW s \in Side, fsm[s] = "ACTIVE",
           [to |-> s, type |-> "DISCONNECT", popped |-> TRUE] \in hand[t],
           HandleDisconnect(t, s)
    PROVE  IInv'
<1>1. /\ state[s] = "ACTIVE" /\ hand' = Post(t, Other(s), "DISCONNECT")
      /\ pipe' = [pipe EXCEPT ![s] = PipeStop(@)]
      /\ peer' = [peer EXCEPT ![s] = FALSE]
      /\ EnterStopping(s) \/ (state' = [state EXCEPT ![s] = "DISCONNECTED"] /\ UNCHANGED <<life, fsm>>)
      /\ UNCHANGED <<sending, receiving, queue, msg, sent, got>>
  BY DEF HandleDisconnect, Answered
<1>2. "DISCONNECT" \in Types \ {"CONNECT"} /\ pipe[s] \in Pipes
  BY DEF Types, Handshake, IInv, TypeOK
<1>3. PipeStop(pipe[s]) \in Pipes /\ PipeStop(pipe[s]).state = "IDLE"
  BY <1>2, PipeTypes
<1>4. /\ peer' \in [Side -> BOOLEAN] /\ pipe' \in [Side -> Pipes] /\ pipe'[s].state = "IDLE"
      /\ \A q \in Side : q # s => pipe'[q] = pipe[q]
  BY <1>1, <1>3 DEF IInv, TypeOK
<1>5. /\ state' \in [Side -> States] /\ fsm' \in [Side -> {"IDLE", "ACTIVE", "STOPPING"}]
      /\ life' \in [Side -> {"none", "live", "freed"}]
      /\ LifeInv'
      /\ \A q \in Side : life'[q] = "none" <=> life[q] = "none"
      /\ state'[s] \in {"STOPPING", "DISCONNECTED"} /\ \A q \in Side : q # s => state'[q] = state[q]
  <2>1. CASE EnterStopping(s)
    <3>1. state[s] # "IDLE" /\ life[s] # "freed"
      BY <1>1 DEF IInv, LifeInv
    <3> QED
      BY <2>1, <3>1, EnterFacts DEF IInv
  <2>2. CASE state' = [state EXCEPT ![s] = "DISCONNECTED"] /\ UNCHANGED <<life, fsm>>
    <3>1. /\ state' \in [Side -> States] /\ fsm' \in [Side -> {"IDLE", "ACTIVE", "STOPPING"}]
          /\ life' \in [Side -> {"none", "live", "freed"}]
          /\ state'[s] = "DISCONNECTED" /\ \A q \in Side : q # s => state'[q] = state[q]
      BY <2>2 DEF IInv, TypeOK, States
    <3>2. LifeInv'
      BY <1>1, <2>2, <3>1 DEF IInv, LifeInv, Running
    <3> QED
      BY <2>2, <3>1, <3>2
  <2> QED
    BY <1>1, <2>1, <2>2
<1>6. \A q \in Side : Forward(q)
  BY <1>5 DEF Forward, Early
<1>7. \A q \in Side : pipe'[q].state = "ACTIVE" =>
               (pipe'[q] = pipe[q] /\ state'[q] = state[q]) \/ Starts(q)
  BY <1>4, <1>5
<1> QED
  BY <1>1, <1>2, <1>4, <1>5, <1>6, <1>7, HandledStep
-----------------------------------------------------------------------------
(* What sending, taking over and receiving do to the line of messages.     *)
LEMMA InLineSend ==
    ASSUME NEW M \in Nat, NEW q \in Seq(1..M), NEW g \in Nat, NEW n \in Nat, InLine(q, g, 0, n)
    PROVE  InLine(q, g, n + 1, n + 1)
BY DEF InLine

(* A message that the receiver takes over stays in line.                   *)
LEMMA InLineTake ==
    ASSUME NEW M \in Nat, NEW q \in Seq(1..M), NEW g \in Nat, NEW n \in Nat,
           NEW m \in 1..M, InLine(q, g, m, n)
    PROVE  Append(q, m) \in Seq(1..M) /\ Append(q, m) # <<>> /\ InLine(Append(q, m), g, 0, n)
<1>1. /\ Append(q, m) \in Seq(1..M)
      /\ Len(Append(q, m)) = Len(q) + 1
      /\ \A i \in 1..Len(q) : Append(q, m)[i] = q[i]
      /\ Append(q, m)[Len(q) + 1] = m
  BY AppendFacts
<1>2. Len(q) \in Nat /\ m = g + Len(q) + 1 /\ n = g + Len(q) + 1
  BY DEF InLine
<1>3. \A i \in 1..Len(q) : q[i] = g + i
  BY DEF InLine
<1>4. \A i \in 1..Len(Append(q, m)) : i \in 1..Len(q) \/ i = Len(q) + 1
  BY <1>1, <1>2
<1>5. \A i \in 1..Len(Append(q, m)) : Append(q, m)[i] = g + i
  BY <1>1, <1>2, <1>3, <1>4, SMTT(60)
<1>6. n = g + Len(Append(q, m)) + IF 0 = 0 THEN 0 ELSE 1
  BY <1>1, <1>2
<1>7. Append(q, m) # <<>>
  OBVIOUS
<1> QED
  BY <1>1, <1>5, <1>6, <1>7 DEF InLine

(* A message handed to the protocol leaves the head of the line.           *)
LEMMA InLineReceive ==
    ASSUME NEW M \in Nat, NEW q \in Seq(1..M), NEW g \in Nat, NEW n \in Nat,
           NEW m \in 0..M, q # <<>>, InLine(q, g, m, n)
    PROVE  /\ Tail(q) \in Seq(1..M) /\ Head(q) \in 1..M /\ Head(q) = g + 1
           /\ InLine(Tail(q), g + 1, m, n)
<1>1. /\ Head(q) \in 1..M /\ Head(q) = q[1] /\ Len(q) >= 1
      /\ Tail(q) \in Seq(1..M)
      /\ Len(Tail(q)) = Len(q) - 1
      /\ \A i \in 1..Len(q) - 1 : Tail(q)[i] = q[i + 1]
  BY TailFacts
<1>2. Len(q) \in Nat
  OBVIOUS
<1>3. \A i \in 1..Len(q) : q[i] = g + i
  BY DEF InLine
<1>4. Head(q) = g + 1
  BY <1>1, <1>2, <1>3
<1>5. \A i \in 1..Len(Tail(q)) : Tail(q)[i] = (g + 1) + i
  BY <1>1, <1>2, <1>3
<1>6. n = g + Len(q) + IF m = 0 THEN 0 ELSE 1
  BY DEF InLine
<1>7. n = (g + 1) + Len(Tail(q)) + IF m = 0 THEN 0 ELSE 1
  BY <1>1, <1>2, <1>6
<1>8. m # 0 => m = n
  BY DEF InLine
<1> QED
  BY <1>1, <1>4, <1>5, <1>7, <1>8 DEF InLine

(* A step keeps PipeInv when it does at each end.                          *)
PipeAt(s) ==
    pipe[s].state = "ACTIVE" =>
        /\ state[s] = "ACTIVE"
        /\ pipe[s].instate = IF queue[s] = <<>> THEN "ASYNC" ELSE "IDLE"
        /\ pipe[s].outstate = IF sending[s] THEN "ASYNC" ELSE "IDLE"

(* PipeInv survives a step at one end that leaves the other alone.         *)
LEMMA PipeEach ==
    ASSUME PipeInv, NEW s \in Side, PipeAt(s)',
           UNCHANGED <<state[Other(s)], pipe[Other(s)], queue[Other(s)], sending[Other(s)]>>
    PROVE  PipeInv'
<1>1. PipeAt(Other(s))
  BY Sides DEF PipeAt, PipeInv
<1>2. PipeAt(Other(s))'
  BY <1>1 DEF PipeAt
<1>3. \A q \in Side : q = s \/ q = Other(s)
  BY Sides
<1> QED
  BY <1>2, <1>3 DEF PipeAt, PipeInv

(* A step of the data path leaves the ends as they are, and the direction  *)
(* d as it is.                                                             *)
LEMMA OtherDirection ==
    ASSUME IInv, Alive, NEW d \in Side, UNCHANGED state,
           sending'[d] = sending[d], msg'[d] = msg[d], sent'[d] = sent[d],
           receiving'[Other(d)] = receiving[Other(d)],
           queue'[Other(d)] = queue[Other(d)], got'[Other(d)] = got[Other(d)],
           \A u \in Threads : At(u, Other(d), "SENT")' <=> At(u, Other(d), "SENT"),
           \A u \in Threads : At(u, d, "RECEIVED")' <=> At(u, d, "RECEIVED")
    PROVE  HandInv(d)' /\ OrderInv(d)'
<1>1. Forward(d) /\ Forward(Other(d)) /\ EarlyInv /\ HandInv(d) /\ OrderInv(d)
  BY DEF Forward, IInv, DataInv
<1> QED
  BY <1>1, DirKept

(* ... and keeps ConnectInv and LifeInv.                                   *)
LEMMA EndsKept ==
    ASSUME IInv, UNCHANGED endVars,
           \A u \in Threads, q \in Side : At(u, q, "CONNECT")' => At(u, q, "CONNECT")
    PROVE  LifeInv' /\ ConnectInv'
<1>1. LifeInv'
  BY DEF IInv, LifeInv, endVars
<1>2. ConnectInv'
  BY Sides DEF IInv, ConnectInv, endVars
<1> QED
  BY <1>1, <1>2

(* RECEIVED at the sender: the send is done and the pipe can send again.   *)
LEMMA ReceivedStep ==
    ASSUME IInv, Alive, NEW t \in Threads, NEW s \in Side,
           [to |-> s, type |-> "RECEIVED", popped |-> TRUE] \in hand[t],
           HandleReceived(t, s)
    PROVE  IInv'
<1> DEFINE o == Other(s)
<1>1. /\ state[s] = "ACTIVE"
      /\ pipe' = [pipe EXCEPT ![s] = PipeSent(@)]
      /\ sending' = [sending EXCEPT ![s] = FALSE]
      /\ hand' = EmptyHand(t)
      /\ UNCHANGED <<endVars, receiving, queue, msg, sent, got>>
  BY DEF HandleReceived, SendingDone
<1>2. o \in Side /\ o # s /\ Other(o) = s /\ \A q \in Side : q = s \/ q = o
  BY Sides
<1> HIDE DEF o
<1>3. "RECEIVED" \in Types
  BY DEF Types
<1>4. \A q, y : At(t, q, y) <=> q = s /\ y = "RECEIVED"
  BY <1>3, InHand DEF IInv
<1>5. /\ hand' \in [Threads -> SUBSET Events] /\ OneEach'
      /\ \A u \in Threads : \A q, y : At(u, q, y)' <=> u # t /\ At(u, q, y)
  BY <1>1, EmptyFacts DEF IInv, TypeOK
<1>6. /\ HandInv(s) /\ OrderInv(s)
      /\ sending[s] /\ msg[s] = 0 /\ ~receiving[o] /\ \A u \in Threads : ~At(u, o, "SENT")
  BY <1>4 DEF IInv, DataInv, HandInv, o
<1>7. /\ pipe[s] \in Pipes /\ pipe' \in [Side -> Pipes]
      /\ pipe'[s] = PipeSent(pipe[s]) /\ pipe'[o] = pipe[o]
      /\ sending' \in [Side -> BOOLEAN] /\ ~sending'[s] /\ sending'[o] = sending[o]
  BY <1>1, <1>2, PipeTypes DEF IInv, TypeOK
<1>8. TypeOK'
  BY <1>1, <1>5, <1>7 DEF IInv, TypeOK, endVars
<1>9. LifeInv' /\ ConnectInv'
  BY <1>1, <1>5, EndsKept
<1>10. PipeInv'
  <2>1. /\ pipe'[s].state = pipe[s].state /\ pipe'[s].instate = pipe[s].instate
        /\ pipe[s].outstate = "ASYNC" => pipe'[s].outstate = "IDLE"
    BY <1>7, PipeTypes
  <2>2. \A q \in Side : pipe[q].state = "ACTIVE" =>
           /\ state[q] = "ACTIVE"
           /\ pipe[q].instate = IF queue[q] = <<>> THEN "ASYNC" ELSE "IDLE"
           /\ pipe[q].outstate = IF sending[q] THEN "ASYNC" ELSE "IDLE"
    BY DEF IInv, PipeInv
  <2> QED
    BY <1>1, <1>2, <1>6, <1>7, <2>1, <2>2 DEF PipeInv, endVars
<1>11. EarlyInv'
  BY <1>1, <1>2, <1>7 DEF IInv, EarlyInv, endVars
<1>12. HandInv(s)' /\ OrderInv(s)'
  <2>1. OrderInv(s)'
    BY <1>1, <1>6 DEF OrderInv
  <2>2. \A u \in Threads : ~At(u, o, "SENT")' /\ ~At(u, s, "RECEIVED")'
    <3>1. \A u \in Threads : At(u, s, "RECEIVED") => u = t
      BY <1>4, <1>6 DEF HandInv
    <3> QED
      BY <1>5, <1>6, <3>1
  <2>3. ~sending'[s] /\ msg'[s] = 0 /\ ~receiving'[o]
    BY <1>1, <1>6, <1>7
  <2> QED
    BY <2>1, <2>2, <2>3 DEF HandInv, o
<1>13. HandInv(o)' /\ OrderInv(o)'
  <2>1. \A u \in Threads : (At(u, s, "SENT")' <=> At(u, s, "SENT")) /\ (At(u, o, "RECEIVED")' <=> At(u, o, "RECEIVED"))
    BY <1>2, <1>4, <1>5
  <2> QED
    BY <1>1, <1>2, <1>7, <2>1, OtherDirection DEF endVars
<1> QED
  BY <1>2, <1>5, <1>8, <1>9, <1>10, <1>11, <1>12, <1>13 DEF IInv, DataInv

(* nn_sinproc_send.                                                        *)
LEMMA SendStep ==
    ASSUME IInv, NEW t \in Threads, NEW s \in Side, Send(t, s)
    PROVE  IInv'
<1> DEFINE o == Other(s)
<1>1. /\ Alive /\ hand[t] = {} /\ pipe[s].state = "ACTIVE" /\ MaySend(pipe[s]) /\ sent[s] < MaxMsg
      /\ sent' = [sent EXCEPT ![s] = @ + 1]
      /\ msg' = [msg EXCEPT ![s] = sent'[s]]
      /\ sending' = [sending EXCEPT ![s] = TRUE]
      /\ pipe' = [pipe EXCEPT ![s] = PipeSend(@, FALSE)]
      /\ hand' = Post(t, o, "SENT")
      /\ UNCHANGED <<endVars, receiving, queue, got>>
  BY DEF Send, Calls
<1>2. o \in Side /\ o # s /\ Other(o) = s /\ \A q \in Side : q = s \/ q = o
  BY Sides
<1> HIDE DEF o
<1>3. "SENT" \in Types
  BY DEF Types
<1>4. \A q, y : ~At(t, q, y)
  BY <1>1 DEF At
<1>5. /\ hand' \in [Threads -> SUBSET Events] /\ OneEach'
      /\ \A u \in Threads : \A q, y : At(u, q, y)' <=> IF u = t THEN q = o /\ y = "SENT" ELSE At(u, q, y)
  BY <1>1, <1>2, <1>3, PostFacts DEF IInv, TypeOK
<1>6. state[s] = "ACTIVE" /\ ~sending[s]
  BY <1>1 DEF IInv, PipeInv, MaySend
<1>7. /\ HandInv(s) /\ OrderInv(s) /\ msg[s] = 0 /\ ~receiving[o]
      /\ \A u \in Threads : ~At(u, o, "SENT") /\ ~At(u, s, "RECEIVED")
  BY <1>6 DEF IInv, DataInv, HandInv, o
<1>8. sent[s] \in Nat /\ sent[s] + 1 \in 0..MaxMsg /\ MaxMsg \in Nat
  BY <1>1, SinprocAssumption DEF IInv, TypeOK
<1>9. /\ sent' \in [Side -> 0..MaxMsg] /\ sent'[s] = sent[s] + 1 /\ sent'[o] = sent[o]
      /\ msg' \in [Side -> 0..MaxMsg] /\ msg'[s] = sent[s] + 1 /\ msg'[o] = msg[o]
      /\ sending' \in [Side -> BOOLEAN] /\ sending'[s] /\ sending'[o] = sending[o]
      /\ pipe'[s] = PipeSend(pipe[s], FALSE) /\ pipe'[o] = pipe[o]
  BY <1>1, <1>2, <1>8 DEF IInv, TypeOK
<1>10. /\ pipe'[s] \in Pipes /\ pipe'[s].state = pipe[s].state
       /\ pipe'[s].instate = pipe[s].instate /\ pipe'[s].outstate = "ASYNC"
  <2>1. pipe[s] \in Pipes
    BY DEF IInv, TypeOK
  <2> QED
    BY <1>9, <2>1, PipeCalls
<1>11. pipe' \in [Side -> Pipes]
  BY <1>1, <1>9, <1>10 DEF IInv, TypeOK
<1>12. TypeOK'
  BY <1>1, <1>5, <1>9, <1>11 DEF IInv, TypeOK, endVars
<1>13. LifeInv' /\ ConnectInv'
  <2>1. \A u \in Threads, q \in Side : At(u, q, "CONNECT")' => At(u, q, "CONNECT")
    BY <1>5
  <2> QED
    BY <1>1, <2>1, EndsKept
<1>14. PipeInv'
  <2>1. PipeAt(s) /\ PipeInv
    BY DEF IInv, PipeInv, PipeAt
  <2>2. state' = state /\ queue' = queue
    BY <1>1 DEF endVars
  <2>3. PipeAt(s)'
    BY <1>9, <1>10, <2>1, <2>2 DEF PipeAt
  <2> QED
    BY <1>9, <2>1, <2>2, <2>3, PipeEach DEF o
<1>15. EarlyInv'
  <2>1. state'[s] \notin Early
    BY <1>1, <1>6 DEF Early, endVars
  <2> QED
    BY <1>1, <1>2, <1>9, <2>1 DEF IInv, EarlyInv, endVars
<1>16. HandInv(s)' /\ OrderInv(s)'
  <2>1. OrderInv(s)'
    <3>1. InLine(queue[o], got[o], 0, sent[s])
      BY <1>7 DEF OrderInv, o
    <3>2. queue[o] \in Seq(1..MaxMsg) /\ got[o] \in Nat
      BY <1>2, <1>8 DEF IInv, TypeOK
    <3>3. InLine(queue[o], got[o], sent[s] + 1, sent[s] + 1)
      BY <1>8, <3>1, <3>2, InLineSend
    <3>4. queue'[o] = queue[o] /\ got'[o] = got[o]
      BY <1>1
    <3> QED
      BY <1>9, <3>3, <3>4 DEF OrderInv, o
  <2>2. \A u \in Threads : (At(u, o, "SENT")' <=> u = t) /\ ~At(u, s, "RECEIVED")'
    BY <1>2, <1>5, <1>7
  <2>3. sending'[s] /\ msg'[s] # 0 /\ ~receiving'[o]
    BY <1>1, <1>7, <1>8, <1>9
  <2>4. Token(s)'
    BY <2>2 DEF Token, o
  <2> QED
    BY <2>1, <2>2, <2>3, <2>4 DEF HandInv, o
<1>17. HandInv(o)' /\ OrderInv(o)'
  <2>1. \A u \in Threads : (At(u, s, "SENT")' <=> At(u, s, "SENT")) /\ (At(u, o, "RECEIVED")' <=> At(u, o, "RECEIVED"))
    BY <1>2, <1>4, <1>5
  <2> QED
    BY <1>1, <1>2, <1>9, <2>1, OtherDirection DEF endVars
<1> QED
  BY <1>2, <1>5, <1>12, <1>13, <1>14, <1>15, <1>16, <1>17 DEF IInv, DataInv

(* The message of Other(s) goes into the queue of s, and Other(s) is told. *)
LEMMA TakeData ==
    ASSUME IInv, Alive, NEW t \in Threads, NEW s \in Side, NEW o \in Side, o = Other(s),
           hand' = Post(t, o, "RECEIVED"),
           \A q, y : At(t, q, y) => q = s /\ y = "SENT",
           \A u \in Threads : At(u, s, "SENT") => u = t,
           \A u \in Threads : ~At(u, o, "RECEIVED"),
           UNCHANGED <<endVars, sending, sent>>, sending[o],
           msg' = [msg EXCEPT ![o] = 0],
           ~receiving'[s], receiving'[o] = receiving[o],
           queue'[o] = queue[o], got'[o] = got[o],
           InLine(queue'[s], got'[s], 0, sent[o])
    PROVE  /\ hand' \in [Threads -> SUBSET Events] /\ OneEach' /\ LifeInv' /\ ConnectInv' /\ DataInv'
           /\ msg' \in [Side -> 0..MaxMsg]
<1>1. o # s /\ Other(o) = s /\ \A q \in Side : q = s \/ q = o
  BY Sides
<1>2. "RECEIVED" \in Types
  BY DEF Types
<1>3. /\ hand' \in [Threads -> SUBSET Events] /\ OneEach'
      /\ \A u \in Threads : \A q, y : At(u, q, y)' <=> IF u = t THEN q = o /\ y = "RECEIVED" ELSE At(u, q, y)
  BY <1>2, PostFacts DEF IInv, TypeOK
<1>4. LifeInv' /\ ConnectInv'
  <2>1. \A u \in Threads, q \in Side : At(u, q, "CONNECT")' => At(u, q, "CONNECT")
    BY <1>3
  <2> QED
    BY <2>1, EndsKept
<1>5. msg' \in [Side -> 0..MaxMsg] /\ msg'[o] = 0 /\ msg'[s] = msg[s]
  <2>1. 0 \in 0..MaxMsg
    BY SinprocAssumption
  <2> QED
    BY <1>1, <2>1 DEF IInv, TypeOK
<1>6. HandInv(o)' /\ OrderInv(o)'
  <2>1. \A u \in Threads : ~At(u, s, "SENT")' /\ (At(u, o, "RECEIVED")' <=> u = t)
    BY <1>1, <1>3
  <2>2. OrderInv(o)'
    BY <1>1, <1>5 DEF OrderInv
  <2>3. Token(o)'
    BY <2>1 DEF Token
  <2>4. sending'[o] /\ msg'[o] = 0 /\ ~receiving'[Other(o)]
    BY <1>1, <1>5
  <2>5. \A u \in Threads : ~At(u, Other(o), "SENT")'
    BY <1>1, <2>1
  <2> QED
    BY <2>1, <2>2, <2>3, <2>4, <2>5 DEF HandInv
<1>7. HandInv(s)' /\ OrderInv(s)'
  <2>1. \A u \in Threads : (At(u, o, "SENT")' <=> At(u, o, "SENT")) /\ (At(u, s, "RECEIVED")' <=> At(u, s, "RECEIVED"))
    BY <1>1, <1>3
  <2> QED
    BY <1>5, <2>1, OtherDirection DEF endVars
<1> QED
  BY <1>1, <1>3, <1>4, <1>5, <1>6, <1>7 DEF DataInv

(* SENT at the receiver: the message is taken into the queue, or waits for *)
(* room.                                                                   *)
LEMMA SentStep ==
    ASSUME IInv, Alive, NEW t \in Threads, NEW s \in Side,
           [to |-> s, type |-> "SENT", popped |-> TRUE] \in hand[t],
           HandleSent(t, s)
    PROVE  IInv'
<1> DEFINE o == Other(s)
<1>1. state[s] = "ACTIVE" /\ UNCHANGED <<endVars, sending, sent, got>>
  BY DEF HandleSent
<1>2. o \in Side /\ o # s /\ Other(o) = s /\ \A q \in Side : q = s \/ q = o
  BY Sides
<1>3. "SENT" \in Types
  BY DEF Types
<1>4. \A q, y : At(t, q, y) <=> q = s /\ y = "SENT"
  BY <1>3, InHand DEF IInv
<1>5. /\ HandInv(o) /\ OrderInv(o)
      /\ \A u \in Threads : At(u, s, "SENT") => u = t
      /\ sending[o] /\ msg[o] # 0 /\ ~receiving[s]
      /\ \A u \in Threads : ~At(u, o, "RECEIVED")
  BY <1>2, <1>4 DEF IInv, DataInv, HandInv
<1>6. /\ queue[s] \in Seq(1..MaxMsg) /\ msg[o] \in 0..MaxMsg /\ got[s] \in Nat /\ sent[o] \in Nat
      /\ pipe[s] \in Pipes /\ MaxMsg \in Nat /\ msg[o] \in 1..MaxMsg
  BY <1>2, <1>5, SinprocAssumption DEF IInv, TypeOK
<1>7. InLine(queue[s], got[s], msg[o], sent[o])
  BY <1>2, <1>5 DEF OrderInv
<1> HIDE DEF o
<1>8. CASE Fits(s)
  <2>1. /\ queue' = [queue EXCEPT ![s] = Append(@, msg[o])]
        /\ msg' = [msg EXCEPT ![o] = 0]
        /\ hand' = Post(t, o, "RECEIVED")
        /\ pipe' = IF TellIn(s) THEN [pipe EXCEPT ![s] = PipeReceived(@)] ELSE pipe
        /\ UNCHANGED receiving
    BY <1>8 DEF HandleSent, TakeMessage, Taken, o
  <2>2. /\ Append(queue[s], msg[o]) \in Seq(1..MaxMsg) /\ Append(queue[s], msg[o]) # <<>>
        /\ InLine(Append(queue[s], msg[o]), got[s], 0, sent[o])
    BY <1>6, <1>7, InLineTake
  <2>3. /\ queue' \in [Side -> Seq(1..MaxMsg)] /\ queue'[s] # <<>> /\ queue'[o] = queue[o]
        /\ InLine(queue'[s], got'[s], 0, sent[o])
    BY <1>1, <1>2, <2>1, <2>2 DEF IInv, TypeOK
  <2>4. /\ hand' \in [Threads -> SUBSET Events] /\ OneEach' /\ LifeInv' /\ ConnectInv' /\ DataInv'
        /\ msg' \in [Side -> 0..MaxMsg]
    <3>1. ~receiving'[s] /\ receiving'[o] = receiving[o] /\ queue'[o] = queue[o] /\ got'[o] = got[o]
      BY <1>1, <1>5, <2>1, <2>3
    <3>2. \A q, y : At(t, q, y) => q = s /\ y = "SENT"
      BY <1>4
    <3> QED
      BY <1>1, <1>2, <1>5, <2>1, <2>3, <3>1, <3>2, TakeData DEF o
  <2>5. /\ pipe' \in [Side -> Pipes] /\ pipe'[o] = pipe[o]
        /\ pipe'[s] = IF queue[s] = <<>> THEN PipeReceived(pipe[s]) ELSE pipe[s]
    BY <1>2, <1>6, <2>1, PipeTypes DEF TellIn, IInv, TypeOK
  <2>6. TypeOK'
    BY <1>1, <2>1, <2>3, <2>4, <2>5 DEF IInv, TypeOK, endVars
  <2>7. PipeInv'
    <3>1. PipeAt(s) /\ PipeInv
      BY DEF IInv, PipeInv, PipeAt
    <3>2. /\ PipeReceived(pipe[s]).state = pipe[s].state
          /\ PipeReceived(pipe[s]).outstate = pipe[s].outstate
          /\ pipe[s].instate = "ASYNC" => PipeReceived(pipe[s]).instate = "IDLE"
      BY <1>6, PipeTypes
    <3>3. state' = state /\ sending' = sending
      BY <1>1 DEF endVars
    <3>4. PipeAt(s)'
      <4>1. CASE queue[s] = <<>>
        BY <2>3, <2>5, <3>1, <3>2, <3>3, <4>1 DEF PipeAt
      <4>2. CASE queue[s] # <<>>
        BY <2>3, <2>5, <3>1, <3>3, <4>2 DEF PipeAt
      <4> QED
        BY <4>1, <4>2
    <3> QED
      BY <2>3, <2>5, <3>1, <3>3, <3>4, PipeEach DEF o
  <2>8. EarlyInv'
    <3>1. state' = state /\ sending' = sending /\ receiving' = receiving /\ state[s] \notin Early
      BY <1>1, <2>1 DEF endVars, Early
    <3> QED
      BY <1>2, <2>3, <3>1 DEF IInv, EarlyInv
  <2> QED
    BY <2>4, <2>6, <2>7, <2>8 DEF IInv
<1>9. CASE ~Fits(s)
  <2>1. /\ receiving' = [receiving EXCEPT ![s] = TRUE] /\ hand' = EmptyHand(t)
        /\ UNCHANGED <<queue, msg, pipe>>
    BY <1>9 DEF HandleSent
  <2>2. /\ hand' \in [Threads -> SUBSET Events] /\ OneEach'
        /\ \A u \in Threads : \A q, y : At(u, q, y)' <=> u # t /\ At(u, q, y)
    BY <2>1, EmptyFacts DEF IInv, TypeOK
  <2>3. receiving' \in [Side -> BOOLEAN] /\ receiving'[s] /\ receiving'[o] = receiving[o]
    BY <1>2, <2>1 DEF IInv, TypeOK
  <2>4. TypeOK'
    BY <1>1, <2>1, <2>2, <2>3 DEF IInv, TypeOK, endVars
  <2>5. LifeInv' /\ ConnectInv'
    BY <1>1, <2>2, EndsKept
  <2>6. PipeInv' /\ EarlyInv'
    <3>1. state' = state /\ sending' = sending /\ pipe' = pipe /\ queue' = queue /\ state[s] \notin Early
      BY <1>1, <2>1 DEF endVars, Early
    <3> QED
      BY <1>2, <2>3, <3>1 DEF IInv, PipeInv, EarlyInv
  <2>7. HandInv(o)' /\ OrderInv(o)'
    <3>1. OrderInv(o)'
      BY <1>1, <1>5, <2>1 DEF OrderInv
    <3>2. \A u \in Threads : ~At(u, s, "SENT")' /\ ~At(u, o, "RECEIVED")'
      BY <1>5, <2>2
    <3>3. sending'[o] /\ msg'[o] # 0 /\ receiving'[s]
      BY <1>1, <1>5, <2>1, <2>3
    <3>4. Token(o)'
      BY <1>2, <3>3 DEF Token
    <3> QED
      BY <1>2, <3>1, <3>2, <3>3, <3>4 DEF HandInv
  <2>8. HandInv(s)' /\ OrderInv(s)'
    <3>1. \A u \in Threads : (At(u, o, "SENT")' <=> At(u, o, "SENT")) /\ (At(u, s, "RECEIVED")' <=> At(u, s, "RECEIVED"))
      BY <1>2, <1>4, <2>2
    <3> QED
      BY <1>1, <2>1, <2>3, <3>1, OtherDirection DEF o, endVars
  <2> QED
    BY <1>2, <2>2, <2>4, <2>5, <2>6, <2>7, <2>8 DEF IInv, DataInv
<1> QED
  BY <1>8, <1>9

(* nn_sinproc_recv: a message leaves the queue, and a waiting one may      *)
(* enter.                                                                  *)
LEMMA RecvStep ==
    ASSUME IInv, NEW t \in Threads, NEW s \in Side, Recv(t, s)
    PROVE  IInv'
<1> DEFINE o == Other(s)  rest == Tail(queue[s])
<1>1. /\ Alive /\ hand[t] = {} /\ pipe[s].state = "ACTIVE" /\ pipe[s].instate = "IDLE"
      /\ got' = [got EXCEPT ![s] = Head(queue[s])]
      /\ pipe' = [pipe EXCEPT ![s] = PipeRecv(@, queue'[s] # <<>>)]
      /\ UNCHANGED <<endVars, sending, sent>>
  BY DEF Recv, Calls, MayRecv
<1>2. o \in Side /\ o # s /\ Other(o) = s /\ \A q \in Side : q = s \/ q = o
  BY Sides
<1>3. \A q, y : ~At(t, q, y)
  BY <1>1 DEF At
<1>4. state[s] = "ACTIVE" /\ queue[s] # <<>>
  BY <1>1 DEF IInv, PipeInv
<1>5. HandInv(o) /\ OrderInv(o)
  BY <1>2 DEF IInv, DataInv
<1>6. /\ queue[s] \in Seq(1..MaxMsg) /\ msg[o] \in 0..MaxMsg /\ got[s] \in Nat /\ sent[o] \in Nat
      /\ pipe[s] \in Pipes /\ MaxMsg \in Nat
  BY <1>2, SinprocAssumption DEF IInv, TypeOK
<1>7. InLine(queue[s], got[s], msg[o], sent[o])
  BY <1>2, <1>5 DEF OrderInv
<1>8. /\ rest \in Seq(1..MaxMsg) /\ Head(queue[s]) \in 1..MaxMsg /\ Head(queue[s]) = got[s] + 1
      /\ InLine(rest, got[s] + 1, msg[o], sent[o])
  BY <1>4, <1>6, <1>7, InLineReceive
<1> HIDE DEF o, rest
<1>9. got' \in [Side -> 0..MaxMsg] /\ got'[s] = got[s] + 1 /\ got'[o] = got[o]
  BY <1>1, <1>2, <1>6, <1>8 DEF IInv, TypeOK
<1>10. /\ pipe' \in [Side -> Pipes] /\ pipe'[o] = pipe[o] /\ pipe'[s].state = pipe[s].state
       /\ pipe'[s].outstate = pipe[s].outstate
       /\ pipe'[s].instate = IF queue'[s] # <<>> THEN "IDLE" ELSE "ASYNC"
  <2>1. (queue'[s] # <<>>) \in BOOLEAN
    OBVIOUS
  <2>2. /\ PipeRecv(pipe[s], queue'[s] # <<>>) \in Pipes
        /\ PipeRecv(pipe[s], queue'[s] # <<>>).state = pipe[s].state
        /\ PipeRecv(pipe[s], queue'[s] # <<>>).outstate = pipe[s].outstate
        /\ PipeRecv(pipe[s], queue'[s] # <<>>).instate = IF queue'[s] # <<>> THEN "IDLE" ELSE "ASYNC"
    BY <1>6, <2>1, PipeCalls
  <2>3. pipe'[s] = PipeRecv(pipe[s], queue'[s] # <<>>) /\ pipe'[o] = pipe[o]
    BY <1>1, <1>2 DEF IInv, TypeOK
  <2>4. pipe' \in [Side -> Pipes]
    BY <1>1, <2>2 DEF IInv, TypeOK
  <2> QED
    BY <2>2, <2>3, <2>4
<1>11. ASSUME queue'[o] = queue[o] PROVE PipeInv'
  <2>1. PipeAt(s) /\ PipeInv
    BY DEF IInv, PipeInv, PipeAt
  <2>2. state' = state /\ sending' = sending
    BY <1>1 DEF endVars
  <2>3. PipeAt(s)'
    BY <1>4, <1>10, <2>1, <2>2 DEF PipeAt
  <2> QED
    BY <1>10, <1>11, <2>1, <2>2, <2>3, PipeEach DEF o
<1>12. ASSUME queue'[o] = queue[o], receiving'[o] = receiving[o] PROVE EarlyInv'
  <2>1. state' = state /\ sending' = sending /\ state[s] \notin Early
    BY <1>1, <1>4 DEF endVars, Early
  <2> QED
    BY <1>2, <1>12, <2>1 DEF IInv, EarlyInv
<1>13. CASE LetIn(s, rest)
  <2>1. /\ queue' = [queue EXCEPT ![s] = Append(rest, msg[o])]
        /\ msg' = [msg EXCEPT ![o] = 0]
        /\ hand' = Post(t, o, "RECEIVED")
        /\ receiving' = [receiving EXCEPT ![s] = FALSE]
        /\ receiving[s]
    BY <1>13 DEF Recv, LetIn, Taken, o, rest
  <2>2. sending[o] /\ msg[o] \in 1..MaxMsg /\ \A u \in Threads : ~At(u, s, "SENT") /\ ~At(u, o, "RECEIVED")
    BY <1>2, <1>5, <1>6, <2>1 DEF HandInv
  <2>3. /\ Append(rest, msg[o]) \in Seq(1..MaxMsg) /\ Append(rest, msg[o]) # <<>>
        /\ InLine(Append(rest, msg[o]), got[s] + 1, 0, sent[o])
    <3>1. got[s] + 1 \in Nat
      BY <1>6
    <3> QED
      BY <1>6, <1>8, <2>2, <3>1, InLineTake
  <2>4. /\ queue' \in [Side -> Seq(1..MaxMsg)] /\ queue'[o] = queue[o]
        /\ InLine(queue'[s], got'[s], 0, sent[o])
    BY <1>2, <1>9, <2>1, <2>3 DEF IInv, TypeOK
  <2>5. receiving' \in [Side -> BOOLEAN] /\ ~receiving'[s] /\ receiving'[o] = receiving[o]
    BY <1>2, <2>1 DEF IInv, TypeOK
  <2>6. /\ hand' \in [Threads -> SUBSET Events] /\ OneEach' /\ LifeInv' /\ ConnectInv' /\ DataInv'
        /\ msg' \in [Side -> 0..MaxMsg]
    <3>1. \A q, y : At(t, q, y) => q = s /\ y = "SENT"
      BY <1>3
    <3> QED
      BY <1>1, <1>2, <1>9, <2>1, <2>2, <2>4, <2>5, <3>1, TakeData DEF o
  <2>7. TypeOK'
    BY <1>1, <1>9, <1>10, <2>4, <2>5, <2>6 DEF IInv, TypeOK, endVars
  <2> QED
    BY <1>11, <1>12, <2>4, <2>5, <2>6, <2>7 DEF IInv
<1>14. CASE ~LetIn(s, rest)
  <2>1. queue' = [queue EXCEPT ![s] = rest] /\ UNCHANGED <<msg, hand, receiving>>
    BY <1>14 DEF Recv, rest
  <2>2. queue' \in [Side -> Seq(1..MaxMsg)] /\ queue'[o] = queue[o] /\ queue'[s] = rest
    BY <1>2, <1>8, <2>1 DEF IInv, TypeOK
  <2>3. \A u, q, y : At(u, q, y)' <=> At(u, q, y)
    BY <2>1 DEF At
  <2>4. TypeOK' /\ OneEach'
    BY <1>1, <1>9, <1>10, <2>1, <2>2 DEF IInv, TypeOK, OneEach, endVars
  <2>5. LifeInv' /\ ConnectInv'
    BY <1>1, <2>3, EndsKept
  <2>6. HandInv(o)' /\ OrderInv(o)'
    <3>1. OrderInv(o)'
      BY <1>1, <1>2, <1>8, <1>9, <2>1, <2>2 DEF OrderInv
    <3>2. state' = state /\ sending' = sending /\ receiving' = receiving /\ msg' = msg
      BY <1>1, <2>1 DEF endVars
    <3>3. Token(o) => Token(o)'
      BY <2>3, <3>2 DEF Token
    <3>4. Coming(Other(o))' => Coming(Other(o))
      BY <1>1, <3>2 DEF Coming
    <3> QED
      BY <1>5, <2>3, <3>1, <3>2, <3>3, <3>4 DEF HandInv
  <2>7. HandInv(s)' /\ OrderInv(s)'
    <3>1. \A u \in Threads : (At(u, o, "SENT")' <=> At(u, o, "SENT")) /\ (At(u, s, "RECEIVED")' <=> At(u, s, "RECEIVED"))
      BY <2>3
    <3>2. /\ UNCHANGED state /\ sending'[s] = sending[s] /\ msg'[s] = msg[s] /\ sent'[s] = sent[s]
          /\ receiving'[o] = receiving[o] /\ queue'[o] = queue[o] /\ got'[o] = got[o]
      BY <1>1, <1>9, <2>1, <2>2 DEF endVars
    <3> QED
      BY <1>1, <3>1, <3>2, OtherDirection DEF o
  <2> QED
    BY <1>2, <1>11, <1>12, <2>1, <2>2, <2>4, <2>5, <2>6, <2>7 DEF IInv, DataInv
<1> QED
  BY <1>13, <1>14
-----------------------------------------------------------------------------
(* The owner is told of the connection when the caller is gone already.    *)
LEMMA StrayConnectStep ==
    ASSUME IInv, Alive, NEW t \in Threads, Stray(t)
    PROVE  (\A u \in Threads, q \in Side, y \in {"SENT", "RECEIVED"} : At(u, q, y) => u # t) => IInv'
<1> SUFFICES ASSUME \A u \in Threads, q \in Side, y \in {"SENT", "RECEIVED"} : At(u, q, y) => u # t
             PROVE  IInv'
  OBVIOUS
<1>1. hand' = EmptyHand(t) /\ UNCHANGED <<life, fsm, state, peer, pipe, sending, receiving, queue, msg, sent, got>>
  BY DEF Stray, endVars, msgVars
<1>2. /\ hand' \in [Threads -> SUBSET Events] /\ OneEach'
      /\ \A u \in Threads : \A q, y : At(u, q, y)' <=> u # t /\ At(u, q, y)
  BY <1>1, EmptyFacts DEF IInv, TypeOK
<1>3. TypeOK' /\ LifeInv'
  BY <1>1, <1>2 DEF IInv, TypeOK, LifeInv
<1>4. \A q \in Side : Forward(q) /\ (life'[q] = "none" => life[q] = "none")
  BY <1>1 DEF Forward
<1>5. \A q \in Side : pipe'[q].state = "ACTIVE" => pipe'[q] = pipe[q] /\ state'[q] = state[q]
  BY <1>1
<1>6. (\A u \in Threads : At(u, "acc", "CONNECT")' => life'["acc"] = "none")
      /\ (life'["conn"] = "none" => life'["acc"] = "none")
  BY <1>1, <1>2, Sides DEF IInv, ConnectInv
<1>7. /\ \A u \in Threads, q \in Side, y \in {"SENT", "RECEIVED", "CONNECT"} : At(u, q, y)' => At(u, q, y)
      /\ \A u \in Threads, q \in Side : At(u, q, "SENT") => At(u, q, "SENT")'
      /\ \A u \in Threads, q \in Side : At(u, q, "RECEIVED") => At(u, q, "RECEIVED")'
  BY <1>2
<1> QED
  BY <1>1, <1>2, <1>3, <1>4, <1>5, <1>6, <1>7, ControlStep

(* Handling an event, whichever it is.                                     *)
LEMMA DeliverStep ==
    ASSUME IInv, refusing \in BOOLEAN, NEW t \in Threads, NEW s \in Side, NEW type \in Types,
           Deliver(t, s, type)
    PROVE  IInv'
<1>1. Alive /\ [to |-> s, type |-> type, popped |-> TRUE] \in hand[t]
  BY DEF Deliver
<1>2. \A q, y : At(t, q, y) <=> q = s /\ y = type
  BY <1>1, InHand DEF IInv
<1>3. CASE type = "CONNECT"
  <2>1. s = "acc"
    BY <1>2, <1>3 DEF IInv, ConnectInv
  <2>2. CASE InFreed(s, type)
    <3>1. Stray(t)
      BY <2>2 DEF Deliver
    <3>2. \A u \in Threads, q \in Side, y \in {"SENT", "RECEIVED"} : At(u, q, y) => u # t
      BY <1>2, <1>3
    <3> QED
      BY <1>1, <3>1, <3>2, StrayConnectStep
  <2>3. CASE ~InFreed(s, type)
    <3>1. Accept(t)
      BY <1>3, <2>3 DEF Deliver
    <3> QED
      BY <1>1, <1>3, <2>1, <3>1, AcceptStep
  <2> QED
    BY <2>2, <2>3
<1>4. CASE type # "CONNECT"
  <2>1. type \in Types \ {"CONNECT"}
    BY <1>4
  <2>2. CASE InFreed(s, type)
    <3>1. Stray(t)
      BY <2>2 DEF Deliver
    <3> QED
      BY <1>1, <2>1, <2>2, <3>1, StrayStep
  <2>3. CASE ShutdownEvent(t, s, type)
    BY <1>1, <2>1, <2>3, ShutdownStep
  <2>4. CASE Handler(t, s, type)
    <3>1. fsm[s] = "ACTIVE"
      BY <2>4 DEF Handler
    <3>2. CASE type = "READY" /\ HandleReady(t, s)
      BY <1>1, <3>2, ReadyStep
    <3>3. CASE type = "ACCEPTED" /\ HandleAccepted(t, s)
      BY <1>1, <3>1, <3>3, AcceptedStep
    <3>4. CASE type = "SENT" /\ HandleSent(t, s)
      BY <1>1, <3>4, SentStep
    <3>5. CASE type = "RECEIVED" /\ HandleReceived(t, s)
      BY <1>1, <3>5, ReceivedStep
    <3>6. CASE type = "RECEIVED" /\ IgnoreReceived(t, s)
      <4>1. hand' = EmptyHand(t) /\ UNCHANGED <<endVars, msgVars>> /\ state[s] # "ACTIVE"
        BY <3>6 DEF IgnoreReceived
      <4> QED
        BY <1>1, <2>1, <3>6, <4>1, DroppedStep
    <3>7. CASE type = "DISCONNECT" /\ HandleDisconnect(t, s)
      BY <1>1, <3>1, <3>7, DisconnectStep
    <3>8. CASE BadEvent(t, s, type)
      BY <1>1, <2>1, <3>1, <3>8, BadEventStep
    <3> QED
      BY <2>4, <3>2, <3>3, <3>4, <3>5, <3>6, <3>7, <3>8 DEF Handler
  <2> QED
    BY <1>4, <2>2, <2>3, <2>4 DEF Deliver
<1> QED
  BY <1>3, <1>4

(* Every step keeps the inductive invariant.                               *)
LEMMA NextIInv == IInv /\ refusing \in BOOLEAN /\ [Next]_vars => IInv'
<1> SUFFICES ASSUME IInv, refusing \in BOOLEAN, [Next]_vars PROVE IInv'
  OBVIOUS
<1>1. CASE Step
  <2>1. CASE \E t \in Threads : Connect(t) \/ Pop(t)
    BY <2>1, ConnectStep, PopStep
  <2>2. CASE \E t \in Threads, s \in Side : Stop(t, s) \/ Send(t, s) \/ Recv(t, s)
    BY <2>2, StopStep, SendStep, RecvStep
  <2>3. CASE \E t \in Threads, s \in Side, type \in Types : Deliver(t, s, type)
    BY <2>3, DeliverStep
  <2> QED
    BY <1>1, <2>1, <2>2, <2>3 DEF Step
<1>2. CASE UNCHANGED vars
  <2>1. UNCHANGED <<life, fsm, state, peer, sending, receiving, pipe, queue, msg, hand, sent, got, abort>>
    BY <1>2 DEF vars, endVars, msgVars
  <2>2. \A t, s, y : At(t, s, y)' <=> At(t, s, y)
    BY <2>1 DEF At
  <2>3. TypeOK' /\ OneEach' /\ LifeInv' /\ PipeInv' /\ EarlyInv'
    BY <2>1 DEF IInv, TypeOK, OneEach, LifeInv, PipeInv, EarlyInv
  <2>4. ConnectInv'
    BY <2>1, <2>2 DEF IInv, ConnectInv
  <2>5. \A s \in Side : HandInv(s)' /\ OrderInv(s)'
    <3> SUFFICES ASSUME NEW s \in Side PROVE HandInv(s)' /\ OrderInv(s)'
      OBVIOUS
    <3>1. OrderInv(s) /\ HandInv(s)
      BY DEF IInv, DataInv
    <3>2. OrderInv(s)'
      BY <2>1, <3>1 DEF OrderInv
    <3>3. (Token(s)' <=> Token(s)) /\ (Coming(Other(s))' <=> Coming(Other(s)))
      BY <2>1, <2>2 DEF Token, Coming, Alive
    <3>4. HandInv(s)'
      BY <2>1, <2>2, <3>1, <3>3 DEF HandInv
    <3> QED
      BY <3>2, <3>4
  <2> QED
    BY <2>3, <2>4, <2>5 DEF IInv, DataInv
<1> QED
  BY <1>1, <1>2 DEF Next, Finished

(* The three settings are what they were at the start.                     *)
EnvInv == uses \in Users /\ refusing \in BOOLEAN /\ twice \in BOOLEAN

(* The inductive invariant, with the environment, holds in every reachable *)
(* state.                                                                  *)
LEMMA Invariant == Spec => [](EnvInv /\ IInv)
<1>1. Init => EnvInv /\ IInv
  BY InitIInv, SinprocAssumption DEF Init, EnvInv
<1>2. EnvInv /\ IInv /\ [Next]_vars => (EnvInv /\ IInv)'
  <2>1. EnvInv /\ [Next]_vars => EnvInv'
    BY DEF EnvInv, Next, Finished, vars, envVars
  <2> QED
    BY <2>1, NextIInv DEF EnvInv
<1> QED
  BY <1>1, <1>2, PTL DEF Spec
-----------------------------------------------------------------------------
(* nn_sinproc and what it carries keep their types: the bounds of the      *)
(* message numbers, of the events and of the states hold, however many     *)
(* threads use the two sockets.                                            *)
THEOREM TypeCorrect == Spec => []TypeOK
BY Invariant, PTL DEF IInv

(* sinproc.c:89-155 and 348-373: what NN_PIPE_IN and NN_PIPE_OUT tell the  *)
(* protocol is so: a message is there, the previous one was taken.         *)
THEOREM PipeTellsTheTruth == Spec => []PipeFollowsQueue
<1>1. IInv => PipeFollowsQueue
  BY DEF IInv, PipeInv, PipeFollowsQueue, MayRecv, MaySend
<1> QED
  BY <1>1, Invariant, PTL

(* sinproc.c:89-155 and 348-373: while the connection is up, a message that was sent is in *)
(* exactly one place until the sender hears that it was taken.             *)
THEOREM OneAtATime == Spec => []HandOver
<1>1. IInv => HandOver
  <2> SUFFICES ASSUME IInv, \A q \in Side : state[q] = "ACTIVE", NEW s \in Side
               PROVE  Cardinality({x \in {"sent", "held", "received"} :
                          \/ x = "sent" /\ Due(Other(s), {"SENT"})
                          \/ x = "held" /\ receiving[Other(s)]
                          \/ x = "received" /\ Due(s, {"RECEIVED"})})
                      = IF sending[s] THEN 1 ELSE 0
    BY DEF HandOver
  <2> DEFINE Places == {x \in {"sent", "held", "received"} :
                          \/ x = "sent" /\ Due(Other(s), {"SENT"})
                          \/ x = "held" /\ receiving[Other(s)]
                          \/ x = "received" /\ Due(s, {"RECEIVED"})}
  <2>1. HandInv(s) /\ Other(s) \in Side
    BY Sides DEF IInv, DataInv
  <2>2. /\ Due(Other(s), {"SENT"}) <=> \E t \in Threads : At(t, Other(s), "SENT")
        /\ Due(s, {"RECEIVED"}) <=> \E t \in Threads : At(t, s, "RECEIVED")
    BY DEF Due, At
  <2>3. CASE sending[s]
    <3>1. Token(s)
      BY <2>1, <2>3 DEF HandInv, Coming
    <3>2. PICK x : Places = {x}
      <4>1. CASE receiving[Other(s)]
        <5>1. msg[s] # 0 /\ ~Due(Other(s), {"SENT"}) /\ ~Due(s, {"RECEIVED"})
          BY <2>1, <2>2, <4>1 DEF HandInv
        <5>2. Places = {"held"}
          BY <4>1, <5>1
        <5> QED
          BY <5>2
      <4>2. CASE Due(Other(s), {"SENT"})
        <5>1. msg[s] # 0 /\ ~receiving[Other(s)] /\ ~Due(s, {"RECEIVED"})
          BY <2>1, <2>2, <4>2 DEF HandInv
        <5>2. Places = {"sent"}
          BY <4>2, <5>1
        <5> QED
          BY <5>2
      <4>3. CASE Due(s, {"RECEIVED"})
        <5>1. msg[s] = 0 /\ ~receiving[Other(s)] /\ ~Due(Other(s), {"SENT"})
          BY <2>1, <2>2, <4>3 DEF HandInv
        <5>2. Places = {"received"}
          BY <4>3, <5>1
        <5> QED
          BY <5>2
      <4> QED
        BY <2>2, <3>1, <4>1, <4>2, <4>3 DEF Token
    <3> HIDE DEF Places
    <3>3. Cardinality(Places) = 1
      BY <3>2, FS_Singleton
    <3> QED
      BY <2>3, <3>3 DEF Places
  <2>4. CASE ~sending[s]
    <3>1. ~receiving[Other(s)] /\ ~Due(Other(s), {"SENT"}) /\ ~Due(s, {"RECEIVED"})
      BY <2>1, <2>2, <2>4 DEF HandInv
    <3>2. Places = {}
      BY <3>1
    <3> HIDE DEF Places
    <3>3. Cardinality(Places) = 0
      BY <3>2, FS_EmptySet
    <3> QED
      BY <2>4, <3>3 DEF Places
  <2> QED
    BY <2>3, <2>4
<1> QED
  BY <1>1, Invariant, PTL

(* msgqueue.c and sinproc.c:89-155: the receiver gets the messages of a    *)
(* connection in the order in which they were sent, and every one of them. *)
THEOREM InOrder == Spec => []MessagesInOrder
<1>1. IInv => MessagesInOrder
  <2> SUFFICES ASSUME IInv, NEW s \in Side
               PROVE  queue[Other(s)] \o (IF msg[s] = 0 THEN <<>> ELSE <<msg[s]>>)
                      = [i \in 1..sent[s] - got[Other(s)] |-> got[Other(s)] + i]
    BY DEF MessagesInOrder
  <2> DEFINE q == queue[Other(s)]  g == got[Other(s)]  n == sent[s]  m == msg[s]
             tail == IF m = 0 THEN <<>> ELSE <<m>>
             under == q \o tail
  <2>1. InLine(q, g, m, n) /\ Other(s) \in Side
    BY Sides DEF IInv, DataInv, OrderInv
  <2>2. q \in Seq(1..MaxMsg) /\ m \in 0..MaxMsg /\ g \in Nat /\ n \in Nat /\ MaxMsg \in Nat
    BY <2>1, SinprocAssumption DEF IInv, TypeOK
  <2> HIDE DEF q, g, n, m
  <2>3. tail \in Seq(1..MaxMsg) /\ Len(tail) = (IF m = 0 THEN 0 ELSE 1) /\ (m # 0 => tail[1] = m)
    <3>1. CASE m = 0
      <4>1. <<>> \in Seq(1..MaxMsg) /\ Len(<<>>) = 0
        OBVIOUS
      <4> QED
        BY <3>1, <4>1
    <3>2. CASE m # 0
      <4>1. m \in 1..MaxMsg
        BY <2>2, <3>2
      <4>2. <<m>> \in Seq(1..MaxMsg) /\ Len(<<m>>) = 1 /\ <<m>>[1] = m
        BY <4>1
      <4> QED
        BY <3>2, <4>2
    <3> QED
      BY <3>1, <3>2
  <2> HIDE DEF tail
  <2>4. /\ under \in Seq(1..MaxMsg)
        /\ Len(under) = Len(q) + Len(tail)
        /\ \A j \in 1..Len(q) : under[j] = q[j]
        /\ \A j \in 1..Len(tail) : under[j + Len(q)] = tail[j]
    <3>1. q \in Seq(1..MaxMsg) /\ tail \in Seq(1..MaxMsg)
      BY <2>2, <2>3
    <3> QED
      BY <3>1, ConcatFacts
  <2> HIDE DEF under
  <2>5. Len(q) \in Nat /\ n - g = Len(q) + Len(tail) /\ \A j \in 1..Len(q) : q[j] = g + j
    BY <2>1, <2>2, <2>3 DEF InLine
  <2>6. ASSUME NEW j \in 1..n - g PROVE under[j] = g + j
    <3>1. CASE j \in 1..Len(q)
      BY <2>4, <2>5, <3>1
    <3>2. CASE j \notin 1..Len(q)
      <4>1. Len(tail) # 0
        <5>1. n - g \in Int /\ j <= n - g /\ j >= 1 /\ j > Len(q)
          BY <2>2, <2>5, <3>2
        <5> QED
          BY <2>5, <5>1
      <4>2. m # 0 /\ Len(tail) = 1 /\ tail[1] = m
        BY <2>3, <4>1
      <4>3. j = Len(q) + 1
        BY <2>2, <2>5, <3>2, <4>2
      <4>4. m = g + Len(q) + 1
        BY <2>1, <2>2, <2>5, <4>2 DEF InLine
      <4>5. under[1 + Len(q)] = tail[1]
        BY <2>4, <4>2
      <4> QED
        BY <2>2, <2>5, <4>2, <4>3, <4>4, <4>5
    <3> QED
      BY <3>1, <3>2
  <2>7. under = [i \in 1..n - g |-> g + i]
    <3>1. under = [i \in 1..Len(under) |-> under[i]]
      BY <2>4
    <3> QED
      BY <2>4, <2>5, <2>6, <3>1
  <2> QED
    BY <2>7 DEF under, tail, q, g, n, m
<1> QED
  BY <1>1, Invariant, PTL
-----------------------------------------------------------------------------
(* One thread makes all the calls.  When it has taken the event that it    *)
(* carries off the queue, no event is on a queue.                          *)
LEMMA Quiet ==
    ASSUME NEW t \in Threads, Serial(t), \A e \in hand[t] : e.popped
    PROVE  /\ \A s, types : ~Active(s, types)
           /\ \A s : StopAsserts(s) = {} /\ MayStop(s)
<1>1. \A u \in Threads : \A e \in hand[u] : e.popped
  BY DEF Serial
<1>2. \A s, types : ~Active(s, types)
  BY <1>1 DEF Active
<1> QED
  BY <1>2 DEF StopAsserts, MayStop, Failed

(* An end that stops then is freed at once.                                *)
LEMMA QuietStop ==
    ASSUME TypeOK, NEW s \in Side, MayStop(s), EnterStopping(s)
    PROVE  /\ life'[s] = "freed" /\ life'[Other(s)] = life[Other(s)]
           /\ state'[s] = "STOPPING" /\ state'[Other(s)] = state[Other(s)]
BY Sides DEF EnterStopping, TypeOK

(* What the phase is, told from what the thread carries.                   *)
LEMMA IdlePhase ==
    ASSUME NEW t \in Threads, Serial(t), hand[t] = {}
    PROVE  \/ state["conn"] = "IDLE" /\ state["acc"] = "IDLE"
           \/ Up
           \/ \E s \in Side : life[s] = "freed" /\ Down(Other(s))
<1>1. \A s, y : ~At(t, s, y)
  BY DEF At
<1> QED
  BY <1>1 DEF Serial, Phase

(* The phase a single thread is in when it handles an event of this type.  *)
LEMMA CarryPhase ==
    ASSUME NEW t \in Threads, Serial(t), hand[t] # {}, NEW s \in Side, NEW type \in Types,
           \A q, y : At(t, q, y) <=> q = s /\ y = type
    PROVE  \/ type = "CONNECT" /\ s = "acc" /\ state["conn"] = "CONNECTING" /\ state["acc"] = "IDLE"
           \/ /\ type = "READY" /\ s = "conn" /\ state["conn"] = "CONNECTING" /\ state["acc"] = "READY"
              /\ peer["acc"]
           \/ /\ type = "ACCEPTED" /\ s = "acc" /\ state["conn"] = "ACTIVE" /\ state["acc"] = "READY"
              /\ peer["acc"] /\ peer["conn"] /\ pipe["conn"].state = "ACTIVE"
           \/ type \in {"SENT", "RECEIVED"} /\ Up
           \/ type = "DISCONNECT" /\ state[Other(s)] = "STOPPING_PEER" /\ state[s] = "ACTIVE" /\ peer[s]
           \/ type = "DISCONNECT" /\ state[s] = "STOPPING_PEER" /\ Down(Other(s))
<1>1. ~Idle(t) /\ Phase(t)
  BY DEF Idle, Serial
<1>2. ASSUME NEW q \in Side, At(t, q, "SENT") \/ At(t, q, "RECEIVED"), Up
      PROVE  type \in {"SENT", "RECEIVED"} /\ Up
  BY <1>2
<1>3. ASSUME NEW q \in Side, state[q] = "STOPPING_PEER", state[Other(q)] = "ACTIVE", peer[Other(q)],
             At(t, Other(q), "DISCONNECT")
      PROVE  type = "DISCONNECT" /\ state[Other(s)] = "STOPPING_PEER" /\ state[s] = "ACTIVE" /\ peer[s]
  <2>1. s = Other(q) /\ type = "DISCONNECT"
    BY <1>3
  <2>2. Other(s) = q
    BY <2>1, Sides
  <2> QED
    BY <1>3, <2>1, <2>2
<1>4. ASSUME NEW q \in Side, state[q] = "STOPPING_PEER", Down(Other(q)), At(t, q, "DISCONNECT")
      PROVE  type = "DISCONNECT" /\ state[s] = "STOPPING_PEER" /\ Down(Other(s))
  BY <1>4
<1> QED
  BY <1>1, <1>2, <1>3, <1>4 DEF Phase

(* A step of that thread in which no assertion fails.                      *)
LEMMA Unharmed ==
    ASSUME hand \in [Threads -> SUBSET Events], OneEach, NEW t \in Threads, Serial(t), abort' = {},
           \/ UNCHANGED hand
           \/ hand' = EmptyHand(t)
           \/ \E s \in Side, y \in Types : hand' = Post(t, s, y),
           Phase(t)'
    PROVE  Serial(t)'
<1>1. \A u \in Threads \ {t} : hand'[u] = hand[u]
  <2>1. CASE hand' = EmptyHand(t)
    BY <2>1, EmptyFacts
  <2>2. ASSUME NEW s \in Side, NEW y \in Types, hand' = Post(t, s, y)
        PROVE  \A u \in Threads \ {t} : hand'[u] = hand[u]
    BY <2>2, PostFacts
  <2> QED
    BY <2>1, <2>2
<1> QED
  BY <1>1 DEF Serial, Alive
-----------------------------------------------------------------------------
(* Stopping an end: the phases from the use to the disconnection.          *)
LEMMA SerialStop ==
    ASSUME IInv, NEW t \in Threads, Solo(t), Serial(t), NEW s \in Side, Stop(t, s)
    PROVE  Serial(t)'
<1>1. /\ hand[t] = {} /\ life[s] = "live" /\ fsm[s] = "ACTIVE" /\ state[s] \in Running
      /\ UNCHANGED peer /\ TypeOK
  BY DEF Stop, Calls, IInv, LifeInv
<1>2. Other(s) \in Side /\ Other(Other(s)) = s /\ \A q \in Side : q = s \/ q = Other(s)
  BY Sides
<1>3. hand \in [Threads -> SUBSET Events] /\ OneEach
  BY DEF IInv, TypeOK
<1>4. CASE Up
  <2>1. state[s] = "ACTIVE" /\ state[Other(s)] = "ACTIVE" /\ peer[s] /\ peer[Other(s)]
    BY <1>2, <1>4 DEF Up
  <2>2. /\ state' = [state EXCEPT ![s] = "STOPPING_PEER"]
        /\ hand' = Post(t, Other(s), "DISCONNECT")
        /\ abort' = PeerThere(s)
    BY <2>1 DEF Stop
  <2>3. life[Other(s)] = "live"
    BY <1>2, <2>1 DEF IInv, TypeOK, LifeInv
  <2>4. abort' = {}
    BY <2>1, <2>2, <2>3 DEF PeerThere, Failed
  <2>5. "DISCONNECT" \in Types
    BY DEF Types
  <2>6. At(t, Other(s), "DISCONNECT")'
    BY <1>2, <1>3, <2>2, <2>5, PostFacts
  <2>7. state'[s] = "STOPPING_PEER" /\ state'[Other(s)] = "ACTIVE" /\ peer'[Other(s)]
    BY <1>1, <1>2, <2>1, <2>2, Sides DEF TypeOK
  <2>8. Phase(t)'
    BY <2>6, <2>7 DEF Phase
  <2> QED
    BY <1>2, <1>3, <2>2, <2>4, <2>5, <2>8, Unharmed
<1>5. ASSUME NEW q \in Side, life[q] = "freed", Down(Other(q)) PROVE Serial(t)'
  <2>1. q = Other(s) /\ state[s] = "DISCONNECTED"
    BY <1>1, <1>2, <1>5 DEF Down
  <2>2. EnterStopping(s) /\ abort' = StopAsserts(s) /\ UNCHANGED <<hand, pipe>>
    BY <2>1 DEF Stop
  <2>3. StopAsserts(s) = {} /\ MayStop(s)
    BY <1>1, Quiet
  <2>4. life'[s] = "freed" /\ life'[q] = "freed"
    BY <1>1, <1>5, <2>1, <2>2, <2>3, QuietStop
  <2>5. Phase(t)'
    BY <1>1, <1>2, <2>1, <2>2, <2>4 DEF Phase, Down, Idle
  <2> QED
    BY <1>3, <2>2, <2>3, <2>5, Unharmed
<1>6. ~(state["conn"] = "IDLE" /\ state["acc"] = "IDLE")
  BY <1>1, Sides DEF Running
<1> QED
  BY <1>1, <1>4, <1>5, <1>6, IdlePhase

(* Taking an event from the queue changes no phase.                        *)
LEMMA SerialPop ==
    ASSUME IInv, NEW t \in Threads, Serial(t), Pop(t)
    PROVE  Serial(t)'
<1>1. /\ hand' \in [Threads -> SUBSET Events] /\ OneEach'
      /\ \A u \in Threads : \A q, y : At(u, q, y)' <=> At(u, q, y)
      /\ \A u \in Threads \ {t} : hand'[u] = hand[u]
  BY PopFacts DEF IInv, TypeOK
<1>2. hand[t] # {} /\ UNCHANGED <<life, state, peer, pipe, abort>>
  BY DEF Pop, endVars, msgVars
<1>3. Phase(t)'
  <2>1. ~Idle(t) /\ Phase(t)
    BY <1>2 DEF Serial, Idle
  <2>2. (Up' <=> Up) /\ \A q \in Side : Down(q)' <=> Down(q)
    BY <1>2 DEF Up, Down
  <2>3. \A q \in Side : Other(q) \in Side
    BY Sides
  <2> QED
    BY <1>1, <1>2, <2>1, <2>2, <2>3 DEF Phase
<1> QED
  BY <1>1, <1>2, <1>3 DEF Serial, Alive

(* nn_sinproc_connect: the first phase of the handshake.                   *)
LEMMA SerialConnect ==
    ASSUME IInv, NEW t \in Threads, Solo(t), Serial(t), Connect(t)
    PROVE  Serial(t)'
<1>1. /\ life["conn"] = "none"
      /\ state' = [state EXCEPT !["conn"] = "CONNECTING"]
      /\ hand' = Post(t, "acc", "CONNECT")
      /\ abort' = {}
  BY DEF Connect, StartedAgain, Solo, Failed
<1>2. state["acc"] = "IDLE"
  BY <1>1, Sides DEF IInv, ConnectInv, LifeInv
<1>3. state'["conn"] = "CONNECTING" /\ state'["acc"] = "IDLE"
  BY <1>1, <1>2, Sides DEF IInv, TypeOK
<1>4. hand \in [Threads -> SUBSET Events] /\ OneEach /\ "CONNECT" \in Types
  BY DEF IInv, TypeOK, Types, Handshake
<1>5. At(t, "acc", "CONNECT")'
  BY <1>1, <1>4, Sides, PostFacts
<1>6. Phase(t)'
  BY <1>3, <1>5 DEF Phase
<1> QED
  BY <1>1, <1>4, <1>6, Sides, Unharmed

(* The protocol uses the pipe: the connection is up.                       *)
LEMMA UpWhenUsed ==
    ASSUME IInv, NEW t \in Threads, Serial(t), hand[t] = {}, NEW s \in Side, pipe[s].state = "ACTIVE"
    PROVE  Up /\ peer[s] /\ state[s] = "ACTIVE" /\ life[Other(s)] = "live"
<1>1. state[s] = "ACTIVE" /\ Other(s) \in Side /\ \A q \in Side : s = q \/ s = Other(q)
  BY Sides DEF IInv, PipeInv
<1>2. ASSUME NEW q \in Side, life[q] = "freed", Down(Other(q)) PROVE FALSE
  <2>1. s = q \/ s = Other(q)
    BY <1>1
  <2> QED
    BY <1>1, <1>2, <2>1 DEF Down, IInv, LifeInv
<1>3. Up
  BY <1>1, <1>2, Sides, IdlePhase
<1> QED
  BY <1>1, <1>3 DEF Up, IInv, TypeOK, LifeInv

(* Both ends stay up in a step that leaves their states alone.             *)
LEMMA UpStays ==
    ASSUME Up, UNCHANGED endVars, \A q \in Side : pipe'[q].state = pipe[q].state
    PROVE  Up'
BY DEF Up, endVars

(* Sending happens while both ends are up.                                 *)
LEMMA SerialSend ==
    ASSUME IInv, NEW t \in Threads, Serial(t), NEW s \in Side, Send(t, s)
    PROVE  Serial(t)'
<1>1. /\ hand[t] = {} /\ pipe[s].state = "ACTIVE" /\ MaySend(pipe[s])
      /\ pipe' = [pipe EXCEPT ![s] = PipeSend(@, FALSE)]
      /\ hand' = Post(t, Other(s), "SENT")
      /\ abort' = Failed("sinproc.c:100", state[s] = "ACTIVE") \cup
                Failed("sinproc.c:101", ~sending[s]) \cup PeerThere(s) \cup
                Failed("queue.c:23", ~Active(Other(s), {"SENT"}))
      /\ UNCHANGED endVars
  BY DEF Send, Calls
<1>2. Up /\ peer[s] /\ state[s] = "ACTIVE" /\ life[Other(s)] = "live"
  BY <1>1, UpWhenUsed
<1>3. ~sending[s]
  BY <1>1 DEF IInv, PipeInv, MaySend
<1>4. ~Active(Other(s), {"SENT"})
  BY <1>1, Quiet
<1>5. abort' = {}
  BY <1>1, <1>2, <1>3, <1>4 DEF PeerThere, Failed
<1>6. Up'
  <2>1. \A q \in Side : pipe[q] \in Pipes
    BY DEF IInv, TypeOK
  <2>2. \A q \in Side : pipe'[q].state = pipe[q].state
    BY <1>1, <2>1, PipeCalls DEF IInv, TypeOK
  <2> QED
    BY <1>1, <1>2, <2>2, UpStays
<1>7. hand \in [Threads -> SUBSET Events] /\ OneEach /\ "SENT" \in Types /\ Other(s) \in Side
  BY Sides DEF IInv, TypeOK, Types
<1>8. At(t, Other(s), "SENT")'
  BY <1>1, <1>7, PostFacts
<1>9. Phase(t)'
  BY <1>6, <1>7, <1>8 DEF Phase
<1> QED
  BY <1>1, <1>5, <1>7, <1>9, Unharmed

(* Receiving keeps both ends up.                                           *)
LEMMA SerialRecv ==
    ASSUME IInv, NEW t \in Threads, Serial(t), NEW s \in Side, Recv(t, s)
    PROVE  Serial(t)'
<1>1. /\ hand[t] = {} /\ pipe[s].state = "ACTIVE"
      /\ pipe' = [pipe EXCEPT ![s] = PipeRecv(@, queue'[s] # <<>>)]
      /\ UNCHANGED endVars
      /\ \/ /\ hand' = Post(t, Other(s), "RECEIVED")
            /\ abort' = Failed("sinproc.c:129", state[s] = "ACTIVE") \cup PeerThere(s)
         \/ /\ UNCHANGED hand
            /\ abort' = Failed("sinproc.c:129", state[s] = "ACTIVE")
  BY DEF Recv, Calls
<1>2. Up /\ peer[s] /\ state[s] = "ACTIVE" /\ life[Other(s)] = "live"
  BY <1>1, UpWhenUsed
<1>3. abort' = {}
  BY <1>1, <1>2 DEF PeerThere, Failed
<1>4. Up'
  <2>1. pipe[s] \in Pipes /\ (queue'[s] # <<>>) \in BOOLEAN
    BY DEF IInv, TypeOK
  <2>2. PipeRecv(pipe[s], queue'[s] # <<>>).state = pipe[s].state
    BY <2>1, PipeCalls
  <2>3. \A q \in Side : pipe'[q].state = pipe[q].state
    BY <1>1, <2>2 DEF IInv, TypeOK
  <2> QED
    BY <1>1, <1>2, <2>3, UpStays
<1>5. hand \in [Threads -> SUBSET Events] /\ OneEach /\ "RECEIVED" \in Types /\ Other(s) \in Side
  BY Sides DEF IInv, TypeOK, Types
<1>6. Phase(t)'
  <2>1. CASE hand' = Post(t, Other(s), "RECEIVED")
    <3>1. At(t, Other(s), "RECEIVED")'
      BY <1>5, <2>1, PostFacts
    <3> QED
      BY <1>4, <1>5, <3>1 DEF Phase
  <2>2. CASE UNCHANGED hand
    BY <1>1, <1>4, <2>2 DEF Phase, Idle
  <2> QED
    BY <1>1, <2>1, <2>2
<1> QED
  BY <1>1, <1>3, <1>5, <1>6, Unharmed
-----------------------------------------------------------------------------
(* The event that the thread carries is handled: one lemma per type.       *)
LEMMA SerialAccept ==
    ASSUME IInv, NEW t \in Threads, Serial(t), state["conn"] = "CONNECTING", Accept(t)
    PROVE  Serial(t)'
<1>1. /\ state' = [state EXCEPT !["acc"] = "READY"]
      /\ peer' = [peer EXCEPT !["acc"] = TRUE]
      /\ hand' = Post(t, "conn", "READY")
      /\ abort' = Failed("peer is NULL or freed", life["conn"] = "live")
  BY DEF Accept
<1>2. life["conn"] = "live"
  BY Sides DEF IInv, TypeOK, LifeInv
<1>3. state'["conn"] = "CONNECTING" /\ state'["acc"] = "READY" /\ peer'["acc"]
  BY <1>1, Sides DEF IInv, TypeOK
<1>4. hand \in [Threads -> SUBSET Events] /\ OneEach /\ "READY" \in Types
  BY DEF IInv, TypeOK, Types, Handshake
<1>5. At(t, "conn", "READY")'
  <2>1. "conn" \in Side
    BY Sides
  <2>2. hand' = Post(t, "conn", "READY")
    BY <1>1
  <2>3. \A q, y : At(t, q, y)' <=> q = "conn" /\ y = "READY"
    BY <1>4, <2>1, <2>2, PostFacts
  <2> QED
    BY <2>3
<1>6. Phase(t)'
  BY <1>3, <1>5 DEF Phase
<1>7. abort' = {}
  BY <1>1, <1>2 DEF Failed
<1> QED
  BY <1>1, <1>4, <1>6, <1>7, Sides, Unharmed

(* READY: the handshake goes on.                                           *)
LEMMA SerialReady ==
    ASSUME IInv, NEW t \in Threads, Solo(t), Serial(t),
           state["acc"] = "READY", peer["acc"], HandleReady(t, "conn")
    PROVE  Serial(t)'
<1>1. PICK added \in {TRUE, ~refusing} :
          /\ pipe' = [pipe EXCEPT !["conn"] = PipeStart(@, added)]
          /\ abort' = Failed("sinproc.c:291", added) \cup
                      Failed("peer is NULL or freed", life[Other("conn")] = "live")
  BY DEF HandleReady
<1>2. added = TRUE
  BY DEF Solo
<1>3. /\ peer' = [peer EXCEPT !["conn"] = TRUE]
      /\ state' = [state EXCEPT !["conn"] = "ACTIVE"]
      /\ hand' = Post(t, "acc", "ACCEPTED")
  BY Sides DEF HandleReady
<1>4. life["acc"] = "live"
  BY Sides DEF IInv, TypeOK, LifeInv
<1>5. abort' = {}
  BY <1>1, <1>2, <1>4, Sides DEF Failed
<1>6. pipe'["conn"].state = "ACTIVE"
  <2>1. pipe["conn"] \in Pipes
    BY Sides DEF IInv, TypeOK
  <2>2. PipeStart(pipe["conn"], TRUE).state = "ACTIVE"
    BY <2>1 DEF PipeStart, Pipes
  <2> QED
    BY <1>1, <1>2, <2>2, Sides DEF IInv, TypeOK
<1>7. state'["conn"] = "ACTIVE" /\ state'["acc"] = "READY" /\ peer'["acc"] /\ peer'["conn"]
  BY <1>3, Sides DEF IInv, TypeOK
<1>8. hand \in [Threads -> SUBSET Events] /\ OneEach /\ "ACCEPTED" \in Types
  BY DEF IInv, TypeOK, Types, Handshake
<1>9. At(t, "acc", "ACCEPTED")'
  BY <1>3, <1>8, Sides, PostFacts
<1>10. Phase(t)'
  BY <1>6, <1>7, <1>9 DEF Phase
<1> QED
  BY <1>3, <1>5, <1>8, <1>10, Sides, Unharmed

(* ACCEPTED: the handshake is done and both ends are up.                   *)
LEMMA SerialAccepted ==
    ASSUME IInv, NEW t \in Threads, Solo(t), Serial(t),
           state["conn"] = "ACTIVE", peer["acc"], peer["conn"], pipe["conn"].state = "ACTIVE",
           HandleAccepted(t, "acc")
    PROVE  Serial(t)'
<1>1. /\ pipe' = [pipe EXCEPT !["acc"] = PipeStart(@, TRUE)]
      /\ state' = [state EXCEPT !["acc"] = "ACTIVE"]
      /\ hand' = EmptyHand(t)
      /\ UNCHANGED <<life, fsm, peer, abort>>
  BY DEF HandleAccepted, Solo
<1>2. pipe'["acc"].state = "ACTIVE" /\ pipe'["conn"] = pipe["conn"]
  <2>1. pipe["acc"] \in Pipes
    BY Sides DEF IInv, TypeOK
  <2>2. PipeStart(pipe["acc"], TRUE).state = "ACTIVE"
    BY <2>1 DEF PipeStart, Pipes
  <2> QED
    BY <1>1, <2>2, Sides DEF IInv, TypeOK
<1>3. state'["conn"] = "ACTIVE" /\ state'["acc"] = "ACTIVE" /\ peer'["acc"] /\ peer'["conn"]
  BY <1>1, Sides DEF IInv, TypeOK
<1>4. Up'
  BY <1>2, <1>3, Sides DEF Up
<1>5. hand \in [Threads -> SUBSET Events] /\ OneEach
  BY DEF IInv, TypeOK
<1>6. hand'[t] = {}
  BY <1>1, <1>5, EmptyFacts
<1>7. Phase(t)'
  BY <1>4, <1>6 DEF Phase, Idle
<1>8. abort' = {}
  BY <1>1 DEF Serial, Alive
<1> QED
  BY <1>1, <1>5, <1>7, <1>8, Unharmed

(* SENT and RECEIVED leave both ends up.                                   *)
LEMMA SerialData ==
    ASSUME IInv, NEW t \in Threads, Serial(t), Up, NEW s \in Side,
           \/ [to |-> s, type |-> "SENT", popped |-> TRUE] \in hand[t] /\ HandleSent(t, s)
           \/ [to |-> s, type |-> "RECEIVED", popped |-> TRUE] \in hand[t] /\ HandleReceived(t, s)
    PROVE  Serial(t)'
<1>1. /\ Other(s) \in Side /\ pipe[s] \in Pipes /\ "RECEIVED" \in Types
      /\ hand \in [Threads -> SUBSET Events] /\ OneEach
  BY Sides DEF IInv, TypeOK, Types
<1>2. /\ state[s] = "ACTIVE" /\ peer[s] /\ pipe[s].state = "ACTIVE" /\ life[Other(s)] = "live"
  BY <1>1 DEF Up, IInv, TypeOK, LifeInv
<1>3. PeerThere(s) = {}
  BY <1>2 DEF PeerThere, Failed
<1>4. CASE HandleSent(t, s) /\ Fits(s)
  <2>1. /\ hand' = Post(t, Other(s), "RECEIVED")
        /\ pipe' = IF TellIn(s) THEN [pipe EXCEPT ![s] = PipeReceived(@)] ELSE pipe
        /\ abort' = PeerThere(s) \cup
                    Failed("pipe.c:84", TellIn(s) => MayReceived(pipe[s]))
        /\ UNCHANGED endVars
    BY <1>4 DEF HandleSent, TakeMessage
  <2>2. TellIn(s) => MayReceived(pipe[s])
    BY <1>2 DEF TellIn, MayReceived, IInv, PipeInv
  <2>3. abort' = {}
    BY <1>3, <2>1, <2>2 DEF Failed
  <2>4. \A q \in Side : pipe'[q].state = pipe[q].state
    <3>1. PipeReceived(pipe[s]).state = pipe[s].state
      BY <1>1, PipeTypes
    <3> QED
      BY <2>1, <3>1 DEF IInv, TypeOK
  <2>5. At(t, Other(s), "RECEIVED")'
    BY <1>1, <2>1, PostFacts
  <2>6. Phase(t)'
    BY <1>1, <2>1, <2>4, <2>5, UpStays DEF Phase
  <2> QED
    BY <1>1, <2>1, <2>3, <2>6, Unharmed
<1>5. CASE HandleSent(t, s) /\ ~Fits(s)
  <2>1. hand' = EmptyHand(t) /\ UNCHANGED <<pipe, abort>> /\ UNCHANGED endVars
    BY <1>5 DEF HandleSent
  <2>2. hand'[t] = {}
    BY <1>1, <2>1, EmptyFacts
  <2>3. Phase(t)'
    BY <2>1, <2>2, UpStays DEF Phase, Idle
  <2>4. abort' = {}
    BY <2>1 DEF Serial, Alive
  <2> QED
    BY <1>1, <2>1, <2>3, <2>4, Unharmed
<1>6. CASE [to |-> s, type |-> "RECEIVED", popped |-> TRUE] \in hand[t] /\ HandleReceived(t, s)
  <2>1. /\ pipe' = [pipe EXCEPT ![s] = PipeSent(@)]
        /\ hand' = EmptyHand(t)
        /\ abort' = Failed("sinproc.c:369", sending[s]) \cup
                    Failed("pipe.c:95", MaySent(pipe[s]))
        /\ UNCHANGED endVars
    BY <1>6 DEF HandleReceived
  <2>2. At(t, s, "RECEIVED")
    BY <1>1, <1>6, InHand
  <2>3. sending[s]
    BY <2>2 DEF IInv, DataInv, HandInv
  <2>4. MaySent(pipe[s])
    BY <1>2, <2>3 DEF MaySent, IInv, PipeInv
  <2>5. abort' = {}
    BY <2>1, <2>3, <2>4 DEF Failed
  <2>6. \A q \in Side : pipe'[q].state = pipe[q].state
    <3>1. PipeSent(pipe[s]).state = pipe[s].state
      BY <1>1, PipeTypes
    <3> QED
      BY <2>1, <3>1 DEF IInv, TypeOK
  <2>7. hand'[t] = {}
    BY <1>1, <2>1, EmptyFacts
  <2>8. Phase(t)'
    BY <2>1, <2>6, <2>7, UpStays DEF Phase, Idle
  <2> QED
    BY <1>1, <2>1, <2>5, <2>8, Unharmed
<1> QED
  BY <1>4, <1>5, <1>6

(* DISCONNECT at the end that is still active: it answers.                 *)
LEMMA SerialDisconnect ==
    ASSUME IInv, NEW t \in Threads, Serial(t), NEW s \in Side, \A e \in hand[t] : e.popped,
           state[Other(s)] = "STOPPING_PEER", peer[s], HandleDisconnect(t, s)
    PROVE  Serial(t)'
<1>1. /\ Other(s) \in Side /\ Other(s) # s /\ Other(Other(s)) = s /\ "DISCONNECT" \in Types
      /\ hand \in [Threads -> SUBSET Events] /\ OneEach /\ TypeOK
  BY Sides DEF IInv, TypeOK, Types
<1>2. hand' = Post(t, Other(s), "DISCONNECT")
  BY DEF HandleDisconnect, Answered
<1>3. life[Other(s)] = "live"
  BY <1>1 DEF IInv, TypeOK, LifeInv
<1>4. PeerThere(s) = {}
  BY <1>3 DEF PeerThere, Failed
<1>5. StopAsserts(s) = {} /\ MayStop(s)
  BY Quiet
<1>6. abort' = {} /\ state'[Other(s)] = "STOPPING_PEER" /\ Down(s)'
  <2>1. CASE EnterStopping(s) /\ abort' = PeerThere(s) \cup StopAsserts(s)
    BY <1>1, <1>4, <1>5, <2>1, QuietStop DEF Down
  <2>2. CASE state' = [state EXCEPT ![s] = "DISCONNECTED"] /\ abort' = PeerThere(s)
    BY <1>1, <1>4, <2>2 DEF Down, TypeOK
  <2> QED
    BY <2>1, <2>2 DEF HandleDisconnect
<1>7. At(t, Other(s), "DISCONNECT")'
  BY <1>1, <1>2, PostFacts
<1>8. Phase(t)'
  BY <1>1, <1>6, <1>7 DEF Phase
<1> QED
  BY <1>1, <1>2, <1>6, <1>8, Unharmed

(* DISCONNECT at the end that stops: it is freed.                          *)
LEMMA SerialAnswer ==
    ASSUME IInv, NEW t \in Threads, Serial(t), NEW s \in Side, \A e \in hand[t] : e.popped,
           state[s] = "STOPPING_PEER", Down(Other(s)), ShutdownEvent(t, s, "DISCONNECT")
    PROVE  Serial(t)'
<1>1. /\ hand' = EmptyHand(t) /\ EnterStopping(s)
      /\ abort' = Failed("sinproc.c:210", state[s] = "STOPPING" => FALSE) \cup StopAsserts(s)
  BY DEF ShutdownEvent
<1>2. StopAsserts(s) = {} /\ MayStop(s)
  BY Quiet
<1>3. abort' = {}
  BY <1>1, <1>2 DEF Failed
<1>4. life'[s] = "freed" /\ Down(Other(s))'
  BY <1>1, <1>2, QuietStop DEF IInv, Down
<1>5. hand \in [Threads -> SUBSET Events] /\ OneEach
  BY DEF IInv, TypeOK
<1>6. hand'[t] = {}
  BY <1>1, <1>5, EmptyFacts
<1>7. Phase(t)'
  BY <1>4, <1>6 DEF Phase, Idle
<1> QED
  BY <1>1, <1>3, <1>5, <1>7, Unharmed

(* Handling an event leads from a phase to a phase.                        *)
LEMMA SerialDeliver ==
    ASSUME IInv, NEW t \in Threads, Solo(t), Serial(t), NEW s \in Side, NEW type \in Types,
           Deliver(t, s, type)
    PROVE  Serial(t)'
<1>1. [to |-> s, type |-> type, popped |-> TRUE] \in hand[t]
  BY DEF Deliver
<1>2. (\A q, y : At(t, q, y) <=> q = s /\ y = type) /\ (\A e \in hand[t] : e.popped) /\ hand[t] # {}
  BY <1>1, InHand DEF IInv
<1>3. LifeInv /\ TypeOK /\ Other(s) \in Side
  BY Sides DEF IInv
<1>4. InFreed(s, type) => life[s] = "freed" \/ life[Other(s)] = "freed"
  BY DEF InFreed
<1>5. CASE type = "CONNECT" /\ s = "acc" /\ state["conn"] = "CONNECTING" /\ state["acc"] = "IDLE"
  <2>1. ~InFreed(s, type)
    BY <1>3, <1>4, <1>5, Sides DEF LifeInv
  <2>2. Accept(t)
    BY <1>5, <2>1 DEF Deliver
  <2> QED
    BY <1>5, <2>2, SerialAccept
<1>6. CASE type = "READY" /\ s = "conn" /\ state["conn"] = "CONNECTING" /\ state["acc"] = "READY" /\ peer["acc"]
  <2>1. ~InFreed(s, type) /\ fsm[s] # "STOPPING"
    BY <1>3, <1>4, <1>6, Sides DEF LifeInv
  <2>2. Handler(t, s, type)
    BY <1>6, <2>1 DEF Deliver, ShutdownEvent
  <2>3. HandleReady(t, s)
    BY <1>6, <2>2 DEF Handler, BadEvent, Expected
  <2> QED
    BY <1>6, <2>3, SerialReady
<1>7. CASE /\ type = "ACCEPTED" /\ s = "acc" /\ state["conn"] = "ACTIVE" /\ state["acc"] = "READY"
           /\ peer["acc"] /\ peer["conn"] /\ pipe["conn"].state = "ACTIVE"
  <2>1. ~InFreed(s, type) /\ fsm[s] # "STOPPING"
    BY <1>3, <1>4, <1>7, Sides DEF LifeInv
  <2>2. Handler(t, s, type)
    BY <1>7, <2>1 DEF Deliver, ShutdownEvent
  <2>3. HandleAccepted(t, s)
    BY <1>7, <2>2 DEF Handler, BadEvent, Expected
  <2> QED
    BY <1>7, <2>3, SerialAccepted
<1>8. CASE type \in {"SENT", "RECEIVED"} /\ Up
  <2>1. state[s] = "ACTIVE" /\ state[Other(s)] = "ACTIVE"
    BY <1>3, <1>8 DEF Up
  <2>2. ~InFreed(s, type) /\ fsm[s] # "STOPPING"
    BY <1>3, <1>4, <2>1 DEF LifeInv
  <2>3. Handler(t, s, type)
    BY <1>8, <2>2 DEF Deliver, ShutdownEvent
  <2>4. (type = "SENT" /\ HandleSent(t, s)) \/ (type = "RECEIVED" /\ HandleReceived(t, s))
    BY <1>8, <2>1, <2>3 DEF Handler, BadEvent, Expected, IgnoreReceived
  <2> QED
    BY <1>1, <1>8, <2>4, SerialData
<1>9. CASE type = "DISCONNECT" /\ state[Other(s)] = "STOPPING_PEER" /\ state[s] = "ACTIVE" /\ peer[s]
  <2>1. ~InFreed(s, type) /\ fsm[s] # "STOPPING"
    BY <1>3, <1>4, <1>9 DEF LifeInv
  <2>2. Handler(t, s, type)
    BY <1>9, <2>1 DEF Deliver, ShutdownEvent
  <2>3. HandleDisconnect(t, s)
    BY <1>9, <2>2 DEF Handler, BadEvent, Expected
  <2> QED
    BY <1>2, <1>9, <2>3, SerialDisconnect
<1>10. CASE type = "DISCONNECT" /\ state[s] = "STOPPING_PEER" /\ Down(Other(s))
  <2>1. ~InFreed(s, type) /\ fsm[s] # "ACTIVE"
    BY <1>3, <1>10 DEF LifeInv, InFreed, Handshake, Running
  <2>2. ShutdownEvent(t, s, type)
    BY <1>10, <2>1 DEF Deliver, Handler
  <2> QED
    BY <1>2, <1>10, <2>2, SerialAnswer
<1> QED
  BY <1>2, <1>5, <1>6, <1>7, <1>8, <1>9, <1>10, CarryPhase

(* Every step keeps a lone thread to the phases.                           *)
LEMMA NextSolo == IInv /\ SoloInv /\ [Next]_vars => SoloInv'
<1> SUFFICES ASSUME IInv, SoloInv, [Next]_vars, NEW t \in Threads, Solo(t)' PROVE Serial(t)'
  BY DEF SoloInv
<1>1. Solo(t) /\ Serial(t)
  <2>1. UNCHANGED envVars
    BY DEF Next, Finished, vars
  <2>2. Solo(t)
    BY <2>1 DEF Solo, envVars
  <2> QED
    BY <2>2 DEF SoloInv
<1>2. \A u \in Threads \ {t} : uses[u] = {} /\ hand[u] = {}
  BY <1>1 DEF Solo, Serial
<1>3. ASSUME NEW u \in Threads, Connect(u) \/ Pop(u) PROVE Serial(t)'
  <2>1. u = t
    BY <1>2, <1>3 DEF Connect, Calls, Pop
  <2> QED
    BY <1>1, <1>3, <2>1, SerialConnect, SerialPop
<1>4. ASSUME NEW u \in Threads, NEW s \in Side, Stop(u, s) \/ Send(u, s) \/ Recv(u, s) PROVE Serial(t)'
  <2>1. u = t
    BY <1>2, <1>4 DEF Stop, Send, Recv, Calls
  <2> QED
    BY <1>1, <1>4, <2>1, SerialStop, SerialSend, SerialRecv
<1>5. ASSUME NEW u \in Threads, NEW s \in Side, NEW type \in Types, Deliver(u, s, type) PROVE Serial(t)'
  <2>1. u = t
    BY <1>2, <1>5 DEF Deliver
  <2> QED
    BY <1>1, <1>5, <2>1, SerialDeliver
<1>6. CASE UNCHANGED vars
  <2>1. UNCHANGED <<life, state, peer, pipe, hand, abort>>
    BY <1>6 DEF vars, endVars, msgVars
  <2>2. (\A q, y : At(t, q, y)' <=> At(t, q, y)) /\ (Up' <=> Up) /\ (\A q : Down(q)' <=> Down(q)) /\ (Idle(t)' <=> Idle(t))
    BY <2>1 DEF At, Up, Down, Idle
  <2>3. Phase(t)'
    BY <1>1, <2>1, <2>2 DEF Serial, Phase
  <2> QED
    BY <1>1, <2>1, <2>3 DEF Serial, Alive
<1> QED
  BY <1>3, <1>4, <1>5, <1>6 DEF Next, Step, Finished

(* The first phase is the initial one.                                     *)
LEMMA InitSolo == Init => SoloInv
<1> SUFFICES ASSUME Init, NEW t \in Threads PROVE Serial(t)
  BY DEF SoloInv
<1>1. abort = {} /\ (\A u \in Threads : hand[u] = {}) /\ \A s \in Side : state[s] = "IDLE"
  BY DEF Init
<1> QED
  BY <1>1, Sides DEF Serial, Alive, Phase, Idle

(* sinproc.c, pipe.c, queue.c: when one thread uses both sockets, the      *)
(* protocol takes the pipe and the machine is started once, no assertion   *)
(* and no bad action is met, and no end or event that is gone is used,     *)
(* however the calls to connect, send, receive and stop follow each other. *)
THEOREM NoneFails == Spec => []NoAssertionFails
<1>1. SoloInv => NoAssertionFails
  BY DEF SoloInv, Solo, Serial, NoAssertionFails, OneUser
<1>2. Spec => []SoloInv
  BY InitSolo, NextSolo, Invariant, PTL DEF Spec
<1> QED
  BY <1>1, <1>2, PTL
=============================================================================
