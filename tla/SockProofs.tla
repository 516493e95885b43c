----------------------------- MODULE SockProofs -----------------------------
(* Proofs about Sock for any number of callers and endpoints. *)
EXTENDS Sock, FiniteSetTheorems, TLAPS

USE DEF Dir, Ep, NULL, NOTINLIST

(* A link or a list head that has been redirected still points somewhere. *)
LEMMA SetNextType ==
    ASSUME NEW lk \in [Ep -> Links(Ep)], NEW i, NEW v \in Ep \cup {NULL, NOTINLIST}
    PROVE  SetNext(lk, i, v) \in [Ep -> Links(Ep)]
  BY DEF SetNext, Links

(* Setting the prev link of an item, or of no item.                        *)
LEMMA SetPrevType ==
    ASSUME NEW lk \in [Ep -> Links(Ep)], NEW i, NEW v \in Ep \cup {NULL, NOTINLIST}
    PROVE  SetPrev(lk, i, v) \in [Ep -> Links(Ep)]
  BY DEF SetPrev, Links

(* nn_list_insert at the end keeps heads and links well typed. *)
LEMMA AppendType ==
    ASSUME NEW lk \in [Ep -> Links(Ep)], NEW l \in ListHead(Ep), NEW i \in Ep
    PROVE  /\ AppendHead(l, i) \in ListHead(Ep)
           /\ AppendLinks(l, lk, i) \in [Ep -> Links(Ep)]
  <1>1. AppendHead(l, i) \in ListHead(Ep)
    BY DEF AppendHead, ListHead
  <1>2. [lk EXCEPT ![i] = [prev |-> l.last, next |-> NULL]] \in [Ep -> Links(Ep)]
    BY DEF Links, ListHead
  <1>3. QED
    BY <1>1, <1>2, SetNextType DEF AppendLinks

(* So does nn_list_erase, whatever list it is given. *)
LEMMA EraseType ==
    ASSUME NEW lk \in [Ep -> Links(Ep)], NEW l \in ListHead(Ep), NEW i \in Ep
    PROVE  /\ EraseHead(l, lk, i) \in ListHead(Ep)
           /\ EraseLinks(lk, i) \in [Ep -> Links(Ep)]
  <1>1. /\ lk[i].next \in Ep \cup {NULL, NOTINLIST}
        /\ lk[i].prev \in Ep \cup {NULL, NOTINLIST}
    BY DEF Links
  <1>2. EraseHead(l, lk, i) \in ListHead(Ep)
    BY <1>1 DEF EraseHead, ListHead
  <1>3. SetNext(lk, lk[i].prev, lk[i].next) \in [Ep -> Links(Ep)]
    BY <1>1, SetNextType
  <1>4. SetPrev(SetNext(lk, lk[i].prev, lk[i].next), lk[i].next, lk[i].prev)
            \in [Ep -> Links(Ep)]
    BY <1>1, <1>3, SetPrevType
  <1>5. Unlinked \in Links(Ep)
    BY DEF Unlinked, Links
  <1>6. QED
    BY <1>2, <1>4, <1>5 DEF EraseLinks

(* The functions of pipe.c map records of a pipe to records of a pipe. *)
LEMMA PipeType ==
    ASSUME NEW p \in Pipes, NEW b \in BOOLEAN
    PROVE  /\ PipeInit \in Pipes
           /\ PipeStart(p, b) \in Pipes
           /\ PipeReceived(p) \in Pipes
           /\ PipeSent(p) \in Pipes
           /\ PipeSend(p, b) \in Pipes
           /\ PipeRecv(p, b) \in Pipes
  BY DEF Pipes, PipeStates, InStates, OutStates, PipeInit, PipeStart, PipeReceived,
         PipeSent, PipeSend, PipeRecv

(* nn_sock_onleave sets flags that exist and counters that stay natural. *)
LEMMA OnLeaveType ==
    ASSUME TypeOK, NEW st \in States, NEW fl \in SUBSET Dir,
           NEW rd \in [Dir -> SUBSET Ep], NEW failed, OnLeave(st, fl, rd, failed)
    PROVE  /\ flags' \in SUBSET Dir
           /\ count' \in [Dir -> Nat]
           /\ ready' \in [Dir -> SUBSET Ep]
  <1>1. Offers(st, fl, rd) \in SUBSET Dir
    BY SockAssumption DEF Offers
  <1>2. flags' = Offers(st, fl, rd) /\ ready' = rd
    BY DEF OnLeave
  <1>3. count' \in [Dir -> Nat]
    <2>1. count' = [d \in Dir |->
                      IF d \in {c \in Signalled(Offers(st, fl, rd), fl) : open[c]}
                      THEN count[d] + 1
                      ELSE IF d \in {c \in fl \ Offers(st, fl, rd) : open[c]}
                           THEN 0 ELSE count[d]]
      BY DEF OnLeave
    <2>2. QED
      BY <2>1 DEF TypeOK
  <1>4. QED
    BY <1>1, <1>2, <1>3

(* One turn of nn_sock_send or nn_sock_recv keeps the type invariant.      *)
LEMMA TurnType ==
    ASSUME TypeOK, NEW t \in Callers, NEW d \in Dir, NEW fl \in SUBSET Dir,
           Turn(t, d, fl), want' \in [Callers -> Dir]
    PROVE  TypeOK'
  <1> USE SockAssumption DEF TypeOK, Turn
  <1>1. CASE ClosedTurn(t, fl)
    BY <1>1, OnLeaveType DEF ClosedTurn, epVars
  <1>2. CASE TransferTurn(t, d, fl)
    <2>1. PICK e \in ready[d], sync \in BOOLEAN :
             /\ pipe' = [pipe EXCEPT ![e] = IF d = "IN" THEN PipeRecv(@, sync)
                                            ELSE PipeSend(@, sync)]
             /\ OnLeave(state, fl,
                        IF sync THEN ready ELSE [ready EXCEPT ![d] = @ \ {e}],
                        Failed("pipe.c:156,175",
                               IF d = "IN" THEN MayRecv(pipe[e]) ELSE MaySend(pipe[e])))
      BY <1>2 DEF TransferTurn
    <2>2. e \in Ep
      BY <2>1
    <2>3. pipe' \in [Ep -> Pipes]
      BY <2>1, <2>2, PipeType
    <2>4. (IF sync THEN ready ELSE [ready EXCEPT ![d] = @ \ {e}]) \in [Dir -> SUBSET Ep]
      OBVIOUS
    <2>5. flags' \in SUBSET Dir /\ count' \in [Dir -> Nat] /\ ready' \in [Dir -> SUBSET Ep]
      BY <2>1, <2>4, OnLeaveType
    <2>6. QED
      BY <1>2, <2>3, <2>5 DEF TransferTurn, epVars
  <1>3. CASE EagainTurn(t, d, fl)
    BY <1>3, OnLeaveType DEF EagainTurn, epVars
  <1>4. QED
    BY <1>1, <1>2, <1>3

-----------------------------------------------------------------------------
(* The last section of the termination of a socket.                        *)
LEMMA Finish2Type ==
    ASSUME TypeOK, NEW sd, Finish2(sd)
    PROVE  state' \in States /\ termsem' \in Nat
  BY DEF Finish2, TypeOK, States

(* The type invariant of the socket. *)
THEOREM TypeCorrect == Spec => []TypeOK
<1>1. Init => TypeOK
  <2> SUFFICES ASSUME Init PROVE TypeOK
    OBVIOUS
  <2>1. EmptyList \in ListHead(Ep) /\ Unlinked \in Links(Ep) /\ PipeInit \in Pipes
    BY PipeType DEF EmptyList, ListHead, Unlinked, Links, PipeInit, Pipes, PipeStates,
       InStates, OutStates
  <2>2. 1 \in 1..MaxEp + 1
    BY SockAssumption
  <2>3. QED
    BY <2>1, <2>2, SockAssumption DEF Init, TypeOK, States
<1>2. TypeOK /\ [Next]_vars => TypeOK'
  <2> SUFFICES ASSUME TypeOK, [Next]_vars PROVE TypeOK'
    OBVIOUS
  <2> USE SockAssumption DEF TypeOK
  <2>1. ASSUME NEW t \in Callers, Hold(t) PROVE TypeOK'
    BY <2>1 DEF Hold, epVars, pipeVars
  <2>2. ASSUME NEW t \in Callers, Rele(t) PROVE TypeOK'
    BY <2>2 DEF Rele, DropHold, epVars, pipeVars
  <2>3. ASSUME NEW t \in Callers, NEW d \in Dirs, SendRecv(t, d) PROVE TypeOK'
    <3>1. want' \in [Callers -> Dir]
      BY <2>3 DEF SendRecv
    <3>2. QED
      BY <2>3, <3>1, TurnType DEF SendRecv
  <2>4. ASSUME NEW t \in Callers, Retry(t) PROVE TypeOK'
    <3>1. want[t] \in Dir
      OBVIOUS
    <3>2. (IF Readable(want[t]) THEN flags \cup {want[t]} ELSE flags) \in SUBSET Dir
      BY <3>1
    <3>3. want' \in [Callers -> Dir]
      BY <2>4 DEF Retry
    <3>4. QED
      BY <2>4, <3>1, <3>2, <3>3, TurnType DEF Retry
  <2>5. ASSUME NEW t \in Callers, WakeUp(t) PROVE TypeOK'
    BY <2>5 DEF WakeUp, epVars, pipeVars, sockVars
  <2>6. ASSUME NEW t \in Callers, GiveUp(t) PROVE TypeOK'
    BY <2>6 DEF GiveUp, epVars, pipeVars, sockVars
  <2>7. ASSUME NEW t \in Callers, AddEp(t) PROVE TypeOK'
    <3>1. CASE UNCHANGED <<flags, count, ready, abort, epVars>>
      BY <2>7, <3>1 DEF AddEp, epVars
    <3>2. CASE OnLeave(state, flags, ready, {}) /\ UNCHANGED <<eps, sdeps, link, ep, cursor>>
                /\ eid' = EidAfter(FALSE) /\ lock' = lock
      BY <2>7, <3>2, OnLeaveType DEF AddEp, EidAfter
    <3>3. CASE /\ eid \in Ep
               /\ ep' = [ep EXCEPT ![eid] = "started"]
               /\ eid' = EidAfter(TRUE)
               /\ eps' = AppendHead(eps, eid)
               /\ link' = AppendLinks(eps, link, eid)
               /\ OnLeave(state, flags, ready, Dangling({eps.last}))
               /\ UNCHANGED <<sdeps, cursor, lock>>
      <4>1. eps' \in ListHead(Ep) /\ link' \in [Ep -> Links(Ep)]
        BY <3>3, AppendType
      <4>2. flags' \in SUBSET Dir /\ count' \in [Dir -> Nat] /\ ready' \in [Dir -> SUBSET Ep]
        BY <3>3, OnLeaveType
      <4>3. eid' \in 1..MaxEp + 1
        BY <3>3 DEF EidAfter
      <4>4. QED
        BY <2>7, <3>3, <4>1, <4>2, <4>3 DEF AddEp
    <3>4. QED
      BY <2>7, <3>1, <3>2, <3>3 DEF AddEp
  <2>8. ASSUME NEW t \in Callers, NEW e \in Ep, RmEp(t, e) PROVE TypeOK'
    <3>1. CASE UNCHANGED epVars /\ OnLeave(state, flags, ready, Dangling(Reachable(eps, link)))
      BY <2>8, <3>1, OnLeaveType DEF RmEp, epVars
    <3>2. CASE ~UNCHANGED epVars
      <4> DEFINE unsafe == Dangling(Reachable(eps, link)
                               \cup {link[e].prev, link[e].next, sdeps.last})
      <4>1. /\ eps' = EraseHead(eps, link, e)
            /\ sdeps' = AppendHead(sdeps, e)
            /\ link' = AppendLinks(sdeps, EraseLinks(link, e), e)
            /\ ep' = [ep EXCEPT ![e] = IF @ = "started" THEN "stopping" ELSE @]
            /\ OnLeave(state, flags, ready, unsafe)
            /\ UNCHANGED <<eid, cursor>>
        BY <2>8, <3>2 DEF RmEp
      <4>2. EraseLinks(link, e) \in [Ep -> Links(Ep)]
        BY EraseType
      <4>3. /\ eps' \in ListHead(Ep) /\ sdeps' \in ListHead(Ep)
            /\ link' \in [Ep -> Links(Ep)]
        BY <4>1, <4>2, EraseType, AppendType
      <4>4. flags' \in SUBSET Dir /\ count' \in [Dir -> Nat] /\ ready' \in [Dir -> SUBSET Ep]
        BY <4>1, OnLeaveType
      <4>5. QED
        BY <2>8, <4>1, <4>3, <4>4 DEF RmEp
    <3>3. CASE UNCHANGED epVars /\ ~OnLeave(state, flags, ready, Dangling(Reachable(eps, link)))
      BY <2>8, <3>3, OnLeaveType DEF RmEp, epVars
    <3>4. QED
      BY <3>1, <3>2, <3>3
  <2>9. ASSUME NEW e \in Ep, StartPipe(e) PROVE TypeOK'
    <3>1. PICK added \in BOOLEAN :
             /\ pipe' = [pipe EXCEPT ![e] = PipeStart(@, added)]
             /\ conns' = IF added THEN conns + 1 ELSE conns
             /\ OnLeave(state, flags,
                        IF added /\ state = "ACTIVE"
                        THEN [ready EXCEPT !["OUT"] = @ \cup {e}] ELSE ready,
                        Failed("protocol used after destroy", state # "FINI"))
      BY <2>9 DEF StartPipe
    <3>2. (IF added /\ state = "ACTIVE"
           THEN [ready EXCEPT !["OUT"] = @ \cup {e}] ELSE ready) \in [Dir -> SUBSET Ep]
      OBVIOUS
    <3>3. flags' \in SUBSET Dir /\ count' \in [Dir -> Nat] /\ ready' \in [Dir -> SUBSET Ep]
      BY <3>1, <3>2, OnLeaveType
    <3>4. pipe' \in [Ep -> Pipes]
      BY <3>1, PipeType
    <3>5. QED
      <4>1. conns' = conns + 1 \/ conns' = conns
        BY <3>1, Zenon
      <4>2. conns' \in Int
        BY <4>1
      <4>3. QED
        BY <2>9, <3>3, <3>4, <4>2 DEF StartPipe, epVars, thrVars
  <2>10. ASSUME NEW e \in Ep, NEW d \in Dir, Notify(e, d) PROVE TypeOK'
    <3>1. (IF state = "ACTIVE" THEN [ready EXCEPT ![d] = @ \cup {e}] ELSE ready)
              \in [Dir -> SUBSET Ep]
      OBVIOUS
    <3>2. flags' \in SUBSET Dir /\ count' \in [Dir -> Nat] /\ ready' \in [Dir -> SUBSET Ep]
      BY <2>10, <3>1, OnLeaveType DEF Notify
    <3>3. pipe' \in [Ep -> Pipes]
      BY <2>10, PipeType DEF Notify
    <3>4. QED
      BY <2>10, <3>2, <3>3 DEF Notify, epVars, thrVars
  <2>11. ASSUME NEW e \in Ep, StopPipe(e) PROVE TypeOK'
    <3>1. [c \in Dir |-> ready[c] \ {e}] \in [Dir -> SUBSET Ep]
      OBVIOUS
    <3>2. flags' \in SUBSET Dir /\ count' \in [Dir -> Nat] /\ ready' \in [Dir -> SUBSET Ep]
      BY <2>11, <3>1, OnLeaveType DEF StopPipe
    <3>3. pipe' \in [Ep -> Pipes]
      BY <2>11, PipeType DEF StopPipe
    <3>4. QED
      BY <2>11, <3>2, <3>3 DEF StopPipe, epVars, thrVars
  <2>12. ASSUME NEW e \in Ep, EpStopped(e) PROVE TypeOK'
    <3>1. /\ link' \in [Ep -> Links(Ep)]
          /\ EraseHead(eps, link, e) \in ListHead(Ep)
          /\ EraseHead(sdeps, link, e) \in ListHead(Ep)
      BY <2>12, EraseType DEF EpStopped
    <3>2. CASE EpStoppedActive(e)
      BY <2>12, <3>1, <3>2, OnLeaveType DEF EpStopped, EpStoppedActive, thrVars
    <3>3. CASE EpStoppedStopping(e)
      <4>1. state' \in States /\ termsem' \in Nat
        BY <3>3, Finish2Type DEF EpStoppedStopping
      <4>2. QED
        BY <2>12, <3>1, <3>3, <4>1, OnLeaveType DEF EpStopped, EpStoppedStopping, thrVars
    <3>4. QED
      BY <2>12, <3>2, <3>3 DEF EpStopped
  <2>13. CASE ProtocolStopped
    <3>1. state' \in States /\ termsem' \in Nat
      BY <2>13 DEF ProtocolStopped, States
    <3>2. flags' \in SUBSET Dir /\ count' \in [Dir -> Nat] /\ ready' \in [Dir -> SUBSET Ep]
      BY <2>13, <3>1, OnLeaveType DEF ProtocolStopped
    <3>3. QED
      BY <2>13, <3>1, <3>2 DEF ProtocolStopped, epVars, thrVars
  <2>14. CASE StopBegin
    BY <2>14 DEF StopBegin, EfdStop, pipeVars, ListHead
  <2>15. CASE StopEp
    <3>1. cursor \in Ep
      BY <2>15 DEF StopEp
    <3>2. EraseLinks(link, cursor) \in [Ep -> Links(Ep)]
      BY <3>1, EraseType
    <3>3. link' \in [Ep -> Links(Ep)] /\ sdeps' \in ListHead(Ep) /\ eps' \in ListHead(Ep)
      BY <2>15, <3>1, <3>2, EraseType, AppendType DEF StopEp
    <3>4. cursor' \in Ep \cup {NULL, NOTINLIST}
      BY <2>15, <3>1 DEF StopEp, Links
    <3>5. QED
      BY <2>15, <3>3, <3>4 DEF StopEp, sockVars, pipeVars, thrVars
  <2>16. CASE StopEnd
    BY <2>16, Finish2Type, OnLeaveType DEF StopEnd, epVars
  <2>17. CASE CloserRele
    BY <2>17 DEF CloserRele, DropHold, epVars, pipeVars
  <2>18. CASE AwaitTermsem
    BY <2>18 DEF AwaitTermsem, epVars, pipeVars
  <2>19. CASE AwaitRelesem
    BY <2>19 DEF AwaitRelesem, epVars, pipeVars
  <2>20. CASE TermFree
    BY <2>20 DEF TermFree, epVars, pipeVars
  <2>21. CASE Finished \/ UNCHANGED vars
    BY <2>21 DEF Finished, vars, sockVars, epVars, pipeVars, thrVars
  <2>22. QED
    BY <2>1, <2>2, <2>3, <2>4, <2>5, <2>6, <2>7, <2>8, <2>9, <2>10, <2>11, <2>12,
       <2>13, <2>14, <2>15, <2>16, <2>17, <2>18, <2>19, <2>20, <2>21
    DEF Next, Caller, Transport, Closer
<1>3. QED
  BY <1>1, <1>2, PTL DEF Spec

-----------------------------------------------------------------------------
(* Eventfds.  The two properties about them are not inductive alone: that  *)
(* a leave in the state ACTIVE may unsignal depends on flag, counter and   *)
(* protocol agreeing, and that no leave disturbs the stop signal depends   *)
(* on the state having left ACTIVE by the time the mutex is free again.    *)
EfdInv ==
    /\ lock = "closer" <=> closer = "stopping"
    /\ state = "ACTIVE" <=> closer \in {"open", "stopping"}
    /\ \A d \in Dir : open[d] <=> d \in Dirs /\ closer # "closed"
    /\ closer = "open" =>
          /\ flags = {d \in Dirs : ready[d] # {}}
          /\ \A d \in Dirs : count[d] = IF d \in flags THEN 1 ELSE 0
    /\ closer # "open" => \A d \in Dirs : count[d] > 0
    /\ "nn_efd_unsignal" \notin abort

(* The failure of another assertion is not the one of nn_efd_unsignal.     *)
LEMMA FailedOther ==
    ASSUME NEW line, line # "nn_efd_unsignal", NEW ok
    PROVE  "nn_efd_unsignal" \notin Failed(line, ok)
  BY DEF Failed

(* A leave in the state ACTIVE, with flags that are those of the socket.   *)
LEMMA LeaveActive ==
    ASSUME TypeOK, EfdInv, closer = "open",
           NEW rd \in [Dir -> SUBSET Ep], NEW failed, "nn_efd_unsignal" \notin failed,
           OnLeave("ACTIVE", flags, rd, failed)
    PROVE  /\ flags' = {d \in Dirs : ready'[d] # {}}
           /\ \A d \in Dirs : count'[d] = IF d \in flags' THEN 1 ELSE 0
           /\ "nn_efd_unsignal" \notin abort'
  <1> USE SockAssumption DEF EfdInv, TypeOK
  <1>1. flags' = {d \in Dirs : ready'[d] # {}}
    BY DEF OnLeave, Offers
  <1>2. \A d \in Dirs : d \in Dir /\ open[d]
    OBVIOUS
  <1>3. ASSUME NEW d \in Dirs PROVE count'[d] = IF d \in flags' THEN 1 ELSE 0
    <2>1. count'[d] = IF d \in flags' \ flags THEN count[d] + 1
                      ELSE IF d \in flags \ flags' THEN 0 ELSE count[d]
      BY <1>2 DEF OnLeave, Signalled
    <2>2. QED
      BY <2>1
  <1>4. \A d \in flags \ flags' : count[d] > 0
    OBVIOUS
  <1>5. "nn_efd_unsignal" \notin
           UNION {Failed("nn_efd_unsignal", open[d] => count[d] > 0) : d \in flags \ flags'}
    BY <1>4 DEF Failed
  <1>6. abort' = abort \cup failed \cup
           UNION {Failed("nn_efd_unsignal", open[d] => count[d] > 0) : d \in flags \ flags'}
    BY DEF OnLeave
  <1>7. QED
    BY <1>1, <1>3, <1>5, <1>6

(* A leave in any other state touches neither counters nor signals. *)
LEMMA LeaveInactive ==
    ASSUME TypeOK, EfdInv, NEW st, st # "ACTIVE", NEW fl, NEW rd, NEW failed,
           "nn_efd_unsignal" \notin failed, OnLeave(st, fl, rd, failed)
    PROVE  count' = count /\ "nn_efd_unsignal" \notin abort'
  BY DEF OnLeave, Offers, Signalled, Failed, TypeOK, EfdInv

(* A section that neither starts nor ends the shutdown loop. *)
LEMMA Section ==
    ASSUME TypeOK, EfdInv, lock = "free",
           NEW rd \in [Dir -> SUBSET Ep], NEW fl, closer = "open" => fl = flags,
           NEW failed, "nn_efd_unsignal" \notin failed, OnLeave(state', fl, rd, failed),
           state' = "ACTIVE" <=> state = "ACTIVE", UNCHANGED <<open, lock, closer>>
    PROVE  EfdInv'
  <1>1. CASE state = "ACTIVE"
    BY <1>1, LeaveActive DEF EfdInv
  <1>2. CASE state # "ACTIVE"
    <2>1. count' = count /\ "nn_efd_unsignal" \notin abort'
      BY <1>2, LeaveInactive
    <2>2. closer # "open"
      BY <1>2 DEF EfdInv
    <2>3. QED
      BY <1>2, <2>1, <2>2 DEF EfdInv
  <1>3. QED
    BY <1>1, <1>2

(* One turn of nn_sock_send or nn_sock_recv leaves the event descriptors   *)
(* right.                                                                  *)
LEMMA TurnEfd ==
    ASSUME TypeOK, EfdInv, lock = "free", NEW t \in Callers, NEW d \in Dir, NEW fl,
           closer = "open" => fl = flags, Turn(t, d, fl)
    PROVE  EfdInv'
  <1> USE DEF Turn
  <1>0. state' = state /\ UNCHANGED <<open, lock, closer>>
    OBVIOUS
  <1>1. CASE ClosedTurn(t, fl)
    <2>1. OnLeave(state, fl, ready, {}) /\ ready \in [Dir -> SUBSET Ep]
      BY <1>1 DEF ClosedTurn, TypeOK
    <2>2. QED
      BY <1>0, <2>1, Section
  <1>2. CASE TransferTurn(t, d, fl)
    <2>1. PICK e \in ready[d], sync \in BOOLEAN :
             LET may == IF d = "IN" THEN MayRecv(pipe[e]) ELSE MaySend(pipe[e])
             IN  OnLeave(state, fl,
                         IF sync THEN ready ELSE [ready EXCEPT ![d] = @ \ {e}],
                         Failed("pipe.c:156,175", may))
      BY <1>2 DEF TransferTurn
    <2> DEFINE rd  == IF sync THEN ready ELSE [ready EXCEPT ![d] = @ \ {e}]
               may == IF d = "IN" THEN MayRecv(pipe[e]) ELSE MaySend(pipe[e])
               bad == Failed("pipe.c:156,175", may)
    <2>2. rd \in [Dir -> SUBSET Ep]
      BY DEF TypeOK
    <2>3. "nn_efd_unsignal" \notin bad
      BY FailedOther
    <2>4. OnLeave(state, fl, rd, bad)
      BY <2>1
    <2> HIDE DEF rd, bad
    <2>5. QED
      BY <1>0, <2>2, <2>3, <2>4, Section
  <1>3. CASE EagainTurn(t, d, fl)
    <2>1. OnLeave(state, fl, ready, {}) /\ ready \in [Dir -> SUBSET Ep]
      BY <1>3 DEF EagainTurn, TypeOK
    <2>2. QED
      BY <1>0, <2>1, Section
  <1>4. QED
    BY <1>1, <1>2, <1>3

(* Every step keeps EfdInv.                                                *)
LEMMA EfdStep == TypeOK /\ EfdInv /\ [Next]_vars => EfdInv'
  <1> SUFFICES ASSUME TypeOK, EfdInv, [Next]_vars PROVE EfdInv'
    OBVIOUS
  <1>r. ready \in [Dir -> SUBSET Ep]
    BY DEF TypeOK
  <1>f. "nn_efd_unsignal" \notin {}
    OBVIOUS
  <1>d. \A S : "nn_efd_unsignal" \notin Dangling(S)
    BY DEF Dangling, Failed
  <1>1. ASSUME NEW t \in Callers, Hold(t) PROVE EfdInv'
    BY <1>1 DEF Hold, epVars, pipeVars, EfdInv
  <1>2. ASSUME NEW t \in Callers, Rele(t) PROVE EfdInv'
    BY <1>2 DEF Rele, epVars, pipeVars, EfdInv
  <1>3. ASSUME NEW t \in Callers, NEW d \in Dirs, SendRecv(t, d) PROVE EfdInv'
    <2>1. d \in Dir
      BY SockAssumption
    <2>2. QED
      BY <1>3, <2>1, TurnEfd DEF SendRecv, Enter
  <1>4. ASSUME NEW t \in Callers, Retry(t) PROVE EfdInv'
    <2> DEFINE fl == IF Readable(want[t]) THEN flags \cup {want[t]} ELSE flags
    <2>1. want[t] \in Dir /\ Turn(t, want[t], fl) /\ lock = "free"
      BY <1>4 DEF Retry, TypeOK, Enter
    <2>2. closer = "open" => fl = flags
      BY <2>1 DEF EfdInv, Readable
    <2> HIDE DEF fl
    <2>3. QED
      BY <2>1, <2>2, TurnEfd
  <1>5. ASSUME NEW t \in Callers, WakeUp(t) \/ GiveUp(t) PROVE EfdInv'
    BY <1>5 DEF WakeUp, GiveUp, sockVars, epVars, pipeVars, EfdInv
  <1>6. ASSUME NEW t \in Callers, AddEp(t) PROVE EfdInv'
    <2>1. CASE lock' = "leaked" /\ UNCHANGED <<flags, count, ready, abort, epVars>>
      BY <1>6, <2>1 DEF AddEp, Enter, EfdInv
    <2>2. CASE \E S : OnLeave(state, flags, ready, Dangling(S)) /\ lock' = lock
      BY <1>6, <1>r, <1>d, <2>2, Section DEF AddEp, Enter
    <2>3. CASE OnLeave(state, flags, ready, {}) /\ lock' = lock
      BY <1>6, <1>r, <1>f, <2>3, Section DEF AddEp, Enter
    <2>4. QED
      BY <1>6, <2>1, <2>2, <2>3 DEF AddEp
  <1>7. ASSUME NEW t \in Callers, NEW e \in Ep, RmEp(t, e) PROVE EfdInv'
    <2>1. \E S : OnLeave(state, flags, ready, Dangling(S))
      BY <1>7 DEF RmEp
    <2>2. QED
      BY <1>7, <1>r, <1>d, <2>1, Section DEF RmEp, Enter
  <1>8. ASSUME NEW e \in Ep, StartPipe(e) PROVE EfdInv'
    <2>1. PICK added \in BOOLEAN :
             OnLeave(state, flags,
                     IF added /\ state = "ACTIVE"
                     THEN [ready EXCEPT !["OUT"] = @ \cup {e}] ELSE ready,
                     Failed("protocol used after destroy", state # "FINI"))
      BY <1>8 DEF StartPipe
    <2>2. (IF added /\ state = "ACTIVE"
           THEN [ready EXCEPT !["OUT"] = @ \cup {e}] ELSE ready) \in [Dir -> SUBSET Ep]
      BY <1>r
    <2>3. "nn_efd_unsignal" \notin Failed("protocol used after destroy", state # "FINI")
      BY FailedOther
    <2>4. QED
      BY <1>8, <2>1, <2>2, <2>3, Section DEF StartPipe, Enter, thrVars
  <1>9. ASSUME NEW e \in Ep, NEW d \in Dir, Notify(e, d) PROVE EfdInv'
    <2>1. (IF state = "ACTIVE" THEN [ready EXCEPT ![d] = @ \cup {e}] ELSE ready)
              \in [Dir -> SUBSET Ep]
      BY <1>r
    <2>2. QED
      BY <1>9, <1>f, <2>1, Section DEF Notify, Enter, thrVars
  <1>10. ASSUME NEW e \in Ep, StopPipe(e) PROVE EfdInv'
    <2>1. [d \in Dir |-> ready[d] \ {e}] \in [Dir -> SUBSET Ep]
      BY <1>r
    <2>2. "nn_efd_unsignal" \notin Failed("sock.c:924", Counted(pipe[e]) => conns >= 1)
      BY FailedOther
    <2>3. QED
      BY <1>10, <2>1, <2>2, Section DEF StopPipe, Enter, thrVars
  <1>11. ASSUME NEW e \in Ep, EpStopped(e) PROVE EfdInv'
    <2>1. lock = "free" /\ UNCHANGED <<open, lock, closer>>
      BY <1>11 DEF EpStopped, Enter, thrVars
    <2>2. CASE EpStoppedActive(e)
      BY <1>r, <1>d, <2>1, <2>2, Section DEF EpStoppedActive
    <2>3. CASE EpStoppedStopping(e)
      <3>1. state' # "ACTIVE" /\ state # "ACTIVE"
        BY <2>3 DEF EpStoppedStopping, Finish2
      <3>2. "nn_efd_unsignal" \notin
               Dangling({link[e].prev, link[e].next}) \cup Finish2Asserts(eps, sdeps')
        BY <1>d, FailedOther DEF Finish2Asserts
      <3>3. closer # "open"
        BY <3>1 DEF EfdInv
      <3>4. QED
        BY <1>r, <2>1, <2>3, <3>1, <3>2, <3>3, Section DEF EpStoppedStopping
    <2>4. QED
      BY <1>11, <2>2, <2>3 DEF EpStopped
  <1>12. CASE ProtocolStopped
    <2>1. /\ lock = "free" /\ UNCHANGED <<open, lock, closer>>
          /\ state # "ACTIVE" /\ state' # "ACTIVE"
      BY <1>12 DEF ProtocolStopped, Enter, thrVars
    <2>2. "nn_efd_unsignal" \notin Failed("sock.c:784", StoppedEventSrc = FsmAction)
      BY FailedOther
    <2>3. closer # "open"
      BY <2>1 DEF EfdInv
    <2>4. QED
      BY <1>12, <1>r, <2>1, <2>2, <2>3, Section DEF ProtocolStopped
  <1>13. CASE StopBegin
    <2>1. \A d \in Dirs : count'[d] > 0
      BY <1>13, SockAssumption DEF StopBegin, EfdStop, EfdInv, TypeOK
    <2>2. "nn_efd_unsignal" \notin abort'
      BY <1>13 DEF StopBegin, Failed
    <2>3. QED
      BY <1>13, <2>1, <2>2 DEF StopBegin, EfdInv
  <1>14. CASE StopEp
    <2>1. "nn_efd_unsignal" \notin abort'
      BY <1>14, <1>d, FailedOther DEF StopEp
    <2>2. QED
      BY <1>14, <2>1 DEF StopEp, sockVars, pipeVars, thrVars, EfdInv
  <1>15. CASE StopEnd
    <2>1. state' # "ACTIVE"
      BY <1>15 DEF StopEnd, Finish2
    <2>2. "nn_efd_unsignal" \notin Finish2Asserts(eps, sdeps)
      BY FailedOther DEF Finish2Asserts
    <2>3. count' = count /\ "nn_efd_unsignal" \notin abort'
      BY <1>15, <2>1, <2>2, LeaveInactive DEF StopEnd
    <2>4. QED
      BY <1>15, <2>1, <2>3 DEF StopEnd, EfdInv
  <1>16. CASE CloserRele \/ AwaitTermsem \/ AwaitRelesem
    BY <1>16 DEF CloserRele, AwaitTermsem, AwaitRelesem, epVars, pipeVars, EfdInv
  <1>17. CASE TermFree
    BY <1>17 DEF TermFree, Failed, epVars, pipeVars, EfdInv, Enter, TypeOK
  <1>18. CASE Finished \/ UNCHANGED vars
    BY <1>18 DEF Finished, vars, sockVars, epVars, pipeVars, thrVars, EfdInv
  <1>19. QED
    BY <1>1, <1>2, <1>3, <1>4, <1>5, <1>6, <1>7, <1>8, <1>9, <1>10, <1>11, <1>12,
       <1>13, <1>14, <1>15, <1>16, <1>17, <1>18
    DEF Next, Caller, Transport, Closer

(* The event descriptors are right in every reachable state.               *)
LEMMA EfdInvariant == Spec => []EfdInv
  <1>1. Init => EfdInv
    <2> SUFFICES ASSUME Init PROVE EfdInv
      OBVIOUS
    <2>1. \A d \in Dirs : d \in Dir /\ ready[d] = {} /\ count[d] = 0
      BY SockAssumption DEF Init
    <2>2. flags = {d \in Dirs : ready[d] # {}}
      BY <2>1 DEF Init
    <2>3. QED
      BY <2>1, <2>2 DEF Init, EfdInv
  <1>2. QED
    BY <1>1, EfdStep, TypeCorrect, PTL DEF Spec

(* As long as the socket is open, its eventfds tell exactly what the       *)
(* protocol can do: the loop of nn_sock_send / nn_sock_recv and the        *)
(* signalling of nn_sock_onleave never disagree.                           *)
THEOREM EfdTellsTheTruth == Spec => []EfdFollowsProtocol
  <1>1. TypeOK /\ EfdInv => EfdFollowsProtocol
    BY SockAssumption DEF EfdInv, EfdFollowsProtocol, TypeOK
  <1>2. QED
    BY <1>1, TypeCorrect, EfdInvariant, PTL

(* Once nn_sock_shutdown has stopped the eventfds, every thread that looks *)
(* at them finds them readable until nn_sock_term closes them.             *)
THEOREM StopIsSeen == Spec => []StopStaysVisible
  <1>1. EfdInv => StopStaysVisible
    BY DEF EfdInv, StopStaysVisible
  <1>2. QED
    BY <1>1, EfdInvariant, PTL

-----------------------------------------------------------------------------
(* Holds.  The counter is the number of threads inside plus the hold       *)
(* nn_sock_init created, until the closer gives that one up; relesem is    *)
(* posted, or has been consumed, only when nobody is left.                 *)
Inside == {t \in Callers : pc[t] # "idle"}

(* The library itself still holds the socket: nn_close has not dropped     *)
(* that hold.                                                              *)
Owning == closer \in {"open", "stopping", "stopped"}

(* Every hold is a caller inside or the library, and the socket is         *)
(* released only when none is left.                                        *)
HoldInv ==
    /\ holds = Cardinality(Inside) + (IF Owning THEN 1 ELSE 0)
    /\ relesem > 0 \/ closer \in {"term_free", "closed"} => ~Owning /\ Inside = {}

(* The callers inside can be counted.                                      *)
LEMMA InsideFinite == IsFiniteSet(Inside) /\ Cardinality(Inside) \in Nat
  BY SockAssumption, FS_Subset, FS_CardinalityType DEF Inside

(* A step in which nobody enters or leaves. *)
LEMMA HoldFrame ==
    ASSUME HoldInv, UNCHANGED <<holds, relesem, closer>>, Inside' = Inside
    PROVE  HoldInv'
  BY DEF HoldInv, Owning

(* A thread that is inside and goes on to another place of its call. *)
LEMMA StaysInside ==
    ASSUME TypeOK, NEW t \in Callers, pc[t] # "idle", NEW p, p # "idle",
           pc' = [pc EXCEPT ![t] = p]
    PROVE  Inside' = Inside
  BY DEF Inside, TypeOK

(* Every step keeps HoldInv.                                               *)
LEMMA HoldStep == TypeOK /\ EfdInv /\ HoldInv /\ [Next]_vars => HoldInv'
  <1> SUFFICES ASSUME TypeOK, EfdInv, HoldInv, [Next]_vars PROVE HoldInv'
    OBVIOUS
  <1>1. ASSUME NEW t \in Callers, Hold(t) PROVE HoldInv'
    <2>1. t \notin Inside /\ Inside' = Inside \cup {t}
      BY <1>1 DEF Hold, Inside, TypeOK
    <2>2. Cardinality(Inside') = Cardinality(Inside) + 1
      BY <2>1, InsideFinite, FS_AddElement
    <2>3. closer \in {"open", "stopping"} /\ Owning /\ Owning'
      BY <1>1 DEF Hold, MayHold, EfdInv, Owning
    <2>4. ~(relesem > 0)
      BY <2>3 DEF HoldInv
    <2>5. QED
      BY <1>1, <2>2, <2>3, <2>4, InsideFinite DEF Hold, HoldInv
  <1>2. ASSUME NEW t \in Callers, Rele(t) PROVE HoldInv'
    <2>1. t \in Inside /\ Inside' = Inside \ {t}
      BY <1>2 DEF Rele, Inside, TypeOK
    <2>2. Cardinality(Inside') = Cardinality(Inside) - 1 /\ IsFiniteSet(Inside')
      BY <2>1, InsideFinite, FS_RemoveElement
    <2>3. closer' = closer /\ holds' = holds - 1 /\ Owning' = Owning
      BY <1>2 DEF Rele, DropHold, Owning
    <2>4. ~(relesem > 0) /\ closer \notin {"term_free", "closed"}
      BY <2>1 DEF HoldInv
    <2>5. holds' = Cardinality(Inside') + (IF Owning' THEN 1 ELSE 0)
      BY <2>2, <2>3, InsideFinite DEF HoldInv
    <2>6. CASE holds = 1
      <3>1. Cardinality(Inside) >= 1
        BY <2>1, <2>2, InsideFinite, FS_CardinalityType
      <3>2. ~Owning /\ Cardinality(Inside') = 0
        BY <2>2, <2>6, <3>1, InsideFinite DEF HoldInv
      <3>3. Inside' = {}
        BY <2>2, <3>2, FS_EmptySet
      <3>4. QED
        BY <2>3, <2>5, <3>2, <3>3 DEF HoldInv
    <2>7. CASE holds # 1
      <3>1. relesem' = relesem
        BY <1>2, <2>7 DEF Rele, DropHold, LastHold
      <3>2. QED
        BY <2>3, <2>4, <2>5, <3>1 DEF HoldInv
    <2>8. QED
      BY <2>6, <2>7
  <1>3. ASSUME NEW t \in Callers,
               \/ \E d \in Dirs : SendRecv(t, d)
               \/ Retry(t) \/ WakeUp(t) \/ GiveUp(t) \/ AddEp(t)
               \/ \E e \in Ep : RmEp(t, e)
        PROVE  HoldInv'
    <2>1. pc[t] # "idle" /\ UNCHANGED <<holds, relesem, closer>>
      BY <1>3 DEF SendRecv, Retry, WakeUp, GiveUp, AddEp, RmEp, Turn, sockVars
    <2>2. \E p : p # "idle" /\ pc' = [pc EXCEPT ![t] = p]
      BY <1>3 DEF SendRecv, Retry, WakeUp, GiveUp, AddEp, RmEp, Turn, ClosedTurn,
         TransferTurn, EagainTurn
    <2>3. QED
      BY <2>1, <2>2, StaysInside, HoldFrame
  <1>4. ASSUME NEW e \in Ep, Transport(e) PROVE HoldInv'
    <2>1. UNCHANGED <<holds, relesem, closer, pc>>
      BY <1>4 DEF Transport, StartPipe, Notify, StopPipe, EpStopped, thrVars
    <2>2. QED
      BY <2>1, HoldFrame DEF Inside
  <1>5. CASE ProtocolStopped
    BY <1>5, HoldFrame DEF ProtocolStopped, Inside, thrVars
  <1>6. CASE StopBegin \/ StopEp \/ StopEnd
    <2>1. Owning /\ Owning' /\ UNCHANGED <<holds, relesem, pc>>
      BY <1>6 DEF StopBegin, StopEp, StopEnd, Owning, sockVars, thrVars
    <2>2. closer' \notin {"term_free", "closed"}
      BY <2>1 DEF Owning
    <2>3. QED
      BY <2>1, <2>2 DEF HoldInv, Inside
  <1>7. CASE CloserRele
    <2>1. Owning /\ ~Owning' /\ Inside' = Inside /\ holds' = holds - 1
      BY <1>7 DEF CloserRele, DropHold, Owning, Inside
    <2>2. ~(relesem > 0) /\ closer' \notin {"term_free", "closed"}
      BY <1>7, <2>1 DEF CloserRele, HoldInv
    <2>3. holds' = Cardinality(Inside')
      BY <2>1, InsideFinite DEF HoldInv
    <2>4. relesem' > 0 => Inside' = {}
      <3>1. SUFFICES ASSUME relesem' > 0 PROVE Inside' = {}
        OBVIOUS
      <3>2. holds = 1
        BY <1>7, <2>2, <3>1 DEF CloserRele, DropHold, LastHold
      <3>3. Cardinality(Inside) = 0
        BY <2>1, <3>2, InsideFinite DEF HoldInv
      <3>4. QED
        BY <2>1, <3>3, InsideFinite, FS_EmptySet
    <2>5. QED
      BY <2>1, <2>2, <2>3, <2>4, InsideFinite DEF HoldInv
  <1>8. CASE AwaitTermsem
    BY <1>8 DEF AwaitTermsem, HoldInv, Owning, Inside
  <1>9. CASE AwaitRelesem
    <2>1. ~Owning /\ Inside = {}
      BY <1>9 DEF AwaitRelesem, HoldInv
    <2>2. QED
      BY <1>9, <2>1 DEF AwaitRelesem, HoldInv, Owning, Inside
  <1>10. CASE TermFree
    <2>1. ~Owning /\ Inside = {}
      BY <1>10 DEF TermFree, HoldInv
    <2>2. QED
      BY <1>10, <2>1 DEF TermFree, HoldInv, Owning, Inside
  <1>11. CASE Finished \/ UNCHANGED vars
    BY <1>11, HoldFrame DEF Finished, vars, sockVars, thrVars, Inside
  <1>12. QED
    BY <1>1, <1>2, <1>3, <1>4, <1>5, <1>6, <1>7, <1>8, <1>9, <1>10, <1>11
    DEF Next, Caller, Closer

(* The holds are right in every reachable state.                           *)
LEMMA HoldInvariant == Spec => []HoldInv
  <1>1. Init => HoldInv
    <2> SUFFICES ASSUME Init PROVE HoldInv
      OBVIOUS
    <2>1. Inside = {}
      BY DEF Init, Inside
    <2>2. Cardinality(Inside) = 0
      BY <2>1, FS_EmptySet
    <2>3. QED
      BY <2>1, <2>2 DEF Init, HoldInv, Owning
  <1>2. QED
    BY <1>1, HoldStep, TypeCorrect, EfdInvariant, PTL DEF Spec

(* nn_sock_term never closes the eventfds, nor anything else, under a      *)
(* thread that is between nn_sock_hold and nn_sock_rele.                   *)
THEOREM NoUseAfterTerm == Spec => []UsersPinSocket
  <1>1. TypeOK /\ EfdInv /\ HoldInv => UsersPinSocket
    BY SockAssumption DEF HoldInv, Inside, EfdInv, UsersPinSocket, TypeOK
  <1>2. QED
    BY <1>1, HoldInvariant, TypeCorrect, EfdInvariant, PTL

-----------------------------------------------------------------------------
(* The lists.  Without removal an endpoint is in eps while it is started   *)
(* and in sdeps while it is stopping, and both lists are in the order of   *)
(* the numbers.  Chained says so of one list with the items S: every item  *)
(* is linked to its neighbours in S.                                       *)
Started  == {e \in Ep : ep[e] = "started"}
Stopping == {e \in Ep : ep[e] = "stopping"}

Chained(l, lk, S) ==
    /\ S = {} => l = EmptyList
    /\ S # {} => l.first \in S /\ l.last \in S
    /\ \A e \in S : l.first <= e /\ e <= l.last
    /\ \A e \in S : e = l.last  => lk[e].next = NULL
    /\ \A e \in S : e # l.last  => /\ lk[e].next \in S /\ lk[e].next > e
                                   /\ \A x \in S : x <= e \/ x >= lk[e].next
    /\ \A e \in S : e = l.first => lk[e].prev = NULL
    /\ \A e \in S : e # l.first => /\ lk[e].prev \in S /\ lk[e].prev < e
                                   /\ \A x \in S : x >= e \/ x <= lk[e].prev

(* Links outside a list do not matter to it. *)
LEMMA ChainedFrame ==
    ASSUME NEW l, NEW lk, NEW new, NEW S, Chained(l, lk, S), \A e \in S : new[e] = lk[e]
    PROVE  Chained(l, new, S)
  BY DEF Chained

(* nn_list_insert at the end of a list of smaller numbers; other items     *)
(* keep their links.                                                       *)
LEMMA AppendChained ==
    ASSUME NEW lk \in [Ep -> Links(Ep)], NEW l \in ListHead(Ep), NEW S \in SUBSET Ep,
           NEW i \in Ep, \A x \in S : x < i, Chained(l, lk, S)
    PROVE  /\ Chained(AppendHead(l, i), AppendLinks(l, lk, i), S \cup {i})
           /\ \A e \in Ep : e \notin S /\ e # i => AppendLinks(l, lk, i)[e] = lk[e]
  <1> DEFINE hd == AppendHead(l, i)
             new == AppendLinks(l, lk, i)
  <1>0. MaxEp \in Nat
    BY SockAssumption
  <1>z. i \in Int /\ i > 0 /\ \A x \in S : x \in Int /\ x > 0
    BY <1>0
  <1>1. /\ S = {} => l.first = NULL /\ l.last = NULL
        /\ S # {} => l.first \in S /\ l.last \in S
        /\ i \notin S
    BY <1>0 DEF Chained, EmptyList
  <1>2. hd.last = i /\ hd.first = IF S = {} THEN i ELSE l.first
    BY <1>0, <1>1 DEF AppendHead
  <1>3. l.last \in Ep => l.last \in S
    BY <1>0, <1>1
  <1>4. new[i] = [prev |-> l.last, next |-> NULL]
    BY <1>0, <1>1, <1>3 DEF AppendLinks, SetNext
  <1>5. ASSUME NEW e \in Ep \ {i} PROVE
            /\ new[e].prev = lk[e].prev
            /\ new[e].next = IF e = l.last THEN i ELSE lk[e].next
            /\ e # l.last => new[e] = lk[e]
    <2>1. lk[e] \in Links(Ep)
      OBVIOUS
    <2>2. QED
      BY <2>1 DEF AppendLinks, SetNext, Links
  <1>6. \A e \in Ep : e \notin S /\ e # i => new[e] = lk[e]
    BY <1>3, <1>5, <1>0, <1>1
  <1> HIDE DEF hd, new
  <1>7. Chained(hd, new, S \cup {i})
    <2>1. hd.first \in S \cup {i} /\ hd.last \in S \cup {i}
      BY <1>1, <1>2
    <2>2. ASSUME NEW e \in S \cup {i} PROVE hd.first <= e /\ e <= hd.last
      <3>1. CASE e \in S
        <4>1. l.first <= e /\ l.first = hd.first
          BY <1>2, <3>1 DEF Chained
        <4>2. e <= i
          BY <1>z, <3>1
        <4>3. QED
          BY <1>2, <4>1, <4>2
      <3>2. CASE e = i /\ S = {}
        BY <1>z, <1>2, <3>2
      <3>3. CASE e = i /\ S # {}
        <4>1. PICK k \in S : hd.first = k
          BY <1>1, <1>2, <3>3
        <4>2. k <= i
          BY <1>z
        <4>3. i <= i
          BY <1>z
        <4>4. QED
          BY <1>2, <3>3, <4>1, <4>2, <4>3
      <3>4. QED
        BY <3>1, <3>2, <3>3
    <2>3. \A e \in S \cup {i} : e = hd.last => new[e].next = NULL
      BY <1>2, <1>4
    <2>4. ASSUME NEW e \in S \cup {i}, e # hd.last
          PROVE  /\ new[e].next \in S \cup {i} /\ new[e].next > e
                 /\ \A x \in S \cup {i} : x <= e \/ x >= new[e].next
      <3>1. e \in S /\ e \in Ep \ {i}
        BY <1>1, <1>2, <2>4
      <3>2. CASE e = l.last
        <4>1. new[e].next = i
          BY <1>5, <3>1, <3>2
        <4>2. \A x \in S : x <= e
          BY <3>1, <3>2 DEF Chained
        <4>3. QED
          BY <1>0, <3>1, <4>1, <4>2
      <3>3. CASE e # l.last
        <4>1. new[e].next = lk[e].next
          BY <1>5, <3>1, <3>3
        <4>2. PICK k \in S : k = lk[e].next /\ k > e /\ \A x \in S : x <= e \/ x >= k
          BY <3>1, <3>3 DEF Chained
        <4>3. i >= k
          BY <1>z
        <4>4. QED
          BY <4>1, <4>2, <4>3
      <3>4. QED
        BY <3>2, <3>3
    <2>5. ASSUME NEW e \in S \cup {i}, e = hd.first PROVE new[e].prev = NULL
      <3>1. CASE S = {}
        BY <1>1, <1>2, <1>4, <2>5, <3>1
      <3>2. CASE S # {}
        <4>1. e \in S /\ e = l.first /\ e \in Ep \ {i}
          BY <1>1, <1>2, <2>5, <3>2
        <4>2. QED
          BY <1>5, <4>1 DEF Chained
      <3>3. QED
        BY <3>1, <3>2
    <2>6. ASSUME NEW e \in S \cup {i}, e # hd.first
          PROVE  /\ new[e].prev \in S \cup {i} /\ new[e].prev < e
                 /\ \A x \in S \cup {i} : x >= e \/ x <= new[e].prev
      <3>1. S # {}
        BY <1>2, <2>6
      <3>2. CASE e = i
        <4>0. new[e].prev = l.last /\ l.last \in S
          BY <1>1, <1>4, <3>1, <3>2
        <4>1. PICK k \in S : new[e].prev = k /\ k = l.last
          BY <4>0
        <4>2. \A x \in S : x <= k
          BY <4>1 DEF Chained
        <4>3. k < i /\ i >= i
          BY <1>z
        <4>4. QED
          BY <3>2, <4>1, <4>2, <4>3
      <3>3. CASE e # i
        <4>1. new[e].prev = lk[e].prev
          BY <1>5, <3>3
        <4>2. e \in S /\ e # l.first
          BY <1>2, <2>6, <3>1, <3>3
        <4>3. PICK k \in S : k = lk[e].prev /\ k < e /\ \A x \in S : x >= e \/ x <= k
          BY <4>2 DEF Chained
        <4>4. i >= e
          BY <1>z, <4>2
        <4>5. QED
          BY <4>1, <4>3, <4>4
      <3>4. QED
        BY <3>2, <3>3
    <2>7. QED
      BY <2>1, <2>2, <2>3, <2>4, <2>5, <2>6 DEF Chained
  <1>8. QED
    BY <1>6, <1>7 DEF hd, new

(* nn_list_erase through the list that holds the item.                     *)
LEMMA EraseChained ==
    ASSUME NEW lk \in [Ep -> Links(Ep)], NEW l \in ListHead(Ep), NEW S \in SUBSET Ep,
           NEW i \in S, Chained(l, lk, S)
    PROVE  /\ Chained(EraseHead(l, lk, i), EraseLinks(lk, i), S \ {i})
           /\ \A e \in Ep \ S : EraseLinks(lk, i)[e] = lk[e]
  <1> DEFINE hd == EraseHead(l, lk, i)
             new == EraseLinks(lk, i)
             p == lk[i].prev
             n == lk[i].next
  <1>0. MaxEp \in Nat /\ i \in Ep
    BY SockAssumption
  <1>z. i \in Int /\ i > 0 /\ \A x \in S : x \in Int /\ x > 0
    BY <1>0
  <1>1. /\ i = l.first => p = NULL
        /\ i # l.first => p \in S /\ p < i /\ \A x \in S : x >= i \/ x <= p
    BY DEF Chained
  <1>2. /\ i = l.last => n = NULL
        /\ i # l.last => n \in S /\ n > i /\ \A x \in S : x <= i \/ x >= n
    BY DEF Chained
  <1>3. /\ p = NULL \/ (p \in S /\ p # i)
        /\ n = NULL \/ (n \in S /\ n # i)
    BY <1>0, <1>1, <1>2
  <1>4. ASSUME NEW e \in Ep \ {i} PROVE
            /\ new[e].next = IF e = p THEN n ELSE lk[e].next
            /\ new[e].prev = IF e = n THEN p ELSE lk[e].prev
            /\ e # p /\ e # n => new[e] = lk[e]
    <2>1. lk[e] \in Links(Ep)
      OBVIOUS
    <2> DEFINE mid == SetNext(lk, p, n)
    <2>2. /\ mid \in [Ep -> Links(Ep)]
          /\ mid[e] = IF e = p THEN [lk[e] EXCEPT !.next = n] ELSE lk[e]
      <3>1. n \in Ep \cup {NULL, NOTINLIST}
        BY <1>3
      <3>2. QED
        BY <3>1, SetNextType DEF SetNext
    <2>3. new[e] = IF e = n THEN [mid[e] EXCEPT !.prev = p] ELSE mid[e]
      BY <2>2 DEF EraseLinks, SetPrev
    <2>4. QED
      BY <2>1, <2>2, <2>3 DEF Links
  <1>5. \A e \in Ep \ S : new[e] = lk[e]
    BY <1>0, <1>3, <1>4
  <1>6. /\ hd.first = IF i = l.first THEN n ELSE l.first
        /\ hd.last = IF i = l.last THEN p ELSE l.last
    <2>1. hd.first = (IF p = NULL THEN n ELSE l.first) /\ hd.last = IF n = NULL THEN p ELSE l.last
      BY DEF EraseHead
    <2>2. (p = NULL <=> i = l.first) /\ (n = NULL <=> i = l.last)
      BY <1>0, <1>1, <1>2
    <2>3. QED
      BY <2>1, <2>2
  <1>7. S \ {i} = {} => hd = EmptyList
    <2>1. SUFFICES ASSUME S \ {i} = {} PROVE hd = EmptyList
      OBVIOUS
    <2>2. l.first = i /\ l.last = i
      BY <2>1 DEF Chained
    <2>3. QED
      BY <1>1, <1>2, <2>2 DEF EraseHead, EmptyList
  <1> HIDE DEF hd, new, p, n
  <1>8. S \ {i} # {} => hd.first \in S \ {i} /\ hd.last \in S \ {i}
    <2>1. SUFFICES ASSUME S \ {i} # {} PROVE hd.first \in S \ {i} /\ hd.last \in S \ {i}
      OBVIOUS
    <2>2. l.first \in S /\ l.last \in S /\ (\A e \in S : l.first <= e /\ e <= l.last)
      BY DEF Chained
    <2>3. ~(i = l.first /\ i = l.last)
      <3>1. SUFFICES ASSUME i = l.first, i = l.last PROVE FALSE
        OBVIOUS
      <3>2. PICK e \in S : e # i
        BY <2>1
      <3>3. i <= e /\ e <= i
        BY <2>2, <3>1
      <3>4. QED
        BY <1>z, <3>2, <3>3
    <2>4. (i = l.first => i # l.last) /\ (i = l.last => i # l.first)
      BY <2>3
    <2>5. QED
      BY <1>0, <1>1, <1>2, <1>6, <2>2, <2>4
  <1>9. ASSUME NEW e \in S \ {i} PROVE hd.first <= e /\ e <= hd.last
    <2>1. l.first <= e /\ e <= l.last
      BY DEF Chained
    <2>2. hd.first <= e
      <3>1. CASE i = l.first
        <4>1. i <= e /\ i # e
          BY <2>1, <3>1
        <4>2. i # l.last
          <5>1. SUFFICES ASSUME i = l.last PROVE FALSE
            OBVIOUS
          <5>2. e <= i
            BY <2>1, <5>1
          <5>3. QED
            BY <1>z, <4>1, <5>2
        <4>3. e >= n
          BY <1>z, <1>2, <4>1, <4>2
        <4>4. n \in S
          BY <1>2, <4>2
        <4>5. QED
          BY <1>z, <1>6, <3>1, <4>3, <4>4
      <3>2. QED
        BY <1>6, <2>1, <3>1
    <2>3. e <= hd.last
      <3>1. CASE i = l.last
        <4>1. e <= i /\ i # e
          BY <2>1, <3>1
        <4>2. i # l.first
          <5>1. SUFFICES ASSUME i = l.first PROVE FALSE
            OBVIOUS
          <5>2. i <= e
            BY <2>1, <5>1
          <5>3. QED
            BY <1>z, <4>1, <5>2
        <4>3. e <= p
          BY <1>z, <1>1, <4>1, <4>2
        <4>4. QED
          BY <1>6, <3>1, <4>3
      <3>2. QED
        BY <1>6, <2>1, <3>1
    <2>4. QED
      BY <2>2, <2>3
  <1>10. ASSUME NEW e \in S \ {i}, e = hd.last PROVE new[e].next = NULL
    <2>0. e \in Ep \ {i}
      OBVIOUS
    <2>1. CASE i = l.last
      <3>1. e = p /\ n = NULL
        BY <1>2, <1>6, <1>10, <2>1
      <3>2. QED
        BY <1>4, <2>0, <3>1
    <2>2. CASE i # l.last
      <3>1. e = l.last /\ lk[e].next = NULL
        BY <1>6, <1>10, <2>2 DEF Chained
      <3>2. CASE e = p
        <4>1. p < i
          BY <1>z, <1>1, <3>2
        <4>2. i <= p
          BY <3>1, <3>2 DEF Chained
        <4>3. QED
          BY <1>z, <3>2, <4>1, <4>2
      <3>3. QED
        BY <1>4, <2>0, <3>1, <3>2
    <2>3. QED
      BY <2>1, <2>2
  <1>11. ASSUME NEW e \in S \ {i}, e # hd.last
         PROVE  /\ new[e].next \in S \ {i} /\ new[e].next > e
                /\ \A x \in S \ {i} : x <= e \/ x >= new[e].next
    <2>0. e \in Ep \ {i}
      OBVIOUS
    <2>1. CASE e = p
      <3>1. i # l.last
        BY <1>6, <1>11, <2>1
      <3>2. n \in S /\ n > i /\ \A x \in S : x <= i \/ x >= n
        BY <1>2, <3>1
      <3>3. p < i /\ \A x \in S : x >= i \/ x <= p
        BY <1>0, <1>1, <2>1, <2>0
      <3>4. new[e].next = n
        BY <1>4, <2>0, <2>1
      <3>5. n \in S \ {i} /\ n > e
        BY <1>0, <1>z, <2>1, <3>2, <3>3
      <3>6. ASSUME NEW x \in S \ {i} PROVE x <= e \/ x >= n
        <4>1. x \in Nat /\ i \in Nat /\ x # i
          BY <1>z
        <4>2. (x <= i \/ x >= n) /\ (x >= i \/ x <= p)
          BY <3>2, <3>3
        <4>3. QED
          BY <2>1, <4>1, <4>2
      <3>7. QED
        BY <3>4, <3>5, <3>6
    <2>2. CASE e # p
      <3>1. new[e].next = lk[e].next
        BY <1>4, <2>0, <2>2
      <3>2. e # l.last
        <4>1. SUFFICES ASSUME e = l.last PROVE FALSE
          OBVIOUS
        <4>2. i = l.last
          BY <1>6, <1>11, <4>1
        <4>3. QED
          BY <4>1, <4>2
      <3>3. /\ lk[e].next \in S /\ lk[e].next > e
            /\ \A x \in S : x <= e \/ x >= lk[e].next
        BY <3>2 DEF Chained
      <3>4. lk[e].next # i
        <4>1. SUFFICES ASSUME lk[e].next = i PROVE FALSE
          OBVIOUS
        <4>2. i # l.first
          BY <1>0, <2>0, <3>3, <4>1 DEF Chained
        <4>3. p \in S /\ p < i /\ (e >= i \/ e <= p)
          BY <1>1, <4>2
        <4>4. p <= e \/ p >= i
          BY <3>3, <4>1, <4>3
        <4>5. QED
          BY <1>0, <2>0, <2>2, <3>3, <4>1, <4>3, <4>4
      <3>5. QED
        BY <3>1, <3>3, <3>4
    <2>3. QED
      BY <2>1, <2>2
  <1>12. ASSUME NEW e \in S \ {i}, e = hd.first PROVE new[e].prev = NULL
    <2>0. e \in Ep \ {i}
      OBVIOUS
    <2>1. CASE i = l.first
      <3>1. e = n /\ p = NULL
        BY <1>1, <1>6, <1>12, <2>1
      <3>2. QED
        BY <1>4, <2>0, <3>1
    <2>2. CASE i # l.first
      <3>1. e = l.first /\ lk[e].prev = NULL
        BY <1>6, <1>12, <2>2 DEF Chained
      <3>2. CASE e = n
        <4>1. n > i
          BY <1>z, <1>2, <3>2
        <4>2. n <= i
          BY <3>1, <3>2 DEF Chained
        <4>3. QED
          BY <1>z, <3>2, <4>1, <4>2
      <3>3. QED
        BY <1>4, <2>0, <3>1, <3>2
    <2>3. QED
      BY <2>1, <2>2
  <1>13. ASSUME NEW e \in S \ {i}, e # hd.first
         PROVE  /\ new[e].prev \in S \ {i} /\ new[e].prev < e
                /\ \A x \in S \ {i} : x >= e \/ x <= new[e].prev
    <2>0. e \in Ep \ {i}
      OBVIOUS
    <2>1. CASE e = n
      <3>1. i # l.first
        BY <1>6, <1>13, <2>1
      <3>2. p \in S /\ p < i /\ \A x \in S : x >= i \/ x <= p
        BY <1>1, <3>1
      <3>3. n > i /\ \A x \in S : x <= i \/ x >= n
        BY <1>0, <1>2, <2>1, <2>0
      <3>4. new[e].prev = p
        BY <1>4, <2>0, <2>1
      <3>5. p \in S \ {i} /\ p < e
        BY <1>0, <1>z, <2>1, <3>2, <3>3
      <3>6. ASSUME NEW x \in S \ {i} PROVE x >= e \/ x <= p
        <4>1. x \in Nat /\ i \in Nat /\ x # i
          BY <1>z
        <4>2. (x <= i \/ x >= n) /\ (x >= i \/ x <= p)
          BY <3>2, <3>3
        <4>3. QED
          BY <2>1, <4>1, <4>2
      <3>7. QED
        BY <3>4, <3>5, <3>6
    <2>2. CASE e # n
      <3>1. new[e].prev = lk[e].prev
        BY <1>4, <2>0, <2>2
      <3>2. e # l.first
        <4>1. SUFFICES ASSUME e = l.first PROVE FALSE
          OBVIOUS
        <4>2. i = l.first
          BY <1>6, <1>13, <4>1
        <4>3. QED
          BY <4>1, <4>2
      <3>3. /\ lk[e].prev \in S /\ lk[e].prev < e
            /\ \A x \in S : x >= e \/ x <= lk[e].prev
        BY <3>2 DEF Chained
      <3>4. lk[e].prev # i
        <4>1. SUFFICES ASSUME lk[e].prev = i PROVE FALSE
          OBVIOUS
        <4>2. i # l.last
          BY <1>0, <2>0, <3>3, <4>1 DEF Chained
        <4>3. n \in S /\ n > i /\ (e <= i \/ e >= n)
          BY <1>2, <4>2
        <4>4. n >= e \/ n <= i
          BY <3>3, <4>1, <4>3
        <4>5. QED
          BY <1>0, <2>0, <2>2, <3>3, <4>1, <4>3, <4>4
      <3>5. QED
        BY <3>1, <3>3, <3>4
    <2>3. QED
      BY <2>1, <2>2
  <1>14. Chained(hd, new, S \ {i})
    BY <1>7, <1>8, <1>9, <1>10, <1>11, <1>12, <1>13 DEF Chained
  <1>15. QED
    BY <1>5, <1>14 DEF hd, new

-----------------------------------------------------------------------------
(* Draining.  Which endpoints are in which list, and what the place of the *)
(* closer says about them.                                                 *)
ListsInv ==
    /\ \A e \in Ep : ep[e] = "none" <=> e >= eid
    /\ Chained(eps, link, Started)
    /\ Chained(sdeps, link, Stopping)

(* While the loop of nn_sock_shutdown runs its cursor is the first of eps  *)
(* and what it has moved comes before what it has not; afterwards eps is   *)
(* empty and the state says whether sdeps is.                              *)
PhaseInv ==
    /\ closer = "open" => Stopping = {}
    /\ closer = "stopping" => /\ cursor = eps.first
                              /\ \A d \in Stopping, s \in Started : d < s
    /\ closer \notin {"open", "stopping"} =>
          /\ Started = {}
          /\ state = IF Stopping = {} THEN "FINI" ELSE "STOPPING_EPS"
    /\ termsem > 0 \/ closer \in {"term_rele", "term_free", "closed"} => state = "FINI"

(* Only an endpoint that lives has a pipe, only a pipe that was added is   *)
(* offered by the protocol, and it is offered while no call is pending on  *)
(* it; the counter counts the pipes that were added.                       *)
Attached == {e \in Ep : pipe[e].state = "ACTIVE"}

PipesInv ==
    /\ \A e \in Ep : pipe[e].state # "IDLE" => ep[e] \in {"started", "stopping"}
    /\ \A e \in ready["IN"]  : pipe[e].state = "ACTIVE" /\ pipe[e].instate = "IDLE"
    /\ \A e \in ready["OUT"] : pipe[e].state = "ACTIVE" /\ pipe[e].outstate = "IDLE"
    /\ conns = Cardinality(Attached)

(* The inductive invariant of a socket whose endpoints leave only when it  *)
(* is closed.                                                              *)
DrainInv == Alive /\ ListsInv /\ PhaseInv /\ PipesInv

(* What the environment is assumed to do in this section: no removal, no   *)
(* endpoint added while closing, no stop function of the protocol.         *)
Orderly == Features \subseteq {"no_memory"}

(* Steps that leave the endpoints, the lists or the pipes alone. *)
LEMMA ListsFrame ==
    ASSUME ListsInv, UNCHANGED <<eps, sdeps, link, ep, eid>>
    PROVE  ListsInv'
  BY DEF ListsInv, Started, Stopping, Chained

LEMMA PhaseFrame ==
    ASSUME PhaseInv, UNCHANGED <<ep, closer, cursor, eps, state, termsem>>
    PROVE  PhaseInv'
  BY DEF PhaseInv, Started, Stopping

LEMMA PipesFrame ==
    ASSUME PipesInv, UNCHANGED <<ep, pipe, ready, conns>>
    PROVE  PipesInv'
  BY DEF PipesInv, Attached

(* A section whose own assertions hold ends without a failure. *)
LEMMA LeaveQuiet ==
    ASSUME Alive, EfdInv', NEW st, NEW fl, NEW rd, OnLeave(st, fl, rd, {})
    PROVE  Alive' /\ ready' = rd
  <1> DEFINE clear == fl \ Offers(st, fl, rd)
  <1>1. abort' = abort \cup {} \cup
           UNION {Failed("nn_efd_unsignal", open[d] => count[d] > 0) : d \in clear}
    BY DEF OnLeave
  <1>2. abort' \subseteq {"nn_efd_unsignal"}
    BY <1>1 DEF Failed, Alive
  <1>3. "nn_efd_unsignal" \notin abort'
    BY DEF EfdInv
  <1>4. QED
    BY <1>2, <1>3 DEF Alive, OnLeave

(* No pointer into memory that was given back.                             *)
LEMMA NoDangling ==
    ASSUME NEW S, \A i \in S : i \in Ep => ep[i] # "freed"
    PROVE  Dangling(S) = {}
  BY DEF Dangling, Failed

(* An empty list is one without items.                                     *)
LEMMA EmptyIsEmpty ==
    ASSUME NEW l, NEW lk, NEW S \in SUBSET Ep, Chained(l, lk, S)
    PROVE  /\ ListEmpty(l) <=> S = {}
           /\ S = {} => ListTermOK(l)
           /\ l.first \in Ep => l.first \in S
           /\ l.last \in Ep => l.last \in S
  <1>0. MaxEp \in Nat /\ NULL \notin Ep
    BY SockAssumption
  <1>1. S = {} => l.first = NULL /\ l.last = NULL
    BY DEF Chained, EmptyList
  <1>2. S # {} => l.first \in S /\ l.last \in S
    BY DEF Chained
  <1>3. QED
    BY <1>0, <1>1, <1>2 DEF ListEmpty, ListTermOK

(* The neighbours of an item are items. *)
LEMMA Neighbours ==
    ASSUME NEW l, NEW lk, NEW S \in SUBSET Ep, Chained(l, lk, S), NEW e \in S
    PROVE  /\ lk[e].prev = NULL \/ lk[e].prev \in S
           /\ lk[e].next = NULL \/ lk[e].next \in S
           /\ lk[e].prev # NOTINLIST
  <1>0. MaxEp \in Nat /\ NOTINLIST \notin Ep
    BY SockAssumption
  <1>1. /\ lk[e].prev = NULL \/ lk[e].prev \in S
        /\ lk[e].next = NULL \/ lk[e].next \in S
    BY DEF Chained
  <1>2. QED
    BY <1>0, <1>1

LEMMA AttachedFinite == IsFiniteSet(Attached) /\ Cardinality(Attached) \in Nat
  <1>1. IsFiniteSet(Ep)
    BY SockAssumption, FS_Interval
  <1>2. QED
    BY <1>1, FS_Subset, FS_CardinalityType DEF Attached

(* Sections that change neither lists nor phases, only what pipes do.      *)
LEMMA PipeSection ==
    ASSUME DrainInv, PipesInv', EfdInv', NEW fl, NEW rd, OnLeave(state, fl, rd, {}),
           UNCHANGED <<eps, sdeps, link, ep, eid, closer, cursor, state, termsem>>
    PROVE  DrainInv'
  BY LeaveQuiet, ListsFrame, PhaseFrame DEF DrainInv

(* A turn of nn_sock_send or nn_sock_recv uses a pipe that waits for it.   *)
LEMMA TurnDrains ==
    ASSUME TypeOK, EfdInv', DrainInv, NEW t \in Callers, NEW d \in Dir, NEW fl,
           Turn(t, d, fl)
    PROVE  DrainInv'
  <1>0. /\ UNCHANGED <<eps, sdeps, link, ep, eid, closer, cursor, state, termsem>>
        /\ conns' = conns
    BY DEF Turn, epVars
  <1>1. CASE ClosedTurn(t, fl) \/ EagainTurn(t, d, fl)
    <2>1. OnLeave(state, fl, ready, {}) /\ pipe' = pipe
      BY <1>1 DEF ClosedTurn, EagainTurn
    <2>2. ready' = ready
      BY <2>1 DEF OnLeave
    <2>3. PipesInv'
      BY <1>0, <2>1, <2>2, PipesFrame DEF DrainInv
    <2>4. QED
      BY <1>0, <2>1, <2>3, PipeSection
  <1>2. CASE TransferTurn(t, d, fl)
    <2>1. PICK e \in ready[d], sync \in BOOLEAN :
             /\ pipe' = [pipe EXCEPT ![e] = IF d = "IN" THEN PipeRecv(@, sync)
                                            ELSE PipeSend(@, sync)]
             /\ OnLeave(state, fl,
                        IF sync THEN ready ELSE [ready EXCEPT ![d] = @ \ {e}],
                        Failed("pipe.c:156,175",
                               IF d = "IN" THEN MayRecv(pipe[e]) ELSE MaySend(pipe[e])))
      BY <1>2 DEF TransferTurn
    <2>2. e \in Ep /\ pipe[e] \in Pipes
      BY DEF TypeOK
    <2>3. IF d = "IN" THEN MayRecv(pipe[e]) ELSE MaySend(pipe[e])
      BY DEF DrainInv, PipesInv, MayRecv, MaySend
    <2> DEFINE rd == IF sync THEN ready ELSE [ready EXCEPT ![d] = @ \ {e}]
    <2>4. OnLeave(state, fl, rd, {})
      BY <2>1, <2>3 DEF Failed
    <2>5. ready' = rd
      BY <2>4 DEF OnLeave
    <2>6. /\ \A x \in Ep : x # e => pipe'[x] = pipe[x]
          /\ pipe'[e] = IF d = "IN" THEN PipeRecv(pipe[e], sync) ELSE PipeSend(pipe[e], sync)
      BY <2>1, <2>2 DEF TypeOK
    <2>7. /\ pipe'[e].state = pipe[e].state
          /\ d = "IN" => /\ pipe'[e].outstate = pipe[e].outstate
                         /\ sync => pipe'[e].instate = "IDLE"
          /\ d = "OUT" => /\ pipe'[e].instate = pipe[e].instate
                          /\ sync => pipe'[e].outstate = "IDLE"
      <3>1. CASE d = "IN"
        BY <2>2, <2>6, <3>1 DEF PipeRecv, PipeReceived, Pipes
      <3>2. CASE d = "OUT"
        BY <2>2, <2>6, <3>2 DEF PipeSend, PipeSent, Pipes
      <3>3. QED
        BY <3>1, <3>2
    <2>8. Attached' = Attached
      BY <2>6, <2>7 DEF Attached
    <2>9. \A c \in Dir : rd[c] \subseteq ready[c] /\ (c = d /\ ~sync => e \notin rd[c])
      BY DEF TypeOK
    <2>10. PipesInv'
      <3>1. ASSUME NEW x \in Ep, pipe'[x].state # "IDLE"
            PROVE  ep'[x] \in {"started", "stopping"}
        BY <1>0, <2>6, <2>7, <3>1 DEF DrainInv, PipesInv
      <3>2. ASSUME NEW x \in ready'["IN"]
            PROVE  pipe'[x].state = "ACTIVE" /\ pipe'[x].instate = "IDLE"
        <4>1. x \in ready["IN"] /\ x \in Ep /\ (d = "IN" /\ x = e => sync)
          BY <2>5, <2>9 DEF TypeOK
        <4>2. pipe[x].state = "ACTIVE" /\ pipe[x].instate = "IDLE"
          BY <4>1 DEF DrainInv, PipesInv
        <4>3. QED
          BY <2>6, <2>7, <4>1, <4>2
      <3>3. ASSUME NEW x \in ready'["OUT"]
            PROVE  pipe'[x].state = "ACTIVE" /\ pipe'[x].outstate = "IDLE"
        <4>1. x \in ready["OUT"] /\ x \in Ep /\ (d = "OUT" /\ x = e => sync)
          BY <2>5, <2>9 DEF TypeOK
        <4>2. pipe[x].state = "ACTIVE" /\ pipe[x].outstate = "IDLE"
          BY <4>1 DEF DrainInv, PipesInv
        <4>3. QED
          BY <2>6, <2>7, <4>1, <4>2
      <3>4. conns' = Cardinality(Attached')
        BY <1>0, <2>8 DEF DrainInv, PipesInv
      <3>5. QED
        BY <3>1, <3>2, <3>3, <3>4 DEF PipesInv
    <2> HIDE DEF rd
    <2>11. QED
      BY <1>0, <2>4, <2>10, PipeSection
  <1>3. QED
    BY <1>1, <1>2 DEF Turn

(* nn_sock_add_ep appends the new endpoint to eps.                         *)
LEMMA AddDrains ==
    ASSUME Orderly, TypeOK, EfdInv, EfdInv', DrainInv, NEW t \in Callers, AddEp(t)
    PROVE  DrainInv'
  <1>1. closer = "open" /\ lock = "free"
    BY DEF AddEp, Enter, Orderly, EfdInv
  <1>2. /\ UNCHANGED <<state, termsem, pipe, conns, closer>>
    BY DEF AddEp
  <1>3. CASE UNCHANGED <<flags, count, ready, abort, epVars>>
    BY <1>2, <1>3, ListsFrame, PhaseFrame, PipesFrame DEF DrainInv, epVars, Alive
  <1>4. CASE /\ eid' = EidAfter(FALSE)
             /\ OnLeave(state, flags, ready, {})
             /\ UNCHANGED <<lock, eps, sdeps, link, ep, cursor>>
    <2>1. eid' = eid /\ ready' = ready
      BY <1>4 DEF EidAfter, OnLeave
    <2>2. PipesInv'
      BY <1>2, <1>4, <2>1, PipesFrame DEF DrainInv
    <2>3. QED
      BY <1>2, <1>4, <2>1, <2>2, PipeSection
  <1>5. CASE /\ eid \in Ep
             /\ ep' = [ep EXCEPT ![eid] = "started"]
             /\ eid' = EidAfter(TRUE)
             /\ eps' = AppendHead(eps, eid)
             /\ link' = AppendLinks(eps, link, eid)
             /\ OnLeave(state, flags, ready, Dangling({eps.last}))
             /\ UNCHANGED <<sdeps, cursor, lock>>
    <2>0. MaxEp \in Nat /\ eid \in Nat /\ (\A e \in Ep : e \in Nat)
      BY SockAssumption DEF TypeOK
    <2>1. /\ Chained(eps, link, Started) /\ Chained(sdeps, link, Stopping)
          /\ Stopping = {} /\ Started \in SUBSET Ep
          /\ \A e \in Ep : ep[e] = "none" <=> e >= eid
      BY <1>1 DEF DrainInv, ListsInv, PhaseInv, Started
    <2>2. /\ \A e \in Ep : e # eid => ep'[e] = ep[e]
          /\ ep'[eid] = "started" /\ ep[eid] = "none"
      BY <1>5, <2>0, <2>1 DEF TypeOK
    <2>3. Started' = Started \cup {eid} /\ Stopping' = {}
      BY <1>5, <2>1, <2>2 DEF Started, Stopping
    <2>4. \A x \in Started : x < eid
      BY <2>0, <2>1 DEF Started
    <2>5. Chained(eps', link', Started')
      BY <1>5, <2>1, <2>3, <2>4, AppendChained DEF TypeOK
    <2>6. Chained(sdeps', link', Stopping')
      BY <1>5, <2>1, <2>3 DEF Chained
    <2>7. \A e \in Ep : ep'[e] = "none" <=> e >= eid'
      <3>1. eid' = eid + 1
        BY <1>5 DEF EidAfter
      <3>2. QED
        BY <2>0, <2>1, <2>2, <3>1
    <2>8. ListsInv'
      BY <2>5, <2>6, <2>7 DEF ListsInv
    <2>9. PhaseInv'
      BY <1>1, <1>2, <2>3 DEF DrainInv, PhaseInv
    <2>10. Dangling({eps.last}) = {}
      <3>1. eps.last \in Ep => ep[eps.last] # "freed"
        BY <2>1, EmptyIsEmpty DEF Started
      <3>2. QED
        BY <3>1, NoDangling
    <2>11. Alive' /\ ready' = ready
      BY <1>5, <2>10, LeaveQuiet DEF DrainInv
    <2>12. PipesInv'
      <3>1. Attached' = Attached
        BY <1>2 DEF Attached
      <3>2. \A e \in Ep : pipe[e].state # "IDLE" => ep'[e] \in {"started", "stopping"}
        BY <2>2 DEF DrainInv, PipesInv
      <3>3. QED
        BY <1>2, <2>11, <3>1, <3>2 DEF DrainInv, PipesInv
    <2>13. QED
      BY <2>8, <2>9, <2>11, <2>12 DEF DrainInv
  <1>6. QED
    BY <1>3, <1>4, <1>5 DEF AddEp

(* A pipe is attached to an endpoint that lives, notified, detached.       *)
LEMMA StartDrains ==
    ASSUME TypeOK, EfdInv', EfdInv, DrainInv, NEW e \in Ep, StartPipe(e)
    PROVE  DrainInv'
  <1>1. /\ UNCHANGED <<eps, sdeps, link, ep, eid, closer, cursor, state, termsem>>
        /\ ep[e] = "started" /\ pipe[e] = PipeInit /\ lock = "free"
    BY DEF StartPipe, epVars, thrVars, Enter
  <1>2. PICK added \in BOOLEAN :
           /\ pipe' = [pipe EXCEPT ![e] = PipeStart(@, added)]
           /\ conns' = IF added THEN conns + 1 ELSE conns
           /\ OnLeave(state, flags,
                      IF added /\ state = "ACTIVE"
                      THEN [ready EXCEPT !["OUT"] = @ \cup {e}] ELSE ready,
                      Failed("protocol used after destroy", state # "FINI"))
    BY DEF StartPipe
  <1> DEFINE rd == IF added /\ state = "ACTIVE"
                   THEN [ready EXCEPT !["OUT"] = @ \cup {e}] ELSE ready
  <1>3. state # "FINI"
    <2>1. Started # {}
      BY <1>1 DEF Started
    <2>2. closer \in {"open", "stopping"}
      BY <2>1 DEF DrainInv, PhaseInv
    <2>3. QED
      BY <2>2 DEF EfdInv
  <1>4. OnLeave(state, flags, rd, {})
    BY <1>2, <1>3 DEF Failed
  <1>5. ready' = rd
    BY <1>4 DEF OnLeave
  <1>6. /\ \A x \in Ep : x # e => pipe'[x] = pipe[x]
        /\ pipe'[e].state = IF added THEN "ACTIVE" ELSE "FAILED"
        /\ pipe'[e].outstate = "IDLE" /\ pipe[e].state = "IDLE"
    <2>1. /\ \A x \in Ep : x # e => pipe'[x] = pipe[x]
          /\ pipe'[e] = PipeStart(PipeInit, added)
      BY <1>1, <1>2 DEF TypeOK
    <2>2. /\ PipeStart(PipeInit, added).state = IF added THEN "ACTIVE" ELSE "FAILED"
          /\ PipeStart(PipeInit, added).outstate = "IDLE" /\ PipeInit.state = "IDLE"
      BY DEF PipeStart, PipeInit
    <2>3. QED
      BY <1>1, <2>1, <2>2
  <1>7. e \notin ready["IN"] /\ e \notin ready["OUT"] /\ e \notin Attached
    BY <1>6 DEF DrainInv, PipesInv, Attached
  <1>8. PipesInv'
    <2>1. \A x \in Ep : pipe'[x].state # "IDLE" => ep'[x] \in {"started", "stopping"}
      BY <1>1, <1>6 DEF DrainInv, PipesInv
    <2>2. ready'["IN"] = ready["IN"] /\ ready'["OUT"] \subseteq ready["OUT"] \cup {e}
      BY <1>5 DEF TypeOK
    <2>3. \A x \in ready'["IN"] : pipe'[x].state = "ACTIVE" /\ pipe'[x].instate = "IDLE"
      BY <1>6, <1>7, <2>2 DEF DrainInv, PipesInv, TypeOK
    <2>4. e \in ready'["OUT"] => added
      BY <1>5, <1>7
    <2>5. \A x \in ready'["OUT"] : pipe'[x].state = "ACTIVE" /\ pipe'[x].outstate = "IDLE"
      BY <1>6, <2>2, <2>4 DEF DrainInv, PipesInv, TypeOK
    <2>6. conns' = Cardinality(Attached')
      <3>1. CASE added
        <4>1. Attached' = Attached \cup {e}
          BY <1>6, <3>1 DEF Attached
        <4>2. Cardinality(Attached') = Cardinality(Attached) + 1
          BY <1>7, <4>1, AttachedFinite, FS_AddElement
        <4>3. QED
          BY <1>2, <3>1, <4>2 DEF DrainInv, PipesInv
      <3>2. CASE ~added
        <4>1. Attached' = Attached
          BY <1>6, <3>2 DEF Attached
        <4>2. QED
          BY <1>2, <3>2, <4>1 DEF DrainInv, PipesInv
      <3>3. QED
        BY <3>1, <3>2
    <2>7. QED
      BY <2>1, <2>3, <2>5, <2>6 DEF PipesInv
  <1> HIDE DEF rd
  <1>9. QED
    BY <1>1, <1>4, <1>8, PipeSection

LEMMA NotifyDrains ==
    ASSUME TypeOK, EfdInv', DrainInv, NEW e \in Ep, NEW d \in Dir, Notify(e, d)
    PROVE  DrainInv'
  <1>1. /\ UNCHANGED <<eps, sdeps, link, ep, eid, closer, cursor, state, termsem>>
        /\ conns' = conns /\ pipe[e].state = "ACTIVE"
    BY DEF Notify, epVars, thrVars
  <1> DEFINE rd == IF state = "ACTIVE" THEN [ready EXCEPT ![d] = @ \cup {e}] ELSE ready
  <1>2. OnLeave(state, flags, rd, {})
    BY DEF Notify
  <1>3. ready' = rd
    BY <1>2 DEF OnLeave
  <1>4. /\ \A x \in Ep : x # e => pipe'[x] = pipe[x]
        /\ pipe'[e] = IF d = "IN" THEN PipeReceived(pipe[e]) ELSE PipeSent(pipe[e])
        /\ pipe[e] \in Pipes
    BY DEF Notify, TypeOK
  <1>5. /\ pipe'[e].state = "ACTIVE"
        /\ d = "IN" => pipe'[e].instate = "IDLE" /\ pipe'[e].outstate = pipe[e].outstate
        /\ d = "OUT" => pipe'[e].outstate = "IDLE" /\ pipe'[e].instate = pipe[e].instate
    <2>1. CASE d = "IN"
      <3>1. pipe[e].instate = "ASYNC"
        BY <2>1 DEF Notify, RaisesIn
      <3>2. QED
        BY <1>1, <1>4, <2>1, <3>1 DEF PipeReceived, Pipes
    <2>2. CASE d = "OUT"
      <3>1. pipe[e].outstate = "ASYNC"
        BY <2>2 DEF Notify, RaisesOut
      <3>2. QED
        BY <1>1, <1>4, <2>2, <3>1 DEF PipeSent, Pipes
    <2>3. QED
      BY <2>1, <2>2
  <1>6. \A c \in Dir : rd[c] \subseteq ready[c] \cup (IF c = d THEN {e} ELSE {})
    BY DEF TypeOK
  <1>7. PipesInv'
    <2>1. \A x \in Ep : pipe'[x].state # "IDLE" => ep'[x] \in {"started", "stopping"}
      BY <1>1, <1>4, <1>5 DEF DrainInv, PipesInv
    <2>2. ASSUME NEW x \in ready'["IN"]
          PROVE  pipe'[x].state = "ACTIVE" /\ pipe'[x].instate = "IDLE"
      <3>1. x \in ready["IN"] \/ (x = e /\ d = "IN")
        BY <1>3, <1>6
      <3>2. CASE x = e /\ d = "IN"
        BY <1>5, <3>2
      <3>3. CASE x \in ready["IN"]
        BY <1>4, <1>5, <3>3 DEF DrainInv, PipesInv, TypeOK
      <3>4. QED
        BY <3>1, <3>2, <3>3
    <2>3. ASSUME NEW x \in ready'["OUT"]
          PROVE  pipe'[x].state = "ACTIVE" /\ pipe'[x].outstate = "IDLE"
      <3>1. x \in ready["OUT"] \/ (x = e /\ d = "OUT")
        BY <1>3, <1>6
      <3>2. CASE x = e /\ d = "OUT"
        BY <1>5, <3>2
      <3>3. CASE x \in ready["OUT"]
        BY <1>4, <1>5, <3>3 DEF DrainInv, PipesInv, TypeOK
      <3>4. QED
        BY <3>1, <3>2, <3>3
    <2>4. Attached' = Attached
      BY <1>1, <1>4, <1>5 DEF Attached
    <2>5. QED
      BY <1>1, <2>1, <2>2, <2>3, <2>4 DEF DrainInv, PipesInv
  <1> HIDE DEF rd
  <1>8. QED
    BY <1>1, <1>2, <1>7, PipeSection

LEMMA StopPipeDrains ==
    ASSUME TypeOK, EfdInv', DrainInv, NEW e \in Ep, StopPipe(e)
    PROVE  DrainInv'
  <1>1. /\ UNCHANGED <<eps, sdeps, link, ep, eid, closer, cursor, state, termsem>>
        /\ pipe' = [pipe EXCEPT ![e] = PipeInit]
        /\ conns' = IF Counted(pipe[e]) THEN conns - 1 ELSE conns
        /\ OnLeave(state, flags, [d \in Dir |-> ready[d] \ {e}],
                   Failed("sock.c:924", Counted(pipe[e]) => conns >= 1))
    BY DEF StopPipe, epVars, thrVars
  <1>2. /\ \A x \in Ep : x # e => pipe'[x] = pipe[x]
        /\ pipe'[e].state = "IDLE"
    BY <1>1 DEF TypeOK, PipeInit
  <1>3. Counted(pipe[e]) <=> e \in Attached
    BY DEF Counted, Attached
  <1>4. Attached' = Attached \ {e}
    BY <1>2 DEF Attached
  <1>5. Counted(pipe[e]) => conns >= 1
    <2>1. SUFFICES ASSUME e \in Attached PROVE conns >= 1
      BY <1>3
    <2>2. Cardinality(Attached) # 0
      BY <2>1, AttachedFinite, FS_EmptySet
    <2>3. QED
      BY <2>2, AttachedFinite DEF DrainInv, PipesInv
  <1> DEFINE rd == [d \in Dir |-> ready[d] \ {e}]
  <1>6. OnLeave(state, flags, rd, {})
    BY <1>1, <1>5 DEF Failed
  <1>7. ready' = rd
    BY <1>6 DEF OnLeave
  <1>8. PipesInv'
    <2>1. \A x \in Ep : pipe'[x].state # "IDLE" => ep'[x] \in {"started", "stopping"}
      BY <1>1, <1>2 DEF DrainInv, PipesInv
    <2>2. \A x \in ready'["IN"] : pipe'[x].state = "ACTIVE" /\ pipe'[x].instate = "IDLE"
      BY <1>2, <1>7 DEF DrainInv, PipesInv, TypeOK
    <2>3. \A x \in ready'["OUT"] : pipe'[x].state = "ACTIVE" /\ pipe'[x].outstate = "IDLE"
      BY <1>2, <1>7 DEF DrainInv, PipesInv, TypeOK
    <2>4. conns' = Cardinality(Attached')
      <3>1. CASE e \in Attached
        <4>1. Cardinality(Attached') = Cardinality(Attached) - 1
          BY <1>4, <3>1, AttachedFinite, FS_RemoveElement
        <4>2. QED
          BY <1>1, <1>3, <3>1, <4>1 DEF DrainInv, PipesInv
      <3>2. CASE e \notin Attached
        <4>1. Attached' = Attached
          BY <1>4, <3>2
        <4>2. QED
          BY <1>1, <1>3, <3>2, <4>1 DEF DrainInv, PipesInv
      <3>3. QED
        BY <3>1, <3>2
    <2>5. QED
      BY <2>1, <2>2, <2>3, <2>4 DEF PipesInv
  <1> HIDE DEF rd
  <1>9. QED
    BY <1>1, <1>6, <1>8, PipeSection

(* The last answer of an endpoint takes it from sdeps; the one that leaves *)
(* sdeps empty ends the shutdown.                                          *)
LEMMA EpStoppedDrains ==
    ASSUME Orderly, TypeOK, TypeOK', EfdInv, EfdInv', DrainInv, NEW e \in Ep, EpStopped(e)
    PROVE  DrainInv'
  <1>1. /\ lock = "free" /\ ep[e] = "stopping" /\ pipe[e].state = "IDLE"
        /\ ep' = [ep EXCEPT ![e] = "freed"]
        /\ link' = EraseLinks(link, e)
        /\ UNCHANGED <<eid, cursor, pipe, conns, closer>>
    BY DEF EpStopped, Enter, thrVars
  <1>2. e \in Stopping /\ Stopping \in SUBSET Ep
    BY <1>1 DEF Stopping
  <1>3. closer \notin {"open", "stopping"}
    BY <1>1, <1>2 DEF DrainInv, PhaseInv, EfdInv
  <1>4. EpStoppedStopping(e)
    BY <1>3 DEF EpStopped, EpStoppedActive, EfdInv
  <1>5. /\ Chained(eps, link, Started) /\ Chained(sdeps, link, Stopping)
        /\ Started = {} /\ \A x \in Ep : ep[x] = "none" <=> x >= eid
    BY <1>3 DEF DrainInv, ListsInv, PhaseInv
  <1>6. /\ sdeps' = EraseHead(sdeps, link, e) /\ eps' = eps
        /\ state = "STOPPING_EPS" /\ Finish2(sdeps')
    BY <1>4 DEF EpStoppedStopping
  <1>7. /\ \A x \in Ep : x # e => ep'[x] = ep[x]
        /\ ep'[e] = "freed"
    BY <1>1 DEF TypeOK
  <1>8. Started' = {} /\ Stopping' = Stopping \ {e}
    BY <1>5, <1>7 DEF Started, Stopping
  <1>9. Chained(sdeps', link', Stopping')
    BY <1>1, <1>2, <1>5, <1>6, <1>8, EraseChained DEF TypeOK
  <1>10. Chained(eps', link', Started')
    BY <1>5, <1>6, <1>8 DEF Chained
  <1>11. ListsInv'
    <2>1. \A x \in Ep : ep'[x] = "none" <=> x >= eid'
      BY <1>1, <1>5, <1>7
    <2>2. QED
      BY <1>9, <1>10, <2>1 DEF ListsInv
  <1>12. ListEmpty(eps) /\ (Drained(sdeps') <=> Stopping' = {})
    <2>1. Stopping' \in SUBSET Ep
      BY <1>2, <1>8
    <2>2. QED
      BY <1>5, <1>9, <2>1, EmptyIsEmpty DEF Drained
  <1>13. state' = IF Stopping' = {} THEN "FINI" ELSE "STOPPING_EPS"
    BY <1>6, <1>12 DEF Finish2, Orderly
  <1>14. PhaseInv'
    <2>1. termsem' > 0 \/ closer' \in {"term_rele", "term_free", "closed"} => state' = "FINI"
      <3>1. ~(termsem > 0) /\ closer \notin {"term_rele", "term_free", "closed"}
        BY <1>6 DEF DrainInv, PhaseInv
      <3>2. state' = "FINI" \/ termsem' = termsem
        BY <1>6 DEF Finish2, Orderly
      <3>3. QED
        BY <1>1, <3>1, <3>2
    <2>2. QED
      BY <1>1, <1>3, <1>8, <1>13, <2>1 DEF PhaseInv
  <1>15. Dangling({link[e].prev, link[e].next}) = {}
    <2>1. /\ link[e].prev = NULL \/ link[e].prev \in Stopping
          /\ link[e].next = NULL \/ link[e].next \in Stopping
      BY <1>2, <1>5, Neighbours
    <2>2. NULL \notin Ep
      BY SockAssumption
    <2>3. QED
      BY <2>1, <2>2, NoDangling DEF Stopping
  <1>16. OnLeave(state', flags, ready, {})
    <2>1. Finish2Asserts(eps, sdeps') = {}
      BY <1>12 DEF Finish2Asserts, Failed
    <2>2. QED
      BY <1>4, <1>15, <2>1 DEF EpStoppedStopping
  <1>17. Alive' /\ ready' = ready
    BY <1>16, LeaveQuiet DEF DrainInv
  <1>18. PipesInv'
    <2>1. Attached' = Attached
      BY <1>1 DEF Attached
    <2>2. \A x \in Ep : pipe'[x].state # "IDLE" => ep'[x] \in {"started", "stopping"}
      BY <1>1, <1>7 DEF DrainInv, PipesInv
    <2>3. QED
      BY <1>1, <1>17, <2>1, <2>2 DEF DrainInv, PipesInv
  <1>19. QED
    BY <1>11, <1>14, <1>17, <1>18 DEF DrainInv

(* The loop of nn_sock_shutdown moves the first endpoint of eps to the end *)
(* of sdeps.                                                               *)
LEMMA StopEpDrains ==
    ASSUME Orderly, TypeOK, TypeOK', EfdInv, EfdInv', DrainInv, StopEp
    PROVE  DrainInv'
  <1> DEFINE c  == cursor
             lk == EraseLinks(link, c)
  <1>1. /\ closer = "stopping" /\ c \in Ep
        /\ eps' = EraseHead(eps, link, c)
        /\ sdeps' = AppendHead(sdeps, c)
        /\ link' = AppendLinks(sdeps, lk, c)
        /\ ep' = [ep EXCEPT ![c] = IF @ = "started" THEN "stopping" ELSE @]
        /\ cursor' = link[c].next
        /\ abort' = Failed("list.c:70", IsInList(link, c)) \cup
                    Dangling({c, link[c].prev, link[c].next, sdeps.last})
        /\ UNCHANGED <<state, termsem, eid, pipe, ready, conns, closer>>
    BY DEF StopEp, sockVars, pipeVars, thrVars
  <1>2. /\ Chained(eps, link, Started) /\ Chained(sdeps, link, Stopping)
        /\ Started \in SUBSET Ep /\ Stopping \in SUBSET Ep
        /\ \A x \in Ep : ep[x] = "none" <=> x >= eid
        /\ c = eps.first /\ \A d \in Stopping, s \in Started : d < s
    BY <1>1 DEF DrainInv, ListsInv, PhaseInv, Started, Stopping
  <1>3. c \in Started
    BY <1>1, <1>2, EmptyIsEmpty
  <1>t. /\ link \in [Ep -> Links(Ep)] /\ eps \in ListHead(Ep) /\ sdeps \in ListHead(Ep)
        /\ lk \in [Ep -> Links(Ep)]
    BY <1>1, EraseType DEF TypeOK
  <1>4. /\ \A x \in Ep : x # c => ep'[x] = ep[x]
        /\ ep'[c] = "stopping" /\ ep[c] = "started"
    BY <1>1, <1>3 DEF TypeOK, Started
  <1>5. Started' = Started \ {c} /\ Stopping' = Stopping \cup {c}
    BY <1>3, <1>4 DEF Started, Stopping
  <1> HIDE DEF c
  <1>6. /\ Chained(EraseHead(eps, link, c), lk, Started \ {c})
        /\ \A x \in Ep \ Started : lk[x] = link[x]
    BY <1>t, <1>2, <1>3, EraseChained
  <1> HIDE DEF lk
  <1>7. Chained(sdeps, lk, Stopping)
    <2>1. \A x \in Stopping : x \in Ep \ Started
      BY DEF Started, Stopping
    <2>2. QED
      BY <1>2, <1>6, <2>1, ChainedFrame
  <1>8. /\ Chained(AppendHead(sdeps, c), AppendLinks(sdeps, lk, c), Stopping \cup {c})
        /\ \A x \in Ep : x \notin Stopping /\ x # c => AppendLinks(sdeps, lk, c)[x] = lk[x]
    <2>1. \A x \in Stopping : x < c
      BY <1>2, <1>3
    <2>2. c \in Ep /\ Stopping \in SUBSET Ep
      BY <1>1, <1>2
    <2>3. Chained(AppendHead(sdeps, c), AppendLinks(sdeps, lk, c), Stopping \cup {c})
      BY <1>t, <1>7, <2>1, <2>2, AppendChained
    <2>4. \A x \in Ep : x \notin Stopping /\ x # c => AppendLinks(sdeps, lk, c)[x] = lk[x]
      BY <1>t, <1>7, <2>1, <2>2, AppendChained
    <2>5. QED
      BY <2>3, <2>4
  <1>9. Chained(sdeps', link', Stopping')
    BY <1>1, <1>5, <1>8
  <1>10. Chained(eps', link', Started')
    <2>1. \A x \in Started \ {c} : x \in Ep /\ x \notin Stopping /\ x # c
      BY DEF Started, Stopping
    <2>2. \A x \in Started \ {c} : link'[x] = lk[x]
      BY <1>1, <1>8, <2>1
    <2>3. QED
      BY <1>1, <1>5, <1>6, <2>2, ChainedFrame
  <1>11. ListsInv'
    <2>1. \A x \in Ep : ep'[x] = "none" <=> x >= eid'
      BY <1>1, <1>2, <1>4
    <2>2. QED
      BY <1>9, <1>10, <2>1 DEF ListsInv
  <1>12. link[c].prev = NULL
    BY <1>2, <1>3 DEF Chained
  <1>13. cursor' = eps'.first
    BY <1>1, <1>12 DEF EraseHead
  <1>14. \A d \in Stopping', s \in Started' : d < s
    <2>1. SUFFICES ASSUME NEW d \in Stopping', NEW s \in Started' PROVE d < s
      OBVIOUS
    <2>2. s \in Started /\ s # c
      BY <1>5
    <2>3. CASE d \in Stopping
      BY <1>2, <2>2, <2>3
    <2>4. CASE d = c
      <3>1. c <= s
        BY <1>2, <2>2 DEF Chained
      <3>2. c \in Int /\ s \in Int
        BY <1>1, <1>2, <2>2, SockAssumption
      <3>3. QED
        BY <2>2, <2>4, <3>1, <3>2
    <2>5. QED
      BY <1>5, <2>3, <2>4
  <1>15. PhaseInv'
    <2>1. ~(termsem > 0)
      BY <1>1 DEF DrainInv, PhaseInv, EfdInv
    <2>2. QED
      BY <1>1, <1>13, <1>14, <2>1 DEF PhaseInv
  <1>16. Alive'
    <2>1. IsInList(link, c)
      BY <1>12 DEF IsInList
    <2>2. /\ link[c].next = NULL \/ link[c].next \in Started
          /\ sdeps.last \in Ep => sdeps.last \in Stopping
      BY <1>2, <1>3, Neighbours, EmptyIsEmpty
    <2>3. NULL \notin Ep
      BY SockAssumption
    <2>4. Dangling({c, link[c].prev, link[c].next, sdeps.last}) = {}
      <3>1. \A i \in {c, link[c].prev, link[c].next, sdeps.last} :
               i \in Ep => i \in Started \cup Stopping
        BY <1>3, <1>12, <2>2, <2>3
      <3>2. \A i \in Started \cup Stopping : ep[i] # "freed"
        BY DEF Started, Stopping
      <3>3. QED
        BY <3>1, <3>2, NoDangling
    <2>5. QED
      BY <1>1, <2>1, <2>4 DEF Alive, Failed
  <1>17. PipesInv'
    <2>1. Attached' = Attached
      BY <1>1 DEF Attached
    <2>2. \A x \in Ep : pipe'[x].state # "IDLE" => ep'[x] \in {"started", "stopping"}
      BY <1>1, <1>4 DEF DrainInv, PipesInv
    <2>3. QED
      BY <1>1, <2>1, <2>2 DEF DrainInv, PipesInv
  <1>18. QED
    BY <1>11, <1>15, <1>16, <1>17 DEF DrainInv

(* The end of the loop: eps is empty, and without endpoints to wait for    *)
(* the socket is finished at once.                                         *)
LEMMA StopEndDrains ==
    ASSUME Orderly, TypeOK, EfdInv, EfdInv', DrainInv, StopEnd
    PROVE  DrainInv'
  <1>1. /\ closer = "stopping" /\ closer' = "stopped" /\ cursor \notin Ep
        /\ Finish2(sdeps) /\ OnLeave(state', flags, ready, Finish2Asserts(eps, sdeps))
        /\ UNCHANGED <<eps, sdeps, link, ep, eid, cursor, pipe, conns>>
    BY DEF StopEnd, epVars
  <1>2. /\ Chained(eps, link, Started) /\ Chained(sdeps, link, Stopping)
        /\ Started \in SUBSET Ep /\ Stopping \in SUBSET Ep /\ cursor = eps.first
    BY <1>1 DEF DrainInv, ListsInv, PhaseInv, Started, Stopping
  <1>3. Started = {}
    BY <1>1, <1>2 DEF Chained
  <1>4. ListEmpty(eps) /\ (Drained(sdeps) <=> Stopping = {})
    BY <1>2, <1>3, EmptyIsEmpty DEF Drained
  <1>5. OnLeave(state', flags, ready, {})
    BY <1>1, <1>4 DEF Finish2Asserts, Failed
  <1>6. Alive' /\ ready' = ready
    BY <1>5, LeaveQuiet DEF DrainInv
  <1>7. state' = IF Stopping = {} THEN "FINI" ELSE "STOPPING_EPS"
    BY <1>1, <1>4 DEF Finish2, Orderly
  <1>8. Started' = {} /\ Stopping' = Stopping
    BY <1>1, <1>3 DEF Started, Stopping
  <1>9. ~(termsem > 0)
    BY <1>1 DEF DrainInv, PhaseInv, EfdInv
  <1>10. state' = "FINI" \/ termsem' = termsem
    BY <1>1 DEF Finish2, Orderly
  <1>11. PhaseInv'
    BY <1>1, <1>7, <1>8, <1>9, <1>10 DEF PhaseInv
  <1>12. ListsInv' /\ PipesInv'
    BY <1>1, <1>6, ListsFrame, PipesFrame DEF DrainInv
  <1>13. QED
    BY <1>6, <1>11, <1>12 DEF DrainInv

(* Every step keeps DrainInv.                                              *)
LEMMA DrainStep ==
    Orderly /\ TypeOK /\ TypeOK' /\ EfdInv /\ EfdInv' /\ DrainInv /\ [Next]_vars
        => DrainInv'
  <1> SUFFICES ASSUME Orderly, TypeOK, TypeOK', EfdInv, EfdInv', DrainInv, [Next]_vars
               PROVE  DrainInv'
    OBVIOUS
  <1>1. ASSUME NEW t \in Callers, Hold(t) \/ Rele(t) \/ WakeUp(t) \/ GiveUp(t)
        PROVE  DrainInv'
    <2>1. UNCHANGED <<eps, sdeps, link, ep, eid, cursor, pipe, ready, conns,
                      closer, state, termsem, abort>>
      BY <1>1 DEF Hold, Rele, WakeUp, GiveUp, sockVars, epVars, pipeVars
    <2>2. QED
      BY <2>1, ListsFrame, PhaseFrame, PipesFrame DEF DrainInv, Alive
  <1>2. ASSUME NEW t \in Callers, NEW d \in Dirs, SendRecv(t, d) PROVE DrainInv'
    <2>1. d \in Dir /\ Turn(t, d, flags)
      BY <1>2, SockAssumption DEF SendRecv
    <2>2. QED
      BY <2>1, TurnDrains
  <1>3. ASSUME NEW t \in Callers, Retry(t) PROVE DrainInv'
    <2> DEFINE fl == IF Readable(want[t]) THEN flags \cup {want[t]} ELSE flags
    <2>1. want[t] \in Dir /\ Turn(t, want[t], fl)
      BY <1>3 DEF Retry, TypeOK
    <2> HIDE DEF fl
    <2>2. QED
      BY <2>1, TurnDrains
  <1>4. ASSUME NEW t \in Callers, AddEp(t) PROVE DrainInv'
    BY <1>4, AddDrains
  <1>5. ASSUME NEW t \in Callers, NEW e \in Ep, RmEp(t, e) PROVE DrainInv'
    BY <1>5 DEF RmEp, Orderly
  <1>6. ASSUME NEW e \in Ep, Transport(e) PROVE DrainInv'
    <2>1. "IN" \in Dir /\ "OUT" \in Dir
      OBVIOUS
    <2>2. QED
      BY <1>6, <2>1, StartDrains, NotifyDrains, StopPipeDrains, EpStoppedDrains DEF Transport
  <1>7. CASE ProtocolStopped
    <2>1. state = "STOPPING"
      BY <1>7 DEF ProtocolStopped
    <2>2. closer \notin {"open", "stopping"}
      BY <2>1 DEF EfdInv
    <2>3. QED
      BY <2>1, <2>2 DEF DrainInv, PhaseInv
  <1>8. CASE StopBegin
    <2>1. /\ closer = "open" /\ closer' = "stopping" /\ cursor' = eps.first
          /\ abort' = Failed("sock.c:743", state = "ACTIVE")
          /\ UNCHANGED <<eps, sdeps, link, ep, eid, pipe, ready, conns, state, termsem>>
      BY <1>8 DEF StopBegin, pipeVars
    <2>2. Alive'
      BY <2>1 DEF EfdInv, Failed, Alive
    <2>3. Stopping' = {} /\ ~(termsem' > 0)
      BY <2>1 DEF DrainInv, PhaseInv, Stopping, EfdInv
    <2>4. PhaseInv'
      BY <2>1, <2>3 DEF PhaseInv
    <2>5. QED
      BY <2>1, <2>2, <2>4, ListsFrame, PipesFrame DEF DrainInv
  <1>9. CASE StopEp
    BY <1>9, StopEpDrains
  <1>10. CASE StopEnd
    BY <1>10, StopEndDrains
  <1>11. CASE CloserRele \/ AwaitTermsem \/ AwaitRelesem
    <2>1. /\ UNCHANGED <<eps, sdeps, link, ep, eid, cursor, pipe, ready, conns, state, abort>>
          /\ closer \in {"stopped", "term", "term_rele"}
          /\ closer' \in {"term", "term_rele", "term_free"}
          /\ termsem' > 0 => termsem > 0
          /\ closer' # "term" => closer = "term_rele" \/ termsem > 0
      BY <1>11 DEF CloserRele, AwaitTermsem, AwaitRelesem, epVars, pipeVars, TypeOK
    <2>2. PhaseInv'
      BY <2>1 DEF DrainInv, PhaseInv, Started, Stopping
    <2>3. QED
      BY <2>1, <2>2, ListsFrame, PipesFrame DEF DrainInv, Alive
  <1>12. CASE TermFree
    <2>1. /\ closer = "term_free" /\ closer' = "closed"
          /\ abort' = Failed("list.c:16", ListTermOK(eps) /\ ListTermOK(sdeps))
          /\ UNCHANGED <<eps, sdeps, link, ep, eid, cursor, pipe, ready, conns,
                         state, termsem>>
      BY <1>12 DEF TermFree, epVars, pipeVars
    <2>2. state = "FINI" /\ Started = {} /\ Stopping = {}
      BY <2>1 DEF DrainInv, PhaseInv
    <2>3. ListTermOK(eps) /\ ListTermOK(sdeps)
      BY <2>2, EmptyIsEmpty DEF DrainInv, ListsInv
    <2>4. Alive'
      BY <2>1, <2>3 DEF Alive, Failed
    <2>5. PhaseInv'
      BY <2>1, <2>2 DEF PhaseInv, Started, Stopping
    <2>6. QED
      BY <2>1, <2>4, <2>5, ListsFrame, PipesFrame DEF DrainInv
  <1>13. CASE Finished \/ UNCHANGED vars
    <2>1. UNCHANGED <<eps, sdeps, link, ep, eid, cursor, pipe, ready, conns,
                      closer, state, termsem, abort>>
      BY <1>13 DEF Finished, vars, sockVars, epVars, pipeVars, thrVars
    <2>2. QED
      BY <2>1, ListsFrame, PhaseFrame, PipesFrame DEF DrainInv, Alive
  <1>14. QED
    BY <1>1, <1>2, <1>3, <1>4, <1>5, <1>6, <1>7, <1>8, <1>9, <1>10, <1>11, <1>12, <1>13
    DEF Next, Caller, Closer

(* The lists, the place of the closer and the pipes fit together in every  *)
(* reachable state.                                                        *)
LEMMA DrainInvariant == Orderly => (Spec => []DrainInv)
  <1> SUFFICES ASSUME Orderly PROVE Spec => []DrainInv
    OBVIOUS
  <1>1. Init => DrainInv
    <2> SUFFICES ASSUME Init PROVE DrainInv
      OBVIOUS
    <2>1. Started = {} /\ Stopping = {}
      BY DEF Init, Started, Stopping
    <2>2. MaxEp \in Nat
      BY SockAssumption
    <2>3. \A e \in Ep : ep[e] = "none" <=> e >= eid
      BY <2>2 DEF Init
    <2>4. ListsInv
      BY <2>1, <2>3 DEF Init, ListsInv, Chained
    <2>5. PhaseInv
      BY <2>1 DEF Init, PhaseInv
    <2>6. Attached = {}
      BY DEF Init, Attached, PipeInit
    <2>7. PipesInv
      BY <2>6, FS_EmptySet DEF Init, PipesInv, PipeInit
    <2>8. QED
      BY <2>4, <2>5, <2>7 DEF Init, DrainInv, Alive
  <1>2. TypeOK /\ TypeOK' /\ EfdInv /\ EfdInv' /\ DrainInv /\ [Next]_vars => DrainInv'
    BY DrainStep
  <1>3. QED
    BY <1>1, <1>2, TypeCorrect, EfdInvariant, PTL DEF Spec

(* When the protocol is destroyed no endpoint lives, no pipe is attached,  *)
(* offered or counted: whatever the transports and callers do, as long as  *)
(* nn_sock_rm_ep is not called, endpoints come in time and the protocol    *)
(* has no stop function.                                                   *)
THEOREM DrainsInOrder == Orderly => (Spec => []DrainedBeforeDestroy)
  <1> SUFFICES ASSUME Orderly PROVE Spec => []DrainedBeforeDestroy
    OBVIOUS
  <1>1. TypeOK /\ EfdInv /\ DrainInv => DrainedBeforeDestroy
    <2> SUFFICES ASSUME TypeOK, EfdInv, DrainInv, state \in {"STOPPING", "FINI"}
                 PROVE  /\ \A e \in Ep : ep[e] \in {"none", "freed"} /\ pipe[e].state = "IDLE"
                        /\ \A d \in Dir : ready[d] = {}
                        /\ conns = 0
      BY DEF DrainedBeforeDestroy
    <2>1. Started = {} /\ Stopping = {}
      BY DEF EfdInv, DrainInv, PhaseInv
    <2>2. \A e \in Ep : ep[e] \in {"none", "freed"}
      BY <2>1 DEF Started, Stopping, TypeOK
    <2>3. \A e \in Ep : pipe[e].state = "IDLE"
      BY <2>2 DEF DrainInv, PipesInv
    <2>4. \A d \in Dir : ready[d] = {}
      BY <2>3 DEF DrainInv, PipesInv, TypeOK
    <2>5. Attached = {}
      BY <2>3 DEF Attached
    <2>6. conns = 0
      BY <2>5, FS_EmptySet DEF DrainInv, PipesInv
    <2>7. QED
      BY <2>2, <2>3, <2>4, <2>6
  <1>2. QED
    BY <1>1, TypeCorrect, EfdInvariant, DrainInvariant, PTL

(* No assertion of sock.c, pipe.c, list.c or efd fails and no freed        *)
(* memory is touched, under the same conditions.                           *)
THEOREM NoneFails == Orderly => (Spec => []NoAssertionFails)
  <1> SUFFICES ASSUME Orderly PROVE Spec => []NoAssertionFails
    OBVIOUS
  <1>1. DrainInv => NoAssertionFails
    BY DEF DrainInv, NoAssertionFails
  <1>2. QED
    BY <1>1, DrainInvariant, PTL
-----------------------------------------------------------------------------
(* The refinement of SockLife.  The abstract variables, by the expressions *)
(* that stand for them.                                                    *)
Phase == IF closer = "closed" THEN "closed"
         ELSE IF state = "FINI" THEN "drained"
         ELSE IF state = "ACTIVE" THEN "open" ELSE "draining"
Live == {e \in Ep : ep[e] \in {"started", "stopping"}}

(* What the phases are made of.                                            *)
LEMMA PhaseValues ==
    /\ closer = "closed" => Phase = "closed"
    /\ closer # "closed" /\ state = "FINI" => Phase = "drained"
    /\ closer # "closed" /\ state = "ACTIVE" => Phase = "open"
    /\ closer # "closed" /\ state \notin {"FINI", "ACTIVE"} => Phase = "draining"
  BY DEF Phase

(* A step that changes none of the abstract variables is a stutter. *)
LEMMA LifeStutter ==
    ASSUME UNCHANGED <<Phase, Inside, Live, eid>>
    PROVE  UNCHANGED Life!lifeVars
  BY DEF Life!lifeVars, Phase, Inside, Live

(* Nor does one that leaves the places, the endpoints and the phase alone. *)
LEMMA LifeFrame ==
    ASSUME UNCHANGED <<pc, ep, eid>>, UNCHANGED <<state, closer>> \/ UNCHANGED Phase
    PROVE  UNCHANGED Life!lifeVars
  BY LifeStutter DEF Phase, Inside, Live

(* A thread enters while the socket is open, and leaves. *)
LEMMA LifeJoins ==
    ASSUME TypeOK, EfdInv, NEW t \in Callers, Hold(t)
    PROVE  Life!Join(t)
  <1>1. /\ pc[t] = "idle" /\ pc' = [pc EXCEPT ![t] = "held"]
        /\ state = "ACTIVE" /\ UNCHANGED <<state, closer, ep, eid>>
    BY DEF Hold, MayHold, epVars
  <1>2. closer # "closed"
    BY <1>1 DEF EfdInv
  <1>3. t \notin Inside /\ Inside' = Inside \cup {t}
    BY <1>1 DEF Inside, TypeOK
  <1>4. QED
    BY <1>1, <1>2, <1>3 DEF Life!Join, Inside

LEMMA LifeParts ==
    ASSUME TypeOK, NEW t \in Callers, Rele(t)
    PROVE  Life!Part(t)
  <1>1. /\ pc[t] = "done" /\ pc' = [pc EXCEPT ![t] = "idle"]
        /\ UNCHANGED <<state, closer, ep, eid>>
    BY DEF Rele, epVars
  <1>2. t \in Inside /\ Inside' = Inside \ {t}
    BY <1>1 DEF Inside, TypeOK
  <1>3. QED
    BY <1>1, <1>2 DEF Life!Part, Inside

(* A caller that is inside goes on with its call.                          *)
LEMMA LifeCalls ==
    ASSUME TypeOK, NEW t \in Callers, pc[t] # "idle", NEW p, p # "idle",
           pc' = [pc EXCEPT ![t] = p], UNCHANGED <<state, closer, ep, eid>>
    PROVE  UNCHANGED Life!lifeVars
  <1>1. Inside' = Inside
    BY StaysInside
  <1>2. QED
    BY <1>1, LifeStutter DEF Phase, Live

(* nn_sock_add_ep, when the endpoint comes into being. *)
LEMMA LifeAttaches ==
    ASSUME Orderly, TypeOK, EfdInv, DrainInv, NEW t \in Callers, AddEp(t)
    PROVE  Life!Attach \/ UNCHANGED Life!lifeVars
  <1>1. /\ pc[t] = "held" /\ pc' = [pc EXCEPT ![t] = "done"]
        /\ state = "ACTIVE" /\ UNCHANGED <<state, closer>>
    BY DEF AddEp, Orderly
  <1>2. CASE UNCHANGED <<ep, eid>>
    BY <1>1, <1>2, LifeCalls
  <1>3. CASE /\ eid \in Ep
             /\ ep' = [ep EXCEPT ![eid] = "started"]
             /\ eid' = EidAfter(TRUE)
    <2>1. Inside' = Inside /\ t \in Inside
      <3>1. Inside' = Inside
        BY <1>1, StaysInside
      <3>2. t \in Inside
        BY <1>1 DEF Inside
      <3>3. QED
        BY <3>1, <3>2
    <2>2. Live' = Live \cup {eid}
      BY <1>3 DEF Live, TypeOK
    <2>3. closer # "closed"
      BY <1>1 DEF EfdInv
    <2>4. eid' = eid + 1 /\ eid <= MaxEp
      BY <1>3, SockAssumption DEF EidAfter
    <2>5. Life!Attach
      BY <1>1, <2>1, <2>2, <2>3, <2>4 DEF Life!Attach, Inside, Live
    <2>6. QED
      BY <2>5
  <1>4. QED
    BY <1>2, <1>3 DEF AddEp, EidAfter, epVars

(* The end of the loop of nn_sock_shutdown closes the socket to newcomers, *)
(* drained if it has no endpoint.                                          *)
LEMMA LifeShuts ==
    ASSUME Orderly, TypeOK, EfdInv, DrainInv, DrainInv', StopEnd
    PROVE  Life!Shut
  <1>1. closer = "stopping" /\ closer' = "stopped" /\ UNCHANGED <<pc, ep, eid>>
    BY DEF StopEnd, epVars
  <1>2. state = "ACTIVE"
    BY <1>1 DEF EfdInv
  <1>3. Started' = {} /\ state' = IF Stopping' = {} THEN "FINI" ELSE "STOPPING_EPS"
    BY <1>1 DEF DrainInv, PhaseInv
  <1>4. Live' = Live /\ (state' = "FINI" => Live' = {})
    BY <1>1, <1>3 DEF Live, Started, Stopping
  <1>5. state' \in {"FINI", "STOPPING_EPS"}
    BY <1>3
  <1>6. QED
    BY <1>1, <1>2, <1>4, <1>5 DEF Life!Shut, Life!Drain, Live

(* An endpoint goes, and with the last one the socket is drained. *)
LEMMA LifeDetaches ==
    ASSUME Orderly, TypeOK, EfdInv, DrainInv, DrainInv', NEW e \in Ep, EpStopped(e)
    PROVE  Life!Detach(e)
  <1>1. /\ lock = "free" /\ ep[e] = "stopping" /\ ep' = [ep EXCEPT ![e] = "freed"]
        /\ UNCHANGED <<closer, pc, eid>>
    BY DEF EpStopped, Enter, thrVars
  <1>2. e \in Stopping
    BY <1>1 DEF Stopping
  <1>3. closer \notin {"open", "stopping"} /\ state = "STOPPING_EPS"
    BY <1>1, <1>2 DEF DrainInv, PhaseInv, EfdInv
  <1>4. closer # "closed"
    BY <1>3 DEF DrainInv, PhaseInv
  <1>5. Started' = {} /\ state' = IF Stopping' = {} THEN "FINI" ELSE "STOPPING_EPS"
    BY <1>1, <1>3 DEF DrainInv, PhaseInv
  <1>6. e \in Live /\ Live' = Live \ {e} /\ (state' = "FINI" => Live' = {})
    BY <1>1, <1>5 DEF Live, Started, Stopping, TypeOK
  <1>7. state' \in {"FINI", "STOPPING_EPS"}
    BY <1>5
  <1>8. QED
    BY <1>1, <1>3, <1>4, <1>6, <1>7 DEF Life!Detach, Life!Drain, Live

(* The socket is freed after it has drained and the last thread has left.  *)
LEMMA LifeCloses ==
    ASSUME TypeOK, HoldInv, DrainInv, TermFree
    PROVE  Life!Close
  <1>1. closer = "term_free" /\ closer' = "closed" /\ UNCHANGED <<state, pc, ep, eid>>
    BY DEF TermFree, epVars
  <1>2. state = "FINI" /\ Inside = {}
    BY <1>1 DEF DrainInv, PhaseInv, HoldInv
  <1>3. QED
    BY <1>1, <1>2 DEF Life!Close, Inside

(* Every step of the code is a step of SockLife or a stutter. *)
LEMMA LifeStep ==
    ASSUME Orderly, TypeOK, EfdInv, HoldInv, DrainInv, DrainInv', [Next]_vars
    PROVE  [Life!LifeNext]_(Life!lifeVars)
  <1>1. ASSUME NEW t \in Callers, Hold(t) \/ Rele(t) PROVE Life!LifeNext
    BY <1>1, LifeJoins, LifeParts DEF Life!LifeNext
  <1>2. ASSUME NEW t \in Callers,
               \/ \E d \in Dirs : SendRecv(t, d)
               \/ Retry(t) \/ WakeUp(t) \/ GiveUp(t)
        PROVE  UNCHANGED Life!lifeVars
    <2>1. pc[t] # "idle" /\ UNCHANGED <<state, closer, ep, eid>>
      BY <1>2 DEF SendRecv, Retry, WakeUp, GiveUp, Turn, sockVars, epVars
    <2>2. \E p : p # "idle" /\ pc' = [pc EXCEPT ![t] = p]
      BY <1>2 DEF SendRecv, Retry, WakeUp, GiveUp, Turn, ClosedTurn, TransferTurn,
         EagainTurn
    <2>3. QED
      BY <2>1, <2>2, LifeCalls
  <1>3. ASSUME NEW t \in Callers, AddEp(t) PROVE Life!LifeNext \/ UNCHANGED Life!lifeVars
    BY <1>3, LifeAttaches DEF Life!LifeNext
  <1>4. ASSUME NEW t \in Callers, NEW e \in Ep, RmEp(t, e) PROVE FALSE
    BY <1>4 DEF RmEp, Orderly
  <1>5. ASSUME NEW e \in Ep, NEW d \in Dir, StartPipe(e) \/ Notify(e, d) \/ StopPipe(e)
        PROVE  UNCHANGED Life!lifeVars
    <2>1. UNCHANGED <<pc, ep, eid, state, closer>>
      BY <1>5 DEF StartPipe, Notify, StopPipe, epVars, thrVars
    <2>2. QED
      BY <2>1, LifeFrame
  <1>6. ASSUME NEW e \in Ep, EpStopped(e) PROVE Life!LifeNext
    BY <1>6, LifeDetaches DEF Life!LifeNext
  <1>7. CASE ProtocolStopped
    <2>1. state = "STOPPING"
      BY <1>7 DEF ProtocolStopped
    <2>2. QED
      BY <2>1 DEF DrainInv, PhaseInv, EfdInv
  <1>8. CASE StopBegin \/ CloserRele \/ AwaitTermsem \/ AwaitRelesem
    <2>1. /\ UNCHANGED <<pc, ep, eid, state>>
          /\ closer # "closed" /\ closer' # "closed"
      BY <1>8 DEF StopBegin, CloserRele, AwaitTermsem, AwaitRelesem, epVars
    <2>2. Phase' = Phase
      BY <2>1 DEF Phase
    <2>3. QED
      BY <2>1, <2>2, LifeFrame
  <1>9. CASE StopEp
    <2>1. /\ UNCHANGED <<pc, eid, state, closer>>
          /\ ep' = [ep EXCEPT ![cursor] = IF @ = "started" THEN "stopping" ELSE @]
      BY <1>9 DEF StopEp, sockVars, thrVars
    <2>2. Live' = Live
      BY <2>1 DEF Live, TypeOK
    <2>3. QED
      BY <2>1, <2>2, LifeStutter DEF Phase, Inside
  <1>10. CASE StopEnd
    BY <1>10, LifeShuts DEF Life!LifeNext
  <1>11. CASE TermFree
    BY <1>11, LifeCloses DEF Life!LifeNext
  <1>12. CASE Finished \/ UNCHANGED vars
    <2>1. UNCHANGED <<pc, ep, eid, state, closer>>
      BY <1>12 DEF Finished, vars, sockVars, epVars, thrVars
    <2>2. QED
      BY <2>1, LifeFrame
  <1>13. QED
    BY <1>1, <1>2, <1>3, <1>4, <1>5, <1>6, <1>7, <1>8, <1>9, <1>10, <1>11, <1>12
    DEF Next, Caller, Transport, Closer

(* The socket keeps the promise of SockLife about its life: newcomers only *)
(* while it is open, numbers given once, the protocol gone after the last  *)
(* endpoint, the socket freed after the last thread has left.              *)
THEOREM KeepsItsPromise == Orderly => (Spec => LifeSpec)
  <1> SUFFICES ASSUME Orderly PROVE Spec => LifeSpec
    OBVIOUS
  <1>1. Init => Life!LifeInit
    BY DEF Init, Life!LifeInit
  <1>2. TypeOK /\ EfdInv /\ HoldInv /\ DrainInv /\ DrainInv' /\ [Next]_vars
            => [Life!LifeNext]_(Life!lifeVars)
    BY LifeStep
  <1>3. QED
    BY <1>1, <1>2, TypeCorrect, EfdInvariant, HoldInvariant, DrainInvariant, PTL
    DEF Spec, LifeSpec, Life!LifeSpec
=============================================================================
