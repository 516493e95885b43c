------------------------------ MODULE SockLife ------------------------------
(***************************************************************************)
(* What core/sock.c promises about the life of a socket, without saying    *)
(* how: no mutex, lists, eventfds, semaphores or counters.                 *)
(*                                                                         *)
(*   - a thread may come in only while the socket is open;                 *)
(*   - endpoints get the numbers 1, 2, ..., each at most once, and only    *)
(*     while the socket is open;                                           *)
(*   - once closed to newcomers the socket drains; the protocol goes away  *)
(*     when the last endpoint has, and the socket itself only after every  *)
(*     thread that was inside has left.                                    *)
(***************************************************************************)
EXTENDS Integers

CONSTANTS Users, MaxEndpoint

VARIABLES
    phase,    \* "open", "draining", "drained", "closed"
    inside,   \* the threads using the socket
    live,     \* the endpoints it has
    next      \* the number the next endpoint gets

lifeVars == <<phase, inside, live, next>>

LifeInit ==
    /\ phase = "open"
    /\ inside = {}
    /\ live = {}
    /\ next = 1

Join(u) ==
    /\ phase = "open"
    /\ u \notin inside
    /\ inside' = inside \cup {u}
    /\ UNCHANGED <<phase, live, next>>

Part(u) ==
    /\ u \in inside
    /\ inside' = inside \ {u}
    /\ UNCHANGED <<phase, live, next>>

Attach ==
    /\ phase = "open"
    /\ inside # {}
    /\ next <= MaxEndpoint
    /\ live' = live \cup {next}
    /\ next' = next + 1
    /\ UNCHANGED <<phase, inside>>

(* Closing to newcomers, and an endpoint going: either may be the step     *)
(* that leaves nothing to drain.                                           *)
Drain(gone) ==
    /\ live' = live \ gone
    /\ phase' \in {"draining", "drained"}
    /\ phase' = "drained" => live' = {}

Shut ==
    /\ phase = "open"
    /\ Drain({})
    /\ UNCHANGED <<inside, next>>

Detach(e) ==
    /\ e \in live
    /\ \/ phase = "open" /\ live' = live \ {e} /\ UNCHANGED phase
       \/ phase = "draining" /\ Drain({e})
    /\ UNCHANGED <<inside, next>>

(* A protocol that has something of its own to stop finishes later. *)
ProtocolGone ==
    /\ phase = "draining"
    /\ live = {}
    /\ phase' = "drained"
    /\ UNCHANGED <<inside, live, next>>

Close ==
    /\ phase = "drained"
    /\ inside = {}
    /\ phase' = "closed"
    /\ UNCHANGED <<inside, live, next>>

LifeNext ==
    \/ \E u \in Users : Join(u) \/ Part(u)
    \/ Attach
    \/ Shut
    \/ \E e \in 1..MaxEndpoint : Detach(e)
    \/ ProtocolGone
    \/ Close

LifeSpec == LifeInit /\ [][LifeNext]_lifeVars
=============================================================================
