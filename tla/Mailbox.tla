------------------------------ MODULE Mailbox ------------------------------
(***************************************************************************)
(* What aio/ctx.c promises to the state machines above it: an event that   *)
(* was raised is handled once, by a thread that has the event's context to *)
(* itself and no other context with it.  The order in which events are     *)
(* handled is not promised.                                                *)
(***************************************************************************)
CONSTANTS Thread, Context, Event, None

VARIABLES
    owner,   \* [Context -> Thread \cup {None}]
    due      \* [Event -> Context \cup {None}]  where a raised event is due

mailVars == <<owner, due>>

MailInit ==
    /\ owner = [c \in Context |-> None]
    /\ due = [e \in Event |-> None]

Owns(t, c) == owner[c] = t

Occupy(t, c) ==
    /\ owner[c] = None
    /\ \A d \in Context : ~Owns(t, d)
    /\ owner' = [owner EXCEPT ![c] = t]

Vacate(t, c) ==
    /\ Owns(t, c)
    /\ owner' = [owner EXCEPT ![c] = None]
    /\ UNCHANGED due

Call(t, c) == Occupy(t, c) /\ UNCHANGED due

RaiseEvent(t, e, c) ==
    /\ \E d \in Context : Owns(t, d)
    /\ due[e] = None
    /\ due' = [due EXCEPT ![e] = c]
    /\ UNCHANGED owner

HandleInside(t, e) ==
    /\ due[e] # None
    /\ Owns(t, due[e])
    /\ due' = [due EXCEPT ![e] = None]
    /\ UNCHANGED owner

HandleRemote(t, e) ==
    /\ due[e] # None
    /\ Occupy(t, due[e])
    /\ due' = [due EXCEPT ![e] = None]

MailNext ==
    \/ \E t \in Thread, c \in Context : Call(t, c) \/ Vacate(t, c)
    \/ \E t \in Thread, e \in Event, c \in Context : RaiseEvent(t, e, c)
    \/ \E t \in Thread, e \in Event : HandleInside(t, e) \/ HandleRemote(t, e)

MailSpec == MailInit /\ [][MailNext]_mailVars
=============================================================================
