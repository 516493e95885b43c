------------------------------ MODULE MsgValue ------------------------------
(***************************************************************************)
(* What utils/msg.h promises: a message is a value, three sequences of     *)
(* bytes.  Copies are independent, a moved message is gone from where it   *)
(* was, and what is taken out of a message leaves it.  Nothing is said of  *)
(* chunks, references or where the bytes are.                              *)
(***************************************************************************)
EXTENDS Integers, Sequences

CONSTANTS Holder, Part, Nothing

VARIABLES
    val,    \* [Holder -> [Part -> Seq(byte)] \cup {Nothing}]
    loose   \* the bytes of the chunk that is outside of messages

valueVars == <<val, loose>>

ValueInit == val = [m \in Holder |-> Nothing] /\ loose = Nothing

Is(m)    == val[m] # Nothing
Alone(v) == [[p \in Part |-> <<>>] EXCEPT !["body"] = v]

Write(m) ==
    /\ ~Is(m)
    /\ val'[m] # Nothing /\ val' = [val EXCEPT ![m] = val'[m]]
    /\ UNCHANGED loose

Forget(m) == Is(m) /\ val' = [val EXCEPT ![m] = Nothing] /\ UNCHANGED loose

Copy(m, d) == Is(m) /\ ~Is(d) /\ val' = [val EXCEPT ![d] = val[m]] /\ UNCHANGED loose

Move(m, d) ==
    /\ Is(m) /\ ~Is(d)
    /\ val' = [val EXCEPT ![d] = val[m], ![m] = Nothing]
    /\ UNCHANGED loose

Shorten(m, p) ==
    /\ Is(m)
    /\ \E n \in 1..Len(val[m][p]) :
          val' = [val EXCEPT ![m][p] = SubSeq(@, n + 1, Len(@))]
    /\ UNCHANGED loose

Join(m) ==
    /\ Is(m)
    /\ val' = [val EXCEPT ![m] = Alone(@.sphdr \o @.body)]
    /\ UNCHANGED loose

Take(m) ==
    /\ Is(m) /\ loose = Nothing
    /\ loose' = val[m].body /\ val' = [val EXCEPT ![m].body = <<>>]

Put(m) ==
    /\ loose # Nothing /\ loose' = Nothing
    /\ \/ ~Is(m) /\ val' = [val EXCEPT ![m] = Alone(loose)]
       \/ Is(m) /\ val' = [val EXCEPT ![m].body = loose]

(* The bytes that stay are kept, those that come are arbitrary. *)
Resize ==
    /\ loose # Nothing /\ loose' # Nothing
    /\ \A i \in DOMAIN loose \cap DOMAIN loose' : loose'[i] = loose[i]
    /\ UNCHANGED val

Release == loose # Nothing /\ loose' = Nothing /\ UNCHANGED val

ValueNext ==
    \/ \E m \in Holder :
          \/ Write(m) \/ Forget(m) \/ Join(m) \/ Take(m) \/ Put(m)
          \/ \E d \in Holder : Copy(m, d) \/ Move(m, d)
          \/ \E p \in Part : Shorten(m, p)
    \/ Resize \/ Release

ValueSpec == ValueInit /\ [][ValueNext]_valueVars
=============================================================================
