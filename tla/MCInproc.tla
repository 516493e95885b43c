------------------------------ MODULE MCInproc ------------------------------
(* The constants of the runs of Inproc: two endpoints to be bound and two   *)
(* to be connected, all of one address; b2 and c2 belong to one socket,     *)
(* which is or is not a peer of the other ones.                             *)
EXTENDS Inproc, TLC

CONSTANTS t1, t2, b1, b2, c1, c2

TwoThreads == {t1, t2}
OneOrBoth  == {{t1}, {t1, t2}}
Binders    == {b1, b2}
Connectors == {c1, c2}

EpSocket  == (b1 :> "s1") @@ (b2 :> "s2") @@ (c1 :> "s3") @@ (c2 :> "s2")
EpAddr    == (b1 :> "a") @@ (b2 :> "a") @@ (c1 :> "a") @@ (c2 :> "a")
AllPair   == ("s1" :> "pair") @@ ("s2" :> "pair") @@ ("s3" :> "pair")
PairOrBus == {AllPair, [AllPair EXCEPT !["s2"] = "bus"]}

AsMeantAndAsWritten == {{}} \cup {{s} : s \in Slip}
=============================================================================
