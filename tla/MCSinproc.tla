----------------------------- MODULE MCSinproc -----------------------------
(* The constants of the runs of Sinproc. *)
EXTENDS Sinproc, TLC

CONSTANTS t1, t2

TwoThreads == {t1, t2}

(* One thread uses both sockets; each thread has its own; both use both. *)
OneThread    == {(t1 :> Side) @@ (t2 :> {})}
OnePerSocket == {(t1 :> {"conn"}) @@ (t2 :> {"acc"})}
AllUsers     == OneThread \cup OnePerSocket \cup {[t \in Threads |-> Side]}

(* nn_bind came before nn_connect, or after it. *)
BindFirst    == [s \in Side |-> IF s = "conn" THEN "cinproc" ELSE "binproc"]
ConnectFirst == [s \in Side |-> IF s = "conn" THEN "binproc" ELSE "cinproc"]

Never == {FALSE}
Maybe == {FALSE, TRUE}
=============================================================================
