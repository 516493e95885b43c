------------------------------ MODULE PipeBase ------------------------------
(***************************************************************************)
(* core/pipe.c: struct nn_pipebase, the hinge between a protocol (above)   *)
(* and a transport connection (below).  An operator is the effect of one   *)
(* function on one record; the predicates named MaySend, MayReceived, ...  *)
(* are the function's nn_assert.  Raising NN_PIPE_IN / NN_PIPE_OUT is left *)
(* to the caller, who owns the context the event is queued on.             *)
(***************************************************************************)

PipeStates == {"IDLE", "ACTIVE", "FAILED"}
InStates   == {"DEACTIVATED", "IDLE", "RECEIVING", "RECEIVED", "ASYNC"}
OutStates  == {"DEACTIVATED", "IDLE", "SENDING", "SENT", "ASYNC"}

Pipes == [state : PipeStates, instate : InStates, outstate : OutStates]

(* nn_pipebase_init *)
PipeInit == [state |-> "IDLE", instate |-> "DEACTIVATED", outstate |-> "DEACTIVATED"]

(* nn_pipebase_start: added is what nn_sock_add answered. *)
PipeStart(p, added) ==
    [p EXCEPT !.state    = IF added THEN "ACTIVE" ELSE "FAILED",
              !.instate  = "ASYNC",
              !.outstate = "IDLE"]

(* nn_pipebase_stop *)
PipeStop(p) == [p EXCEPT !.state = "IDLE"]

(* nn_pipebase_received: inside nn_pipe_recv it only marks the call as     *)
(* finished; otherwise it raises NN_PIPE_IN.                               *)
MayReceived(p)  == p.instate \in {"RECEIVING", "ASYNC"}
PipeReceived(p) ==
    [p EXCEPT !.instate = IF p.instate = "RECEIVING" THEN "RECEIVED" ELSE "IDLE"]
RaisesIn(p)     == p.instate = "ASYNC"

(* nn_pipebase_sent *)
MaySent(p)  == p.outstate \in {"SENDING", "ASYNC"}
PipeSent(p) ==
    [p EXCEPT !.outstate = IF p.outstate = "SENDING" THEN "SENT" ELSE "IDLE"]
RaisesOut(p) == p.outstate = "ASYNC"

(* nn_pipe_send around the transport's send: sync says whether the         *)
(* transport called nn_pipebase_sent before returning.  When it did not,   *)
(* the caller is told NN_PIPEBASE_RELEASE and has to wait for NN_PIPE_OUT. *)
MaySend(p) == p.outstate = "IDLE"
PipeSend(p, sync) ==
    LET begun == [p EXCEPT !.outstate = "SENDING"]
        done  == IF sync THEN PipeSent(begun) ELSE begun
    IN  [done EXCEPT !.outstate = IF @ = "SENT" THEN "IDLE" ELSE "ASYNC"]

(* nn_pipe_recv around the transport's recv. *)
MayRecv(p) == p.instate = "IDLE"
PipeRecv(p, sync) ==
    LET begun == [p EXCEPT !.instate = "RECEIVING"]
        done  == IF sync THEN PipeReceived(begun) ELSE begun
    IN  [done EXCEPT !.instate = IF @ = "RECEIVED" THEN "IDLE" ELSE "ASYNC"]
=============================================================================
