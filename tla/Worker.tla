------------------------------- MODULE Worker -------------------------------
(***************************************************************************)
(* aio/worker_posix.inc, worker.c and pool.c: the one thread that waits    *)
(* for descriptors and timeouts and runs the tasks others queue for it;    *)
(* and aio/timer.c, the state machine that reaches the worker's timerset   *)
(* by a start task and a stop task.                                        *)
(*                                                                         *)
(* The worker takes a timeout, a task or an event first and then enters    *)
(* the context of its owner.  In between any user thread may act in that   *)
(* context, so taking (at, cur) and handling are separate actions; what is *)
(* done under a context's lock, or under the worker's own mutex, is one.   *)
(* A user thread carries nothing over between its calls and has no name.   *)
(*                                                                         *)
(* The owners of descriptors (usock, empty in the repository) are reduced  *)
(* to what they may do with the poll set, in the worker's thread: any      *)
(* operation on any handle, when a task of theirs runs or an event comes.  *)
(* Descriptors become ready as they like.                                  *)
(***************************************************************************)
EXTENDS Poller, Timerset, TLC

CONSTANTS
    Timer, Handle, Job,  \* nn_timer, nn_worker_fd and other nn_worker_task
    Delay,               \* timeouts given to nn_timer_start
    MaxTime,             \* bound: timers are started up to this time
    Budgets,             \* bound: how many starts of timers and of jobs there may
                         \* be, and whether descriptors are used
    None

Efd == "efd"             \* worker.efd_hndl

Task   == [kind : {"start", "stop"}, of : Timer] \cup [kind : {"job"}, of : Job]
Start(t) == [kind |-> "start", of |-> t]
StopT(t) == [kind |-> "stop", of |-> t]
JobOf(j) == [kind |-> "job", of |-> j]
StopItem == [kind |-> "end", of |-> None]
Event  == [h : Handle \cup {Efd}, ev : PollEvents]

(* What the thread has in hand shows what kind of thing it is. *)
ASSUME WorkerAssumption ==
    /\ Delay \subseteq Nat /\ MaxTime \in Nat
    /\ Budgets \subseteq [starts : Nat, jobs : Nat, fds : BOOLEAN]
    /\ Efd \notin Handle /\ IsFiniteSet(Handle)
    /\ Timer \cap (Task \cup Event) = {} /\ None \notin Timer \cup Task \cup Event

VARIABLES
    state, timeout,  \* [Timer -> ...]     nn_timer: state and fsm.state, timeout
    due, rung,       \* [Timer -> Nat]     when it may ring; how often it has since its start
    timers,          \* timerset
    tasks, efd,      \* worker.tasks, and whether its event descriptor is signaled
    todo,            \* the queue the worker's thread has taken
    poller,
    at, cur,         \* where the worker's thread is, and what it has taken
    now, fuel, ending,
    abort

timerVars == <<state, timeout, due, rung>>
vars == <<timerVars, timers, tasks, efd, todo, poller, at, cur, now, fuel, ending, abort>>

(* nn_timer_init *)
TimersInit ==
    /\ state = [t \in Timer |-> "IDLE"]
    /\ timeout = [t \in Timer |-> -1]
    /\ due = [t \in Timer |-> 0] /\ rung = [t \in Timer |-> 0]

Init ==
    /\ TimersInit
    /\ timers = <<>>
    /\ tasks = <<>> /\ efd = FALSE /\ todo = <<>>
    /\ poller = PollerSet(PollerAdd(NewPoller(Handle \cup {Efd}), Efd), Efd, "IN")
    /\ at = "wait" /\ cur = None
    /\ now = 0 /\ fuel \in Budgets /\ ending = FALSE
    /\ abort = {}
-----------------------------------------------------------------------------
Alive == abort = {}

Failed(line, ok) == IF ok THEN {} ELSE {line}

Queued(x)   == Contains(tasks, x) \/ Contains(todo, x)
Pending(x)  == Queued(x) \/ cur = x

(* nn_worker_execute *)
ExecuteQuietly(x) == tasks' = Append(tasks, x) /\ UNCHANGED efd
Execute(x) == tasks' = Append(tasks, x) /\ efd' = TRUE
CanPush(x) == Failed("queue.c:23", ~Queued(x))

(* Nobody uses the worker once nn_worker_term has been called. *)
InUseForEver == TRUE
InUse        == ~ending

Call == Alive /\ InUse /\ UNCHANGED <<poller, at, cur, todo, timers, now>>

(* nn_timer_start by the owner of an idle timer, and nn_timer_handler. *)
Activate(t) ==
    /\ state' = [state EXCEPT ![t] = "ACTIVE"]
    /\ Execute(Start(t))
    /\ abort' = CanPush(Start(t))

StartTimer(t, d) ==
    /\ Call /\ fuel.starts > 0 /\ fuel' = [fuel EXCEPT !.starts = @ - 1]
    /\ state[t] = "IDLE" /\ now <= MaxTime
    /\ timeout' = [timeout EXCEPT ![t] = d]
    /\ due' = [due EXCEPT ![t] = now + d]
    /\ Activate(t)
    /\ UNCHANGED <<rung, ending>>

(* nn_timer_stop; nn_fsm_stop does nothing when it was called before. *)
DoneAtOnce(t)   == "IDLE"
ToBeStopped(t)  == "STOPPING"

StopTimer(t) ==
    /\ Call
    /\ state[t] = "ACTIVE"
    /\ state' = [state EXCEPT ![t] = ToBeStopped(t)]
    /\ due' = [due EXCEPT ![t] = 0] /\ rung' = [rung EXCEPT ![t] = 0]
    /\ Execute(StopT(t))
    /\ abort' = CanPush(StopT(t))
    /\ UNCHANGED <<timeout, fuel, ending>>

(* nn_worker_execute of a task that is in no queue (the worker may be      *)
(* running it), and nn_worker_cancel, which finds the task only while the  *)
(* worker has not taken the queue.                                         *)
ExecuteJob(j) ==
    /\ Call /\ fuel.jobs > 0 /\ fuel' = [fuel EXCEPT !.jobs = @ - 1]
    /\ ~Queued(JobOf(j))
    /\ Execute(JobOf(j))
    /\ UNCHANGED <<timerVars, ending, abort>>

QueueRemove(queue, x) == RemoveFirst(queue, x)

Cancel(j) ==
    /\ Call
    /\ Queued(JobOf(j))
    /\ tasks' = QueueRemove(tasks, JobOf(j))
    /\ UNCHANGED <<timerVars, efd, fuel, ending, abort>>

(* nn_worker_term, once everything that uses the worker has stopped. *)
Terminate ==
    /\ Call
    /\ \A t \in Timer : state[t] = "IDLE"
    /\ \A j \in Job : ~Pending(JobOf(j))
    /\ Execute(StopItem)
    /\ ending' = TRUE
    /\ UNCHANGED <<timerVars, fuel, abort>>

(* The clock; it may go on as long as something waits for it. *)
Tick ==
    /\ Alive
    /\ now < MaxTime \/ (timers # <<>> /\ ~TimersetDue(timers, now))
    /\ now' = now + 1
    /\ UNCHANGED <<timerVars, timers, tasks, efd, todo, poller, at, cur, fuel, ending, abort>>
-----------------------------------------------------------------------------
(* The worker's thread. *)
Goes(from, to) == Alive /\ at = from /\ at' = to

Outside == UNCHANGED <<now, fuel, ending>>

(* Line 144: a batch of events, or none because a timeout is due. *)
Ready ==
    {f \in [poller.reg -> SUBSET PollEvents] :
        /\ f[Efd] = IF efd THEN {"IN"} ELSE {}
        /\ \A h \in poller.reg \ {Efd} : f[h] \subseteq poller.want[h] \cup {"ERR"}}

Wait ==
    /\ Goes("wait", "timers")
    /\ \E r \in Ready : \E batch \in Batches(poller, r) :
          /\ batch # <<>> \/ TimersetDue(timers, now)
          /\ poller' = PollerFetched(poller, batch)
    /\ UNCHANGED <<timerVars, timers, tasks, efd, todo, cur, abort>> /\ Outside

(* Lines 149-154, and 155-157. *)
TakeTimeout ==
    /\ Goes("timers", "fire")
    /\ TimersetDue(timers, now)
    /\ cur' = Head(timers).timer
    /\ timers' = Tail(timers)
    /\ UNCHANGED <<timerVars, tasks, efd, todo, poller, abort>> /\ Outside

NoTimeout ==
    /\ Goes("timers", "events")
    /\ ~TimersetDue(timers, now)
    /\ UNCHANGED <<timerVars, timers, tasks, efd, todo, poller, cur, abort>> /\ Outside

(* timer.c:76-78 in STOPPING, 129-133 in ACTIVE. *)
DropNone(t) == FALSE
DropLate(t) == state[t] = "STOPPING"

Fire ==
    /\ Goes("fire", "timers")
    /\ cur' = None
    /\ IF DropLate(cur)
       THEN UNCHANGED <<rung, abort>>
       ELSE /\ rung' = [rung EXCEPT ![cur] = @ + 1]
            /\ abort' = Failed("timer.c:131", state[cur] = "ACTIVE" => timeout[cur] = -1)
                        \cup Failed("timer.c:114", state[cur] = "ACTIVE")
    /\ UNCHANGED <<state, timeout, due, timers, tasks, efd, todo, poller>> /\ Outside

(* Lines 161-173. *)
TakeEvent ==
    /\ Goes("events", "fd")
    /\ ~PollerEmpty(poller) /\ PollerEvent(poller).h # Efd
    /\ cur' = PollerEvent(poller)
    /\ poller' = PollerTaken(poller)
    /\ UNCHANGED <<timerVars, timers, tasks, efd, todo, abort>> /\ Outside

TakeTasks ==
    /\ Goes("events", "tasks")
    /\ ~PollerEmpty(poller) /\ PollerEvent(poller).h = Efd
    /\ poller' = PollerTaken(poller)
    /\ efd' = FALSE
    /\ todo' = tasks /\ tasks' = <<>>
    /\ abort' = Failed("worker_posix.inc:167", PollerEvent(poller).ev = "IN")
    /\ UNCHANGED <<timerVars, timers, cur>> /\ Outside

NoEvent ==
    /\ Goes("events", "wait")
    /\ PollerEmpty(poller)
    /\ poller' = PollerDone(poller)
    /\ UNCHANGED <<timerVars, timers, tasks, efd, todo, cur, abort>> /\ Outside

(* Lines 174-186 and 194: the next task; behind the stop item they are     *)
(* thrown away.                                                            *)
TakeTask ==
    /\ Goes("tasks", "run")
    /\ todo # <<>> /\ Head(todo) # StopItem
    /\ cur' = Head(todo) /\ todo' = Tail(todo)
    /\ UNCHANGED <<timerVars, timers, tasks, efd, poller, abort>> /\ Outside

NoTask ==
    /\ Goes("tasks", "events")
    /\ todo = <<>>
    /\ UNCHANGED <<timerVars, timers, tasks, efd, todo, poller, cur, abort>> /\ Outside

End ==
    /\ Goes("tasks", "ended")
    /\ todo # <<>> /\ Head(todo) = StopItem
    /\ todo' = <<>>
    /\ UNCHANGED <<timerVars, timers, tasks, efd, poller, cur, abort>> /\ Outside

(* timer.c:121-127 *)
Relative(t)   == timeout[t]
AfterReset(t) == now - 1
Until(t)      == now + timeout[t]

RunStart ==
    /\ Goes("run", "tasks") /\ cur' = None
    /\ cur.kind = "start"
    /\ LET t == cur.of
       IN  IF state[t] = "STOPPING"
           THEN UNCHANGED <<timeout, timers, abort>>
           ELSE /\ timers' = TimersetAdd(timers, t, Until(t))
                /\ timeout' = [timeout EXCEPT ![t] = -1]
                /\ abort' = Failed("timer.c:114", state[t] = "ACTIVE") \cup
                            Failed("timer.c:123", timeout[t] >= 0)
    /\ UNCHANGED <<state, due, rung, tasks, efd, todo, poller>> /\ Outside

(* timer.c:76-84 *)
NotRemoved(t) == timers
Removed(t)    == TimersetRm(timers, t)

RunStop ==
    /\ Goes("run", "tasks") /\ cur' = None
    /\ cur.kind = "stop"
    /\ timers' = Removed(cur.of)
    /\ state' = [state EXCEPT ![cur.of] = "IDLE"]
    /\ abort' = Failed("timer.c:138", state[cur.of] = "STOPPING")
    /\ UNCHANGED <<timeout, due, rung, tasks, efd, todo, poller>> /\ Outside

(* What a handler may do to the poll set. *)
PollerOps ==
    {poller} \cup
    {PollerAdd(poller, h) : h \in Handle \ poller.reg} \cup
    UNION {{PollerRm(poller, h)} \cup {PollerSet(poller, h, e) : e \in {"IN", "OUT"}}
                                 \cup {PollerReset(poller, h, e) : e \in {"IN", "OUT"}} :
           h \in Handle \cap poller.reg}

Handled == poller' \in IF fuel.fds THEN PollerOps ELSE {poller}

RunJob ==
    /\ Goes("run", "tasks") /\ cur' = None
    /\ cur.kind = "job"
    /\ Handled
    /\ UNCHANGED <<timerVars, timers, tasks, efd, todo, abort>> /\ Outside

(* Lines 197-200. *)
HandleFd ==
    /\ Goes("fd", "events") /\ cur' = None
    /\ Handled
    /\ UNCHANGED <<timerVars, timers, tasks, efd, todo, abort>> /\ Outside

Idle == at \in {"wait", "ended"} /\ UNCHANGED vars
-----------------------------------------------------------------------------
Routine ==
    \/ Wait \/ TakeTimeout \/ NoTimeout \/ Fire
    \/ TakeEvent \/ TakeTasks \/ NoEvent \/ HandleFd
    \/ TakeTask \/ NoTask \/ End \/ RunStart \/ RunStop \/ RunJob

Next ==
    \/ \E t \in Timer : StopTimer(t) \/ \E d \in Delay : StartTimer(t, d)
    \/ \E j \in Job : ExecuteJob(j) \/ Cancel(j)
    \/ Terminate \/ Tick \/ Routine \/ Idle

Spec == Init /\ [][Next]_vars

(* The worker's thread runs and the clock goes on. *)
FairSpec == Spec /\ WF_vars(Routine) /\ WF_vars(Tick)
-----------------------------------------------------------------------------
TypeOK ==
    /\ state \in [Timer -> {"IDLE", "ACTIVE", "STOPPING"}]
    /\ timeout \in [Timer -> Delay \cup {-1}]
    /\ due \in [Timer -> Nat] /\ rung \in [Timer -> Nat]
    /\ timers \in Seq([timer : Timer, at : Nat])
    /\ tasks \in Seq(Task \cup {StopItem}) /\ todo \in Seq(Task \cup {StopItem})
    /\ efd \in BOOLEAN /\ now \in Nat /\ fuel \in [starts : Nat, jobs : Nat, fds : BOOLEAN] /\ ending \in BOOLEAN
    /\ poller.reg \subseteq Handle \cup {Efd}
    /\ at \in {"wait", "timers", "fire", "events", "fd", "tasks", "run", "ended"}

(* No assertion and no bad source of timer.c, queue.c and worker_posix.inc *)
(* is met, in whatever order timeouts and the tasks of timers arrive.      *)
NoAssertionFails == Alive

(* A timer that has stopped may be freed: the worker has neither it nor a  *)
(* task of it in any list or in hand.  And when the worker ends there is   *)
(* nothing left that it threw away.                                        *)
StoppedTimerIsFree ==
    /\ \A t \in Timer : state[t] = "IDLE" =>
          /\ ~TimersetHas(timers, t) /\ cur # t
          /\ ~Pending(Start(t)) /\ ~Pending(StopT(t))
    /\ at = "ended" => tasks = <<>> /\ todo = <<>> /\ timers = <<>>

(* The owner of a descriptor gets an event only while the descriptor is in *)
(* the poll set and the event still wanted, whatever handlers did to the   *)
(* poll set since the batch was fetched.                                   *)
EventsWanted ==
    at = "fd" => /\ cur.h \in poller.reg
                 /\ cur.ev \in poller.want[cur.h] \cup {"ERR"}

(* A timer rings at most once, in time, and not after it was stopped.      *)
Status(t) ==
    CASE state[t] = "ACTIVE" /\ rung[t] = 0 -> "armed"
      [] state[t] = "ACTIVE" /\ rung[t] = 1 -> "rung"
      [] state[t] = "ACTIVE" /\ rung[t] > 1 -> "twice"
      [] state[t] = "STOPPING" -> "stopping"
      [] OTHER -> "idle"

AlarmOf == INSTANCE Alarm WITH st <- [t \in Timer |-> Status(t)], time <- now

RingsAsPromised == AlarmOf!AlarmSpec

(* A timer that is not stopped rings; a stop completes; the worker ends.   *)
EverythingServed ==
    /\ \A t \in Timer : state[t] = "ACTIVE" /\ rung[t] = 0 ~> rung[t] > 0 \/ state[t] # "ACTIVE"
    /\ \A t \in Timer : state[t] = "STOPPING" ~> state[t] = "IDLE"
    /\ ending ~> at = "ended"
=============================================================================
