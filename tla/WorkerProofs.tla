---------------------------- MODULE WorkerProofs ----------------------------
(***************************************************************************)
(* Proofs about aio/worker_posix.inc and aio/timer.c (module Worker), for  *)
(* any timers, handles, tasks, timeouts and numbers of calls.              *)
(***************************************************************************)
EXTENDS Worker, SeqLemmas, FiniteSetTheorems

(* What the worker's thread has in hand is what the place it is at takes;  *)
(* a queue it took is worked off before it goes on.                        *)
HandInv ==
    /\ at = "fire" => cur \in Timer
    /\ at = "run" => cur \in Task
    /\ at = "fd" => cur \in Event /\ cur.h # Efd
    /\ at \notin {"fire", "run", "fd"} => cur = None
    /\ todo # <<>> => at \in {"tasks", "run"}

(* Each task is at most once on its way, and the stop task of a timer never *)
(* in front of its start task.                                              *)
OnceIn(q) == \A i, k \in 1..Len(q) : q[i] = q[k] => i = k

(* A stop task of a timer comes after its start task.                      *)
InOrder(q) == \A t \in Timer : \A i, k \in 1..Len(q) : q[i] = StopT(t) /\ q[k] = Start(t) => k < i

(* A task is in at most one place: in the shared queue, in the copy the    *)
(* worker runs through, or in its hands (but a job may be queued while it  *)
(* is run); and the start and stop of a timer are run in the order they    *)
(* were posted.                                                            *)
TasksInv ==
    /\ OnceIn(tasks) /\ OnceIn(todo)
    /\ \A x \in Task \cup {StopItem} : ~(Contains(todo, x) /\ Contains(tasks, x))
    /\ InOrder(tasks) /\ InOrder(todo)
    /\ \A t \in Timer :
          /\ Contains(todo, StopT(t)) => ~Contains(tasks, Start(t))
          /\ cur = Start(t) => ~Queued(Start(t))
          /\ cur = StopT(t) => ~Queued(StopT(t)) /\ ~Queued(Start(t))

(* A timer is in one place at a time: its start task is on its way, or it  *)
(* is in the timerset, or rung; none of it is left once it is idle.        *)
TimerInv(t) ==
    /\ state[t] = "IDLE" =>
          /\ rung[t] = 0
          /\ ~TimersetHas(timers, t) /\ cur # t
          /\ ~Pending(Start(t)) /\ ~Pending(StopT(t))
    /\ state[t] = "STOPPING" => rung[t] = 0 /\ Pending(StopT(t))
    /\ state[t] = "ACTIVE" =>
          /\ ~Pending(StopT(t))
          /\ IF Pending(Start(t)) THEN timeout[t] >= 0 /\ now + timeout[t] >= due[t]
                                  ELSE timeout[t] = -1
          /\ Pending(Start(t)) \/ TimersetHas(timers, t) \/ cur = t => rung[t] = 0
          /\ rung[t] \in {0, 1}
          /\ \A i \in 1..Len(timers) : timers[i].timer = t => timers[i].at >= due[t]
          /\ cur = t => now >= due[t]
    /\ Pending(Start(t)) => ~TimersetHas(timers, t) /\ cur # t
    /\ cur = t => ~TimersetHas(timers, t)

(* A timer is in the timer set at most once, and where it is fits its      *)
(* state.                                                                  *)
TimersInv ==
    /\ \A i, k \in 1..Len(timers) : timers[i].timer = timers[k].timer => i = k
    /\ \A t \in Timer : TimerInv(t)

(* The batch holds nothing that is not wanted, and of the worker's own     *)
(* descriptor only that it can be read.                                    *)
PollerInv ==
    /\ poller \in [reg : SUBSET (Handle \cup {Efd}),
                   want : [Handle \cup {Efd} -> SUBSET PollEvents],
                   batch : Seq([h : Handle \cup {Efd}, ev : SUBSET PollEvents])]
    /\ Efd \in poller.reg
    /\ \A i \in 1..Len(poller.batch) : poller.batch[i].ev # {} =>
          /\ poller.batch[i].h \in poller.reg
          /\ IF poller.batch[i].h = Efd
             THEN poller.batch[i].ev = {"IN"}
             ELSE poller.batch[i].ev \subseteq poller.want[poller.batch[i].h] \cup {"ERR"}

(* Nothing but the stop item comes behind nn_worker_term, and that once.   *)
EndInv ==
    /\ IF ending THEN /\ \A t \in Timer : state[t] = "IDLE"
                      /\ \A x \in Task : ~Pending(x)
                      /\ at = "ended" => ~Queued(StopItem)
                 ELSE ~Queued(StopItem) /\ at # "ended"

(* The inductive invariant.                                                *)
IInv ==
    /\ TypeOK /\ Alive /\ EventsWanted
    /\ HandInv /\ TasksInv /\ TimersInv /\ PollerInv /\ EndInv
-----------------------------------------------------------------------------
(* What a queue of tasks can hold.                                         *)
Item == Task \cup {StopItem}

(* Tasks are told apart by what they are of and by what they do.           *)
LEMMA TaskFacts ==
    /\ StopItem \notin Task
    /\ \A t \in Timer : Start(t) \in Task /\ StopT(t) \in Task
    /\ \A j \in Job : JobOf(j) \in Task
    /\ \A t, u \in Timer : Start(t) # StopT(u)
    /\ \A t, u \in Timer : Start(t) = Start(u) => t = u
    /\ \A t, u \in Timer : StopT(t) = StopT(u) => t = u
    /\ \A t \in Timer, j \in Job : JobOf(j) # Start(t) /\ JobOf(j) # StopT(t)
    /\ \A x \in Task : \/ \E t \in Timer : x = Start(t) \/ x = StopT(t)
                       \/ \E j \in Job : x = JobOf(j)
<1>1. StopItem \notin Task
  BY DEF StopItem, Task
<1>2. \A t \in Timer : Start(t) \in Task /\ StopT(t) \in Task
  BY DEF Task, Start, StopT
<1>3. \A j \in Job : JobOf(j) \in Task
  BY DEF Task, JobOf
<1>4. \A t, u \in Timer : Start(t) # StopT(u)
  BY DEF Start, StopT
<1>5. \A t, u \in Timer : Start(t) = Start(u) => t = u
  BY DEF Start
<1>6. \A t, u \in Timer : StopT(t) = StopT(u) => t = u
  BY DEF StopT
<1>7. \A t \in Timer, j \in Job : JobOf(j) # Start(t) /\ JobOf(j) # StopT(t)
  BY DEF Start, StopT, JobOf
<1>8. \A x \in Task : \/ \E t \in Timer : x = Start(t) \/ x = StopT(t)
                      \/ \E j \in Job : x = JobOf(j)
  BY DEF Task, Start, StopT, JobOf
<1> QED
  BY <1>1, <1>2, <1>3, <1>4, <1>5, <1>6, <1>7, <1>8

(* Of the queues: a task that is not on its way may be pushed, a start task *)
(* if the stop task of its timer is not on its way either (queue.c:21-34). *)
LEMMA PushQueue ==
    ASSUME NEW q \in Seq(Item), OnceIn(q), InOrder(q), NEW x \in Item, ~Contains(q, x),
           \A t \in Timer : x = Start(t) => ~Contains(q, StopT(t))
    PROVE  /\ Append(q, x) \in Seq(Item)
           /\ OnceIn(Append(q, x)) /\ InOrder(Append(q, x))
           /\ \A y : Contains(Append(q, x), y) <=> Contains(q, y) \/ y = x
<1> DEFINE r == Append(q, x)
<1>1. /\ r \in Seq(Item) /\ Len(r) = Len(q) + 1
      /\ \A i \in 1..Len(q) : r[i] = q[i]
      /\ r[Len(q) + 1] = x
  BY AppendFacts
<1>2. \A i \in 1..Len(r) : IF i = Len(q) + 1 THEN r[i] = x ELSE i \in 1..Len(q) /\ r[i] = q[i]
  BY <1>1
<1> HIDE DEF r
<1>3. OnceIn(r)
  BY <1>1, <1>2 DEF OnceIn, Contains
<1>4. InOrder(r)
  <2> SUFFICES ASSUME NEW t \in Timer, NEW i \in 1..Len(r), NEW k \in 1..Len(r),
                      r[i] = StopT(t), r[k] = Start(t)
               PROVE  k < i
    BY DEF InOrder
  <2>1. StopT(t) # Start(t)
    BY TaskFacts
  <2>2. CASE k = Len(q) + 1
    BY <1>1, <1>2, <2>1, <2>2 DEF Contains
  <2>3. CASE k # Len(q) + 1
    BY <1>1, <1>2, <2>3 DEF InOrder
  <2> QED
    BY <2>2, <2>3
<1>5. ASSUME NEW y PROVE Contains(r, y) <=> Contains(q, y) \/ y = x
  BY <1>1, <1>2 DEF Contains
<1> QED
  BY <1>1, <1>3, <1>4, <1>5 DEF r

(* The first task is taken (queue.c:65-79).                                *)
LEMMA PopQueue ==
    ASSUME NEW q \in Seq(Item), OnceIn(q), InOrder(q), q # <<>>
    PROVE  /\ Head(q) \in Item /\ Contains(q, Head(q))
           /\ Tail(q) \in Seq(Item)
           /\ OnceIn(Tail(q)) /\ InOrder(Tail(q))
           /\ \A y : Contains(Tail(q), y) <=> Contains(q, y) /\ y # Head(q)
           /\ \A t \in Timer : Head(q) = StopT(t) => ~Contains(q, Start(t))
<1> DEFINE r == Tail(q)
<1>1. /\ Head(q) \in Item /\ Head(q) = q[1] /\ Len(q) >= 1 /\ Len(q) \in Nat
      /\ r \in Seq(Item) /\ Len(r) = Len(q) - 1
      /\ \A i \in 1..Len(q) - 1 : r[i] = q[i + 1]
  BY TailFacts
<1> HIDE DEF r
<1>2. OnceIn(r)
  BY <1>1 DEF OnceIn
<1>3. InOrder(r)
  <2> SUFFICES ASSUME NEW t \in Timer, NEW i \in 1..Len(r), NEW k \in 1..Len(r),
                      r[i] = StopT(t), r[k] = Start(t)
               PROVE  k < i
    BY DEF InOrder
  <2>1. q[i + 1] = StopT(t) /\ q[k + 1] = Start(t) /\ i + 1 \in 1..Len(q) /\ k + 1 \in 1..Len(q)
    BY <1>1
  <2>2. k + 1 < i + 1
    BY <2>1 DEF InOrder
  <2> QED
    BY <2>2
<1>4. ASSUME NEW y PROVE Contains(r, y) <=> Contains(q, y) /\ y # Head(q)
  <2>1. ASSUME Contains(r, y) PROVE Contains(q, y) /\ y # Head(q)
    <3>1. PICK i \in 1..Len(r) : r[i] = y
      BY <2>1 DEF Contains
    <3>2. i + 1 \in 1..Len(q) /\ q[i + 1] = y /\ 1 \in 1..Len(q) /\ i + 1 # 1
      BY <1>1, <3>1
    <3> QED
      BY <1>1, <3>2 DEF Contains, OnceIn
  <2>2. ASSUME Contains(q, y), y # Head(q) PROVE Contains(r, y)
    <3>1. PICK i \in 1..Len(q) : q[i] = y
      BY <2>2 DEF Contains
    <3>2. i - 1 \in 1..Len(r) /\ r[i - 1] = q[(i - 1) + 1] /\ (i - 1) + 1 = i
      BY <1>1, <2>2, <3>1
    <3> QED
      BY <3>1, <3>2 DEF Contains
  <2> QED
    BY <2>1, <2>2
<1>5. ASSUME NEW t \in Timer, Head(q) = StopT(t), Contains(q, Start(t)) PROVE FALSE
  <2>1. PICK k \in 1..Len(q) : q[k] = Start(t)
    BY <1>5 DEF Contains
  <2>2. 1 \in 1..Len(q) /\ q[1] = StopT(t)
    BY <1>1, <1>5
  <2> QED
    BY <2>1, <2>2 DEF InOrder
<1>6. Contains(q, Head(q))
  BY <1>1 DEF Contains
<1> QED
  BY <1>1, <1>2, <1>3, <1>4, <1>5, <1>6 DEF r

(* A task is taken out from wherever it is (queue.c:36-63).                *)
LEMMA RemoveQueue ==
    ASSUME NEW q \in Seq(Item), OnceIn(q), InOrder(q), NEW x
    PROVE  /\ QueueRemove(q, x) \in Seq(Item)
           /\ OnceIn(QueueRemove(q, x)) /\ InOrder(QueueRemove(q, x))
           /\ \A y : Contains(QueueRemove(q, x), y) <=> Contains(q, y) /\ y # x
<1>1. CASE ~Contains(q, x)
  <2>1. QueueRemove(q, x) = q
    BY <1>1 DEF QueueRemove, RemoveFirst, Contains
  <2> QED
    BY <1>1, <2>1
<1>2. CASE Contains(q, x)
  <2>1. PICK p \in 1..Len(q) : q[p] = x /\ RemoveFirst(q, x) = RemoveAt(q, p)
    BY <1>2, RemoveFirstFacts
  <2> DEFINE r == RemoveAt(q, p)
             g(i) == IF i < p THEN i ELSE i + 1
  <2>2. r \in Seq(Item) /\ Len(r) = Len(q) - 1
        /\ \A i \in 1..Len(q) - 1 : r[i] = IF i < p THEN q[i] ELSE q[i + 1]
    BY RemoveAtFacts
  <2> HIDE DEF r
  <2>3. \A i \in 1..Len(r) : g(i) \in 1..Len(q) /\ g(i) # p /\ r[i] = q[g(i)]
    BY <2>2
  <2>4. \A i, k \in 1..Len(r) : (g(i) = g(k) => i = k) /\ (g(k) < g(i) => k < i)
    BY <2>2
  <2>5. OnceIn(r)
    BY <2>3, <2>4 DEF OnceIn
  <2>6. InOrder(r)
    <3> SUFFICES ASSUME NEW t \in Timer, NEW i \in 1..Len(r), NEW k \in 1..Len(r),
                        r[i] = StopT(t), r[k] = Start(t)
                 PROVE  k < i
      BY DEF InOrder
    <3>1. g(k) < g(i)
      BY <2>3 DEF InOrder
    <3> QED
      BY <2>4, <3>1
  <2>7. ASSUME NEW y PROVE Contains(r, y) <=> Contains(q, y) /\ y # x
    <3>1. ASSUME Contains(r, y) PROVE Contains(q, y) /\ y # x
      BY <2>1, <2>3, <3>1 DEF Contains, OnceIn
    <3>2. ASSUME Contains(q, y), y # x PROVE Contains(r, y)
      <4>1. PICK i \in 1..Len(q) : q[i] = y
        BY <3>2 DEF Contains
      <4>2. i # p
        BY <2>1, <3>2, <4>1
      <4>3. CASE i < p
        BY <2>2, <4>1, <4>3 DEF Contains
      <4>4. CASE i > p
        <5>1. i - 1 \in 1..Len(r) /\ r[i - 1] = q[(i - 1) + 1] /\ (i - 1) + 1 = i
          BY <2>2, <4>4
        <5> QED
          BY <4>1, <5>1 DEF Contains
      <4> QED
        BY <4>2, <4>3, <4>4
    <3> QED
      BY <3>1, <3>2
  <2> QED
    BY <2>1, <2>2, <2>5, <2>6, <2>7 DEF r, QueueRemove
<1> QED
  BY <1>1, <1>2
-----------------------------------------------------------------------------
(* The entries of a timer set.                                             *)
Entry == [timer : Timer, at : Nat]

(* A timer has one entry.                                                  *)
OneEach(set) == \A i, k \in 1..Len(set) : set[i].timer = set[k].timer => i = k

(* There is a place for every timeout (timerset.c:29-36).                  *)
LEMMA PlaceExists ==
    ASSUME NEW set \in Seq(Entry), NEW when \in Nat
    PROVE  Place(set, when) \in 1..Len(set) + 1
<1> DEFINE T == {i \in 1..Len(set) + 1 : i = Len(set) + 1 \/ when < set[i].at}
<1>1. Len(set) + 1 \in T /\ T \in SUBSET Nat
  OBVIOUS
<1>2. PICK i \in T : \A j \in T : i <= j
  BY <1>1, LeastNumber
<1>3. \A j \in 1..i - 1 : when >= set[j].at
  <2> SUFFICES ASSUME NEW j \in 1..i - 1 PROVE when >= set[j].at
    OBVIOUS
  <2>1. j \in 1..Len(set) /\ j \notin T
    BY <1>2
  <2>2. set[j] \in Entry
    BY <2>1
  <2>3. set[j].at \in Nat
    BY <2>2 DEF Entry
  <2> QED
    BY <2>1, <2>3
<1> QED
  BY <1>2, <1>3 DEF Place

(* A timer that has no timeout gets one.                                   *)
LEMMA AddTimeout ==
    ASSUME NEW set \in Seq(Entry), OneEach(set), NEW t \in Timer, ~TimersetHas(set, t),
           NEW when \in Nat
    PROVE  LET r == TimersetAdd(set, t, when)
           IN  /\ r \in Seq(Entry) /\ OneEach(r)
               /\ \A u \in Timer : TimersetHas(r, u) <=> TimersetHas(set, u) \/ u = t
               /\ \A i \in 1..Len(r) : \/ r[i] = [timer |-> t, at |-> when]
                                       \/ \E k \in 1..Len(set) : r[i] = set[k]
<1> DEFINE p == Place(set, when)
           e == [timer |-> t, at |-> when]
           r == InsertAt(set, p, e)
           g(i) == IF i < p THEN i ELSE i - 1
           h(k) == IF k < p THEN k ELSE k + 1
<1>1. p \in 1..Len(set) + 1
  BY PlaceExists
<1>2. e \in Entry /\ e.timer = t
  BY DEF Entry
<1> HIDE DEF e, p
<1> HIDE DEF r
<1>3. /\ r \in Seq(Entry) /\ Len(r) = Len(set) + 1
      /\ \A i \in 1..Len(set) + 1 :
            r[i] = IF i < p THEN set[i] ELSE IF i = p THEN e ELSE set[i - 1]
  <2>1. e \in Entry
    BY <1>2
  <2>2. /\ InsertAt(set, p, e) \in Seq(Entry) /\ Len(InsertAt(set, p, e)) = Len(set) + 1
        /\ \A j \in 1..Len(set) + 1 :
              InsertAt(set, p, e)[j] =
                 IF j < p THEN set[j] ELSE IF j = p THEN e ELSE set[j - 1]
    BY <1>1, <2>1, InsertAtFacts
  <2> QED
    BY <2>2 DEF r
<1>4. r[p] = e /\ p \in 1..Len(r)
  BY <1>1, <1>3
<1>5. \A i \in 1..Len(r) : i # p => g(i) \in 1..Len(set) /\ r[i] = set[g(i)]
  BY <1>1, <1>3
<1>6. \A i, k \in 1..Len(r) : i # p /\ k # p /\ g(i) = g(k) => i = k
  BY <1>1, <1>3
<1>7. \A k \in 1..Len(set) : h(k) \in 1..Len(r) /\ r[h(k)] = set[k]
  <2> SUFFICES ASSUME NEW k \in 1..Len(set) PROVE h(k) \in 1..Len(r) /\ r[h(k)] = set[k]
    OBVIOUS
  <2>1. CASE k < p
    BY <1>3, <2>1
  <2>2. CASE ~(k < p)
    <3>1. k + 1 \in 1..Len(set) + 1 /\ ~(k + 1 < p) /\ k + 1 # p /\ (k + 1) - 1 = k
      BY <1>1, <2>2
    <3> QED
      BY <1>3, <2>2, <3>1
  <2> QED
    BY <2>1, <2>2
<1> HIDE DEF g, h
<1>8. \A k \in 1..Len(set) : set[k].timer # t
  BY DEF TimersetHas
<1>9. OneEach(r)
  <2> SUFFICES ASSUME NEW i \in 1..Len(r), NEW k \in 1..Len(r), r[i].timer = r[k].timer
               PROVE  i = k
    BY DEF OneEach
  <2>1. CASE i # p /\ k # p
    <3>1. g(i) = g(k)
      BY <1>5, <2>1 DEF OneEach
    <3> QED
      BY <1>6, <2>1, <3>1
  <2>2. CASE i = p \/ k = p
    BY <1>2, <1>4, <1>5, <1>8, <2>2
  <2> QED
    BY <2>1, <2>2
<1>10. ASSUME NEW u \in Timer PROVE TimersetHas(r, u) <=> TimersetHas(set, u) \/ u = t
  <2>1. TimersetHas(r, u) <=> \E i \in 1..Len(r) : r[i].timer = u
    BY <1>3 DEF TimersetHas
  <2>2. TimersetHas(set, u) <=> \E i \in 1..Len(set) : set[i].timer = u
    BY DEF TimersetHas
  <2> QED
    BY <1>2, <1>4, <1>5, <1>7, <2>1, <2>2
<1>11. \A i \in 1..Len(r) : r[i] = e \/ \E k \in 1..Len(set) : r[i] = set[k]
  BY <1>4, <1>5
<1>12. TimersetAdd(set, t, when) = r
  BY DEF TimersetAdd, r, e, p
<1> QED
  BY <1>3, <1>9, <1>10, <1>11, <1>12 DEF e

(* What is left when the entry at one place is taken out.                  *)
LEMMA LoseEntry ==
    ASSUME NEW set \in Seq(Entry), OneEach(set), NEW p \in 1..Len(set), NEW r \in Seq(Entry),
           Len(r) = Len(set) - 1,
           \A i \in 1..Len(set) - 1 : r[i] = IF i < p THEN set[i] ELSE set[i + 1]
    PROVE  /\ OneEach(r)
           /\ \A u : TimersetHas(r, u) <=> TimersetHas(set, u) /\ u # set[p].timer
           /\ \A i \in 1..Len(r) : \E k \in 1..Len(set) : r[i] = set[k]
<1> DEFINE g(i) == IF i < p THEN i ELSE i + 1
<1>1. \A i \in 1..Len(r) : g(i) \in 1..Len(set) /\ g(i) # p /\ r[i] = set[g(i)]
  OBVIOUS
<1>2. \A i, k \in 1..Len(r) : g(i) = g(k) => i = k
  OBVIOUS
<1>3. \A k \in 1..Len(set) : k # p => \E i \in 1..Len(r) : r[i] = set[k]
  <2> SUFFICES ASSUME NEW k \in 1..Len(set), k # p PROVE \E i \in 1..Len(r) : r[i] = set[k]
    OBVIOUS
  <2>1. CASE k < p
    BY <2>1
  <2>2. CASE k > p
    <3>1. k - 1 \in 1..Len(r) /\ ~(k - 1 < p) /\ (k - 1) + 1 = k
      BY <2>2
    <3> QED
      BY <3>1
  <2> QED
    BY <2>1, <2>2
<1> HIDE DEF g
<1>4. OneEach(r)
  BY <1>1, <1>2 DEF OneEach
<1>5. ASSUME NEW u PROVE TimersetHas(r, u) <=> TimersetHas(set, u) /\ u # set[p].timer
  <2>1. TimersetHas(r, u) <=> \E i \in 1..Len(r) : r[i].timer = u
    BY DEF TimersetHas
  <2>2. TimersetHas(set, u) <=> \E i \in 1..Len(set) : set[i].timer = u
    BY DEF TimersetHas
  <2>3. ASSUME TimersetHas(r, u) PROVE TimersetHas(set, u) /\ u # set[p].timer
    <3>1. PICK i \in 1..Len(r) : r[i].timer = u
      BY <2>1, <2>3
    <3>2. g(i) \in 1..Len(set) /\ g(i) # p /\ set[g(i)].timer = u
      BY <1>1, <3>1
    <3> QED
      BY <2>2, <3>2 DEF OneEach
  <2>4. ASSUME TimersetHas(set, u), u # set[p].timer PROVE TimersetHas(r, u)
    BY <1>3, <2>1, <2>2, <2>4
  <2> QED
    BY <2>3, <2>4
<1> QED
  BY <1>1, <1>4, <1>5

(* A timeout is taken out (timerset.c:43-53), wherever it is.              *)
LEMMA RemoveTimeout ==
    ASSUME NEW set \in Seq(Entry), OneEach(set), NEW t \in Timer
    PROVE  LET r == TimersetRm(set, t)
           IN  /\ r \in Seq(Entry) /\ OneEach(r)
               /\ \A u : TimersetHas(r, u) <=> TimersetHas(set, u) /\ u # t
               /\ \A i \in 1..Len(r) : \E k \in 1..Len(set) : r[i] = set[k]
<1> DEFINE I == {i \in 1..Len(set) : set[i].timer = t}
<1>1. CASE I = {}
  <2>1. TimersetRm(set, t) = set
    BY <1>1 DEF TimersetRm, RemoveFirstMatch
  <2>2. ~TimersetHas(set, t)
    BY <1>1 DEF TimersetHas
  <2> QED
    BY <2>1, <2>2
<1>2. CASE I # {}
  <2>0. I \in SUBSET Nat
    OBVIOUS
  <2>1. \E i \in I : \A j \in I : i <= j
    BY <1>2, <2>0, LeastNumber
  <2>2. Min(I) \in I
    BY <2>1 DEF Min
  <2>3. TimersetRm(set, t) = RemoveAt(set, Min(I))
    BY <1>2 DEF TimersetRm, RemoveFirstMatch, SelectInSeq
  <2>4. /\ RemoveAt(set, Min(I)) \in Seq(Entry)
        /\ Len(RemoveAt(set, Min(I))) = Len(set) - 1
        /\ \A j \in 1..Len(set) - 1 :
              RemoveAt(set, Min(I))[j] = IF j < Min(I) THEN set[j] ELSE set[j + 1]
    BY <2>2, RemoveAtFacts
  <2>5. Min(I) \in 1..Len(set) /\ set[Min(I)].timer = t
    BY <2>2
  <2> DEFINE p == Min(I)  r == RemoveAt(set, p)
  <2>6. p \in 1..Len(set) /\ r \in Seq(Entry) /\ Len(r) = Len(set) - 1
        /\ \A j \in 1..Len(set) - 1 : r[j] = IF j < p THEN set[j] ELSE set[j + 1]
    BY <2>4, <2>5
  <2>7. TimersetRm(set, t) = r /\ set[p].timer = t
    BY <2>3, <2>5
  <2> HIDE DEF p, r, I
  <2>8. /\ OneEach(r)
        /\ \A u : TimersetHas(r, u) <=> TimersetHas(set, u) /\ u # set[p].timer
        /\ \A i \in 1..Len(r) : \E k \in 1..Len(set) : r[i] = set[k]
    BY <2>6, LoseEntry, SMTT(60)
  <2> QED
    BY <2>6, <2>7, <2>8
<1> QED
  BY <1>1, <1>2

(* The first timeout is taken.                                             *)
LEMMA TakeFirst ==
    ASSUME NEW set \in Seq(Entry), OneEach(set), set # <<>>
    PROVE  /\ Head(set) \in Entry
           /\ \E k \in 1..Len(set) : Head(set) = set[k]
           /\ TimersetHas(set, Head(set).timer)
           /\ Tail(set) \in Seq(Entry) /\ OneEach(Tail(set))
           /\ \A u : TimersetHas(Tail(set), u) <=> TimersetHas(set, u) /\ u # Head(set).timer
           /\ \A i \in 1..Len(Tail(set)) : \E k \in 1..Len(set) : Tail(set)[i] = set[k]
<1> DEFINE r == Tail(set)
<1>1. /\ Head(set) \in Entry /\ Head(set) = set[1] /\ 1 \in 1..Len(set)
      /\ r \in Seq(Entry) /\ Len(r) = Len(set) - 1
      /\ \A i \in 1..Len(set) - 1 : r[i] = IF i < 1 THEN set[i] ELSE set[i + 1]
  BY TailFacts
<1>2. TimersetHas(set, Head(set).timer)
  BY <1>1 DEF TimersetHas
<1> HIDE DEF r
<1>3. /\ OneEach(r)
      /\ \A u : TimersetHas(r, u) <=> TimersetHas(set, u) /\ u # set[1].timer
      /\ \A i \in 1..Len(r) : \E k \in 1..Len(set) : r[i] = set[k]
  BY <1>1, LoseEntry, SMTT(60)
<1> QED
  BY <1>1, <1>2, <1>3 DEF r
-----------------------------------------------------------------------------
(* The inductive invariant holds in the initial states.                    *)
LEMMA InitIInv == Init => IInv
<1> SUFFICES ASSUME Init PROVE IInv
  OBVIOUS
<1> USE DEF Init, TimersInit
<1>1. /\ \A x : ~Contains(tasks, x) /\ ~Contains(todo, x)
      /\ \A t : ~TimersetHas(timers, t)
      /\ tasks = <<>> /\ todo = <<>> /\ timers = <<>>
  BY DEF Contains, TimersetHas
<1>2. poller.reg = {Efd} /\ poller.want[Efd] = {"IN"} /\ poller.batch = <<>>
  BY DEF NewPoller, PollerAdd, PollerSet
<1>3. PollerInv
  <2>1. poller = [reg |-> {Efd},
                  want |-> [h \in Handle \cup {Efd} |-> IF h = Efd THEN {"IN"} ELSE {}],
                  batch |-> <<>>]
    BY WorkerAssumption DEF NewPoller, PollerAdd, PollerSet
  <2>2. [h \in Handle \cup {Efd} |-> IF h = Efd THEN {"IN"} ELSE {}]
           \in [Handle \cup {Efd} -> SUBSET PollEvents]
    BY DEF PollEvents
  <2> HIDE DEF Init, TimersInit
  <2>3. poller \in [reg : SUBSET (Handle \cup {Efd}),
                    want : [Handle \cup {Efd} -> SUBSET PollEvents],
                    batch : Seq([h : Handle \cup {Efd}, ev : SUBSET PollEvents])]
    BY <2>1, <2>2
  <2>4. Efd \in poller.reg /\ Len(poller.batch) = 0
    BY <2>1
  <2> QED
    BY <2>3, <2>4 DEF PollerInv
<1>4. TypeOK
  <2>1. /\ state \in [Timer -> {"IDLE", "ACTIVE", "STOPPING"}]
        /\ timeout \in [Timer -> Delay \cup {-1}]
        /\ due \in [Timer -> Nat] /\ rung \in [Timer -> Nat]
    OBVIOUS
  <2>2. /\ timers \in Seq([timer : Timer, at : Nat])
        /\ tasks \in Seq(Task \cup {StopItem}) /\ todo \in Seq(Task \cup {StopItem})
    OBVIOUS
  <2>3. fuel \in [starts : Nat, jobs : Nat, fds : BOOLEAN]
    BY WorkerAssumption
  <2> QED
    BY <1>2, <2>1, <2>2, <2>3 DEF TypeOK
<1>5. Alive /\ EventsWanted /\ HandInv
  BY DEF Alive, EventsWanted, HandInv
<1>6. cur = None /\ \A t \in Timer : cur # t
  BY WorkerAssumption
<1>7. \A x \in Task : cur # x
  BY WorkerAssumption
<1>8. TasksInv
  BY <1>1, <1>7, TaskFacts DEF TasksInv, OnceIn, InOrder, Queued
<1>9. TimersInv
  <2>1. \A t \in Timer : ~Pending(Start(t)) /\ ~Pending(StopT(t))
    BY <1>1, <1>7, TaskFacts DEF Pending, Queued
  <2> QED
    BY <1>1, <1>6, <2>1 DEF TimersInv, TimerInv
<1>10. EndInv
  BY <1>1 DEF EndInv, Queued
<1> QED
  BY <1>3, <1>4, <1>5, <1>8, <1>9, <1>10 DEF IInv
-----------------------------------------------------------------------------
(* The poll set. *)
Pollable == Handle \cup {Efd}
(* The entries of a batch of nn_poller_wait.                               *)
Batch   == [h : Pollable, ev : SUBSET PollEvents]

(* An entry of a batch that the owner may be given.                        *)
Proper(e, p) ==
    e.ev # {} => /\ e.h \in p.reg
                 /\ IF e.h = Efd THEN e.ev = {"IN"}
                                 ELSE e.ev \subseteq p.want[e.h] \cup {"ERR"}

(* The poller of PollerInv, as a parameter.                                *)
PollerOK(p) ==
    /\ p \in [reg : SUBSET Pollable, want : [Pollable -> SUBSET PollEvents], batch : Seq(Batch)]
    /\ Efd \in p.reg
    /\ \A i \in 1..Len(p.batch) : Proper(p.batch[i], p)

(* PollerInv says so of the poller of the worker.                          *)
LEMMA PollerInvIsOK == PollerInv <=> PollerOK(poller)
BY DEF PollerInv, PollerOK, Proper, Pollable, Batch

(* d is the batch of p without the events E of h.                          *)
IsWithout(d, p, h, E) ==
    /\ d \in Seq(Batch)
    /\ Len(d) = Len(p.batch)
    /\ \A i \in 1..Len(p.batch) :
          /\ d[i].h = p.batch[i].h
          /\ d[i].ev = IF p.batch[i].h = h THEN p.batch[i].ev \ E ELSE p.batch[i].ev

(* Events of a handle are dropped from the batch: the entries keep their   *)
(* places.                                                                 *)
LEMMA DroppedFacts ==
    ASSUME NEW p, PollerOK(p), NEW h \in Pollable, NEW E
    PROVE  IsWithout(Dropped(p, h, E), p, h, E)
<1> DEFINE b == p.batch
           f == [i \in 1..Len(b) |-> IF b[i].h = h THEN Without(b[i], E) ELSE b[i]]
<1>1. b \in Seq(Batch)
  BY DEF PollerOK
<1>2. Dropped(p, h, E) = f
  BY <1>1 DEF Dropped
<1>3. \A i \in 1..Len(b) : b[i] \in Batch
  BY <1>1
<1>4. ASSUME NEW e \in Batch
      PROVE  Without(e, E) \in Batch /\ Without(e, E).h = e.h /\ Without(e, E).ev = e.ev \ E
  BY DEF Without, Batch
<1> HIDE DEF b
<1>5. \A i \in 1..Len(b) : f[i] \in Batch
  BY <1>3, <1>4
<1>6. f \in Seq(Batch) /\ Len(f) = Len(b)
  BY <1>1, <1>5
<1>7. \A i \in 1..Len(b) :
         f[i].h = b[i].h /\ f[i].ev = IF b[i].h = h THEN b[i].ev \ E ELSE b[i].ev
  BY <1>3, <1>4
<1> QED
  BY <1>2, <1>6, <1>7 DEF b, IsWithout

(* nn_poller_add keeps the batch proper.                                   *)
LEMMA AddOK ==
    ASSUME NEW p, PollerOK(p), NEW h \in Handle, h \notin p.reg
    PROVE  PollerOK(PollerAdd(p, h))
<1> DEFINE q == PollerAdd(p, h)
<1>1. /\ q.reg = p.reg \cup {h} /\ q.batch = p.batch
      /\ q.want = [p.want EXCEPT ![h] = {}]
      /\ q \in [reg : SUBSET Pollable, want : [Pollable -> SUBSET PollEvents], batch : Seq(Batch)]
  BY DEF PollerAdd, PollerOK, Pollable
<1>2. \A i \in 1..Len(p.batch) : p.batch[i].ev # {} => p.batch[i].h # h /\ q.want[p.batch[i].h] = p.want[p.batch[i].h]
  BY <1>1 DEF PollerOK, Proper
<1> HIDE DEF q
<1>3. \A i \in 1..Len(q.batch) : Proper(q.batch[i], q)
  BY <1>1, <1>2 DEF PollerOK, Proper
<1> QED
  BY <1>1, <1>3 DEF PollerOK, q

(* nn_poller_set_in and set_out keep the batch proper.                     *)
LEMMA SetOK ==
    ASSUME NEW p, PollerOK(p), NEW h \in Handle, NEW e \in {"IN", "OUT"}
    PROVE  PollerOK(PollerSet(p, h, e))
<1> DEFINE q == PollerSet(p, h, e)
<1>1. /\ q.reg = p.reg /\ q.batch = p.batch
      /\ q.want = [p.want EXCEPT ![h] = @ \cup {e}]
      /\ q \in [reg : SUBSET Pollable, want : [Pollable -> SUBSET PollEvents], batch : Seq(Batch)]
  BY DEF PollerSet, PollerOK, Pollable, PollEvents
<1>2. \A i \in 1..Len(p.batch) : p.want[p.batch[i].h] \subseteq q.want[p.batch[i].h]
  <2>0. \A i \in 1..Len(p.batch) : p.batch[i] \in Batch
    BY DEF PollerOK
  <2>1. \A i \in 1..Len(p.batch) : p.batch[i].h \in Pollable
    BY <2>0 DEF Batch
  <2>2. p.want \in [Pollable -> SUBSET PollEvents]
    BY DEF PollerOK
  <2> HIDE DEF q
  <2> QED
    BY <1>1, <2>1, <2>2
<1> HIDE DEF q
<1>3. \A i \in 1..Len(q.batch) : Proper(q.batch[i], q)
  BY <1>1, <1>2 DEF PollerOK, Proper
<1> QED
  BY <1>1, <1>3 DEF PollerOK, q

(* nn_poller_reset_in and reset_out take the event out of the batch too.   *)
LEMMA ResetOK ==
    ASSUME NEW p, PollerOK(p), NEW h \in Handle, NEW e \in {"IN", "OUT"}
    PROVE  PollerOK(PollerReset(p, h, e))
<1>1. CASE e \notin p.want[h]
  BY <1>1 DEF PollerReset
<1>2. CASE e \in p.want[h]
  <2> DEFINE q == PollerReset(p, h, e)
             d == Dropped(p, h, {e})
  <2>1. /\ d \in Seq(Batch) /\ Len(d) = Len(p.batch)
        /\ \A i \in 1..Len(p.batch) :
              /\ d[i].h = p.batch[i].h
              /\ d[i].ev = IF p.batch[i].h = h THEN p.batch[i].ev \ {e} ELSE p.batch[i].ev
    <3>1. h \in Pollable
      BY DEF Pollable
    <3>2. IsWithout(Dropped(p, h, {e}), p, h, {e})
      BY <3>1, DroppedFacts
    <3> QED
      BY <3>2 DEF IsWithout
  <2> HIDE DEF d
  <2>2. /\ q.reg = p.reg /\ q.batch = d
        /\ q.want = [p.want EXCEPT ![h] = @ \ {e}]
        /\ q \in [reg : SUBSET Pollable, want : [Pollable -> SUBSET PollEvents], batch : Seq(Batch)]
    BY <1>2, <2>1 DEF PollerReset, PollerOK, Pollable, PollEvents, d
  <2> HIDE DEF q
  <2>3. \A i \in 1..Len(d) : Proper(d[i], q)
    <3> SUFFICES ASSUME NEW i \in 1..Len(d), d[i].ev # {} PROVE Proper(d[i], q)
      BY DEF Proper
    <3>1. p.batch[i] \in Batch /\ Proper(p.batch[i], p) /\ p.want \in [Pollable -> SUBSET PollEvents]
      BY <2>1 DEF PollerOK
    <3>2. p.batch[i].ev # {} /\ p.batch[i].h \in Pollable
      BY <2>1, <3>1 DEF Batch
    <3>3. CASE p.batch[i].h = h
      <4>1. h # Efd
        BY WorkerAssumption
      <4>2. d[i].h = h /\ d[i].ev = p.batch[i].ev \ {e}
        BY <2>1, <3>3
      <4>3. q.want[h] = p.want[h] \ {e} /\ q.reg = p.reg
        BY <2>2, <3>1, <3>2, <3>3
      <4>4. p.batch[i].ev \subseteq p.want[h] \cup {"ERR"} /\ h \in p.reg
        BY <3>1, <3>2, <3>3, <4>1 DEF Proper
      <4> QED
        BY <4>1, <4>2, <4>3, <4>4 DEF Proper
    <3>4. CASE p.batch[i].h # h
      BY <2>1, <2>2, <3>1, <3>2, <3>4 DEF Proper
    <3> QED
      BY <3>3, <3>4
  <2> QED
    BY <2>2, <2>3 DEF PollerOK, q
<1> QED
  BY <1>1, <1>2

(* nn_poller_rm takes every event of the handle out of the batch.          *)
LEMMA RmOK ==
    ASSUME NEW p, PollerOK(p), NEW h \in Handle
    PROVE  PollerOK(PollerRm(p, h))
<1> DEFINE q == PollerRm(p, h)
           d == Dropped(p, h, PollEvents)
<1>1. /\ d \in Seq(Batch) /\ Len(d) = Len(p.batch)
      /\ \A i \in 1..Len(p.batch) :
            /\ d[i].h = p.batch[i].h
            /\ d[i].ev = IF p.batch[i].h = h THEN p.batch[i].ev \ PollEvents ELSE p.batch[i].ev
  <2>1. h \in Pollable
    BY DEF Pollable
  <2>2. IsWithout(Dropped(p, h, PollEvents), p, h, PollEvents)
    BY <2>1, DroppedFacts
  <2> QED
    BY <2>2 DEF IsWithout
<1> HIDE DEF d
<1>2. /\ q.reg = p.reg \ {h} /\ q.batch = d
      /\ q.want = [p.want EXCEPT ![h] = {}]
      /\ q \in [reg : SUBSET Pollable, want : [Pollable -> SUBSET PollEvents], batch : Seq(Batch)]
  BY <1>1 DEF PollerRm, PollerOK, Pollable, d
<1> HIDE DEF q
<1>3. Efd \in q.reg
  BY <1>2, WorkerAssumption DEF PollerOK
<1>4. \A i \in 1..Len(d) : Proper(d[i], q)
  <2> SUFFICES ASSUME NEW i \in 1..Len(d), d[i].ev # {} PROVE Proper(d[i], q)
    BY DEF Proper
  <2>1. p.batch[i] \in Batch /\ Proper(p.batch[i], p) /\ p.want \in [Pollable -> SUBSET PollEvents]
    BY <1>1 DEF PollerOK
  <2>2. p.batch[i].h # h /\ p.batch[i].h \in Pollable /\ d[i].ev = p.batch[i].ev /\ d[i].h = p.batch[i].h
    BY <1>1, <2>1 DEF Batch
  <2> QED
    BY <1>2, <2>1, <2>2 DEF Proper
<1> QED
  BY <1>2, <1>3, <1>4 DEF PollerOK, q

(* Whatever a handler does to the poll set, no event that is not wanted    *)
(* stays in the batch.                                                     *)
LEMMA HandledOK ==
    ASSUME PollerInv, Handled
    PROVE  PollerInv'
<1> DEFINE p == poller
<1>1. PollerOK(p)
  BY PollerInvIsOK
<1>2. \A h \in Handle : h \notin p.reg => PollerOK(PollerAdd(p, h))
  BY <1>1, AddOK
<1>3. \A h \in Handle : PollerOK(PollerRm(p, h))
  BY <1>1, RmOK
<1>4. \A h \in Handle, e \in {"IN", "OUT"} : PollerOK(PollerSet(p, h, e))
  BY <1>1, SetOK
<1>5. \A h \in Handle, e \in {"IN", "OUT"} : PollerOK(PollerReset(p, h, e))
  BY <1>1, ResetOK
<1>6. PollerOK(poller')
  <2>1. CASE poller' = poller
    BY <1>1, <2>1
  <2>2. CASE poller' \in PollerOps
    BY <1>1, <1>2, <1>3, <1>4, <1>5, <2>2 DEF PollerOps
  <2> QED
    BY <2>1, <2>2 DEF Handled
<1> QED
  BY <1>6 DEF PollerInv, PollerOK, Proper, Pollable, Batch

(* What epoll_wait brings is wanted, in whatever order it comes.           *)
LEMMA FetchedOK ==
    ASSUME PollerInv, NEW r \in Ready, NEW batch \in Batches(poller, r),
           poller' = PollerFetched(poller, batch)
    PROVE  PollerInv'
<1> DEFINE p == poller
           S == {h \in p.reg : r[h] # {}}
<1>1. PollerOK(p)
  BY PollerInvIsOK
<1>2. /\ r \in [p.reg -> SUBSET PollEvents] /\ r[Efd] \subseteq {"IN"}
      /\ \A h \in p.reg : h # Efd => r[h] \subseteq p.want[h] \cup {"ERR"}
  BY DEF Ready
<1>3. IsFiniteSet(S) /\ Cardinality(S) \in Nat
  <2>1. IsFiniteSet(Pollable)
    BY WorkerAssumption, FS_AddElement DEF Pollable
  <2>2. S \subseteq Pollable
    BY <1>1 DEF PollerOK
  <2> HIDE DEF S
  <2> QED
    BY <2>1, <2>2, FS_Subset, FS_CardinalityType
<1>4. PICK o \in [1..Cardinality(S) -> S] : batch = [i \in DOMAIN o |-> [h |-> o[i], ev |-> r[o[i]]]]
  BY DEF Batches, Orders
<1>5. p.want[Efd] \in SUBSET PollEvents /\ Efd \in p.reg /\ p.reg \subseteq Pollable
  BY <1>1 DEF PollerOK, Pollable
<1>6. \A h \in S : /\ h \in p.reg /\ r[h] # {} /\ r[h] \in SUBSET PollEvents
                   /\ h = Efd => r[h] = {"IN"}
                   /\ h # Efd => r[h] \subseteq p.want[h] \cup {"ERR"}
  BY <1>2
<1>7. batch \in Seq(Batch) /\ Len(batch) = Cardinality(S)
      /\ \A i \in 1..Len(batch) : batch[i].h = o[i] /\ batch[i].ev = r[o[i]] /\ o[i] \in S
  <2> HIDE DEF S
  <2>1. \A i \in 1..Cardinality(S) : [h |-> o[i], ev |-> r[o[i]]] \in Batch
    BY <1>5, <1>6 DEF Batch
  <2> QED
    BY <1>3, <1>4, <2>1
<1> HIDE DEF S
<1>8. poller'.reg = p.reg /\ poller'.want = p.want /\ poller'.batch = batch
      /\ poller' \in [reg : SUBSET Pollable, want : [Pollable -> SUBSET PollEvents], batch : Seq(Batch)]
  BY <1>1, <1>7 DEF PollerFetched, PollerOK
<1>9. \A i \in 1..Len(batch) : Proper(batch[i], poller')
  <2> SUFFICES ASSUME NEW i \in 1..Len(batch) PROVE Proper(batch[i], poller')
    OBVIOUS
  <2>1. CASE o[i] = Efd
    BY <1>6, <1>7, <1>8, <2>1 DEF Proper
  <2>2. CASE o[i] # Efd
    BY <1>6, <1>7, <1>8, <2>2 DEF Proper
  <2> QED
    BY <2>1, <2>2
<1> QED
  BY <1>5, <1>8, <1>9 DEF PollerInv, Proper, Pollable, Batch

(* The event given out is one of the batch that nobody took back, and the  *)
(* rest of the batch stays.                                                *)
LEMMA TakenOK ==
    ASSUME PollerInv, ~PollerEmpty(poller)
    PROVE  /\ PollerEvent(poller) \in Event
           /\ IF PollerEvent(poller).h = Efd
              THEN PollerEvent(poller).ev = "IN"
              ELSE /\ PollerEvent(poller).h \in poller.reg
                   /\ PollerEvent(poller).ev \in poller.want[PollerEvent(poller).h] \cup {"ERR"}
           /\ poller' = PollerTaken(poller) => PollerInv'
<1> DEFINE p == poller
           b == p.batch
           T == {i \in 1..Len(b) : b[i].ev # {}}
           n == Index(p)
<1>1. PollerOK(p)
  BY PollerInvIsOK
<1>2. b \in Seq(Batch) /\ DOMAIN b = 1..Len(b) /\ \A i \in 1..Len(b) : b[i] \in Batch /\ Proper(b[i], p)
  BY <1>1 DEF PollerOK
<1>3. n \in 1..Len(b) /\ b[n].ev # {}
  <2>1. T # {} /\ T \in SUBSET Nat
    BY <1>2 DEF PollerEmpty
  <2>2. PICK i \in T : \A j \in T : i <= j
    BY <2>1, LeastNumber
  <2>3. \A j \in 1..i - 1 : j \in 1..Len(b) /\ j \notin T
    BY <2>2
  <2>4. i \in DOMAIN b /\ b[i].ev # {} /\ \A j \in 1..i - 1 : b[j].ev = {}
    BY <1>2, <2>2, <2>3
  <2> QED
    BY <1>2, <2>4 DEF Index
<1> HIDE DEF n
<1>4. b[n] \in Batch /\ Proper(b[n], p) /\ b[n].ev \in SUBSET PollEvents /\ b[n].h \in Pollable
  BY <1>2, <1>3 DEF Batch
<1> DEFINE e == EventOf(b[n].ev)
<1>5. e \in b[n].ev /\ e \in PollEvents
  BY <1>3, <1>4 DEF EventOf, PollEvents
<1>6. b[n].h = Efd => e = "IN"
  BY <1>3, <1>4, <1>5 DEF Proper
<1>7. PollerEvent(p) = [h |-> b[n].h, ev |-> e]
  BY DEF PollerEvent, n
<1> HIDE DEF e
<1>8. PollerEvent(poller) \in Event
  BY <1>4, <1>5, <1>7 DEF Event, Pollable
<1>9. IF PollerEvent(poller).h = Efd
      THEN PollerEvent(poller).ev = "IN"
      ELSE /\ PollerEvent(poller).h \in poller.reg
           /\ PollerEvent(poller).ev \in poller.want[PollerEvent(poller).h] \cup {"ERR"}
  BY <1>3, <1>4, <1>5, <1>6, <1>7 DEF Proper
<1>10. ASSUME poller' = PollerTaken(poller) PROVE PollerInv'
  <2> DEFINE c == [b EXCEPT ![n] = Without(@, {e})]
  <2>1. Without(b[n], {e}) \in Batch /\ Without(b[n], {e}).h = b[n].h /\ Without(b[n], {e}).ev = b[n].ev \ {e}
    BY <1>4 DEF Without, Batch
  <2>2. c \in Seq(Batch) /\ Len(c) = Len(b) /\ \A i \in 1..Len(b) : i # n => c[i] = b[i]
    BY <1>2, <1>3, <2>1
  <2>3. c[n].h = b[n].h /\ c[n].ev = b[n].ev \ {e}
    BY <1>2, <1>3, <2>1
  <2>4. poller' = [p EXCEPT !.batch = c]
    BY <1>7, <1>10 DEF PollerTaken, n
  <2> HIDE DEF c
  <2>5. poller'.reg = p.reg /\ poller'.want = p.want /\ poller'.batch = c
        /\ poller' \in [reg : SUBSET Pollable, want : [Pollable -> SUBSET PollEvents], batch : Seq(Batch)]
    BY <1>1, <2>2, <2>4 DEF PollerOK
  <2>6. Proper(c[n], poller')
    BY <1>4, <1>5, <1>6, <2>3, <2>5 DEF Proper
  <2>7. \A i \in 1..Len(c) : Proper(c[i], poller')
    <3> SUFFICES ASSUME NEW i \in 1..Len(c), i # n PROVE Proper(c[i], poller')
      BY <2>6
    <3>1. c[i] = b[i] /\ Proper(b[i], p)
      BY <1>2, <2>2
    <3> QED
      BY <2>5, <3>1 DEF Proper
  <2>8. Efd \in poller'.reg
    BY <1>1, <2>5 DEF PollerOK
  <2> QED
    BY <2>5, <2>7, <2>8 DEF PollerInv, Proper, Pollable, Batch
<1> QED
  BY <1>8, <1>9, <1>10
-----------------------------------------------------------------------------
(* What the thread has in hand is a timer at "fire" only, and a task at    *)
(* "run" only.                                                             *)
LEMMA HandFacts ==
    ASSUME IInv
    PROVE  /\ at # "fire" => \A t \in Timer : cur # t
           /\ at # "run" => \A x \in Task : cur # x
<1>1. \A x \in Task, e \in Event : x # e
  <2> SUFFICES ASSUME NEW x \in Task, NEW e \in Event, x = e PROVE FALSE
    OBVIOUS
  <2>1. DOMAIN x = {"kind", "of"}
    BY DEF Task
  <2>2. DOMAIN e = {"h", "ev"}
    BY DEF Event
  <2> QED
    BY <2>1, <2>2
<1>2. HandInv
  BY DEF IInv
<1>3. ASSUME at # "fire", NEW t \in Timer PROVE cur # t
  BY <1>2, <1>3, WorkerAssumption DEF HandInv
<1>4. ASSUME at # "run", NEW x \in Task PROVE cur # x
  BY <1>1, <1>2, <1>4, WorkerAssumption DEF HandInv
<1> QED
  BY <1>3, <1>4

(* A step that leaves the queues alone keeps TasksInv, one that leaves the *)
(* timers and their tasks where they are TimersInv.                        *)
LEMMA TasksFrame ==
    ASSUME TasksInv, tasks' = tasks, todo' = todo, \A x \in Task : cur' = x => cur = x
    PROVE  TasksInv'
<1>1. \A x : Queued(x)' <=> Queued(x)
  BY DEF Queued
<1>2. \A t \in Timer : /\ cur' = Start(t) => cur = Start(t)
                       /\ cur' = StopT(t) => cur = StopT(t)
  BY TaskFacts
<1>3. OnceIn(tasks') /\ OnceIn(todo') /\ InOrder(tasks') /\ InOrder(todo')
  BY DEF TasksInv
<1>4. ASSUME NEW t \in Timer
      PROVE  /\ Contains(todo', StopT(t)) => ~Contains(tasks', Start(t))
             /\ cur' = Start(t) => ~Queued(Start(t))'
             /\ cur' = StopT(t) => ~Queued(StopT(t))' /\ ~Queued(Start(t))'
  BY <1>1, <1>2 DEF TasksInv
<1> QED
  BY <1>3, <1>4 DEF TasksInv

(* The worker holds the same timer or timer task as before.                *)
SameHand == \A t \in Timer : /\ cur' = t <=> cur = t
                             /\ cur' = Start(t) <=> cur = Start(t)
                             /\ cur' = StopT(t) <=> cur = StopT(t)

(* TimersInv survives a step that leaves timers and tasks alone and lets   *)
(* time pass.                                                              *)
LEMMA TimersFrame ==
    ASSUME TypeOK, TimersInv, UNCHANGED timerVars, timers' = timers, tasks' = tasks, todo' = todo,
           now' \in Nat, now' >= now, SameHand
    PROVE  TimersInv'
<1> SUFFICES ASSUME NEW t \in Timer PROVE TimerInv(t)'
  BY DEF TimersInv
<1>1. /\ Pending(Start(t))' <=> Pending(Start(t))
      /\ Pending(StopT(t))' <=> Pending(StopT(t))
      /\ TimersetHas(timers, t)' <=> TimersetHas(timers, t)
      /\ (cur = t)' <=> cur = t
  BY DEF SameHand, Pending, Queued, TimersetHas
<1>2. due[t] \in Nat /\ now \in Nat /\ timeout[t] \in Nat \cup {-1}
  BY WorkerAssumption DEF TypeOK
<1>3. TimerInv(t)
  BY DEF TimersInv
<1>4. UNCHANGED <<state, timeout, due, rung>>
  BY DEF timerVars
<1> QED
  BY <1>1, <1>2, <1>3, <1>4 DEF TimerInv

(* Steps that have nothing to do with timers or tasks.                     *)
LEMMA StepAside ==
    ASSUME IInv, Wait \/ NoTimeout \/ TakeEvent \/ NoEvent \/ NoTask \/ RunJob \/ HandleFd \/ Tick
    PROVE  IInv'
<1> USE DEF Goes, Outside
<1>0. TypeOK /\ Alive /\ HandInv /\ TasksInv /\ TimersInv /\ PollerInv /\ EndInv /\ EventsWanted
  BY DEF IInv
<1>1. UNCHANGED <<state, timeout, due, rung, timers, tasks, todo, fuel, ending, abort>>
  BY DEF Wait, NoTimeout, TakeEvent, NoEvent, NoTask, RunJob, HandleFd, Tick, timerVars
<1>2. now' \in Nat /\ now' >= now
  BY <1>0 DEF Wait, NoTimeout, TakeEvent, NoEvent, NoTask, RunJob, HandleFd, Tick, TypeOK
<1>3. PollerInv'
  <2>1. CASE Wait
    BY <1>0, <2>1, FetchedOK DEF Wait
  <2>2. CASE TakeEvent
    BY <1>0, <2>2, TakenOK DEF TakeEvent
  <2>3. CASE NoEvent
    <3>1. poller' = [poller EXCEPT !.batch = <<>>]
      BY <2>3 DEF NoEvent, PollerDone
    <3>2. PollerOK(poller)
      BY <1>0, PollerInvIsOK
    <3>3. <<>> \in Seq(Batch) /\ Len(<<>>) = 0
      OBVIOUS
    <3>4. /\ poller'.reg = poller.reg /\ poller'.want = poller.want /\ poller'.batch = <<>>
          /\ poller' \in [reg : SUBSET Pollable, want : [Pollable -> SUBSET PollEvents],
                          batch : Seq(Batch)]
      BY <3>1, <3>2, <3>3 DEF PollerOK
    <3>5. \A i \in 1..Len(poller'.batch) : FALSE
      BY <3>3, <3>4
    <3>6. PollerOK(poller')
      BY <3>2, <3>4, <3>5 DEF PollerOK
    <3> QED
      BY <3>6 DEF PollerInv, PollerOK, Proper, Pollable, Batch
  <2>4. CASE RunJob \/ HandleFd
    BY <1>0, <2>4, HandledOK DEF RunJob, HandleFd
  <2>5. CASE NoTimeout \/ NoTask \/ Tick
    <3>1. poller' = poller
      BY <2>5 DEF NoTimeout, NoTask, Tick
    <3> QED
      BY <1>0, <3>1 DEF PollerInv
  <2> QED
    BY <2>1, <2>2, <2>3, <2>4, <2>5
<1>4. HandInv'
  <2>1. CASE TakeEvent
    BY <1>0, <1>1, <2>1, TakenOK DEF TakeEvent, HandInv
  <2>2. CASE RunJob \/ HandleFd
    BY <1>0, <1>1, <2>2 DEF RunJob, HandleFd, HandInv
  <2>3. CASE Wait \/ NoTimeout \/ NoEvent \/ Tick
    BY <1>0, <1>1, <2>3 DEF Wait, NoTimeout, NoEvent, Tick, HandInv
  <2>4. CASE NoTask
    BY <1>0, <1>1, <2>4 DEF NoTask, HandInv
  <2> QED
    BY <2>1, <2>2, <2>3, <2>4
<1>5. EventsWanted'
  <2>1. CASE TakeEvent
    <3>1. poller'.reg = poller.reg /\ poller'.want = poller.want
      BY <1>0, <2>1 DEF TakeEvent, PollerTaken, PollerInv
    <3> QED
      BY <1>0, <2>1, <3>1, TakenOK DEF TakeEvent, EventsWanted
  <2>2. CASE Tick
    BY <1>0, <2>2 DEF Tick, EventsWanted
  <2>3. CASE ~TakeEvent /\ ~Tick
    <3>1. at' # "fd"
      BY <2>3 DEF Wait, NoTimeout, NoEvent, NoTask, RunJob, HandleFd
    <3> QED
      BY <3>1 DEF EventsWanted
  <2> QED
    BY <2>1, <2>2, <2>3
<1>6. \/ cur' = cur
      \/ /\ \A t \in Timer : cur # t /\ cur # Start(t) /\ cur # StopT(t)
         /\ \A t \in Timer : cur' # t
         /\ \A x \in Task : cur' # x
  <2>1. CASE Wait \/ NoTimeout \/ NoEvent \/ NoTask \/ Tick
    BY <2>1 DEF Wait, NoTimeout, NoEvent, NoTask, Tick
  <2>2. CASE TakeEvent
    <3>1. at = "events" /\ at' = "fd" /\ cur' \in Event
      BY <1>0, <2>2, TakenOK DEF TakeEvent
    <3>2. \A x \in Task, e \in Event : x # e
      <4> SUFFICES ASSUME NEW x \in Task, NEW e \in Event, x = e PROVE FALSE
        OBVIOUS
      <4>1. DOMAIN x = {"kind", "of"}
        BY DEF Task
      <4>2. DOMAIN e = {"h", "ev"}
        BY DEF Event
      <4> QED
        BY <4>1, <4>2
    <3> QED
      BY <3>1, <3>2, HandFacts, TaskFacts, WorkerAssumption
  <2>3. CASE HandleFd
    <3>1. at = "fd" /\ cur' = None
      BY <2>3 DEF HandleFd
    <3> QED
      BY <3>1, HandFacts, TaskFacts, WorkerAssumption
  <2>4. CASE RunJob
    <3>1. at = "run" /\ cur' = None /\ cur.kind = "job"
      BY <2>4 DEF RunJob
    <3>2. \A t \in Timer : Start(t).kind # "job" /\ StopT(t).kind # "job"
      BY DEF Start, StopT
    <3> QED
      BY <3>1, <3>2, HandFacts, TaskFacts, WorkerAssumption
  <2> QED
    BY <2>1, <2>2, <2>3, <2>4
<1>7. TasksInv'
  BY <1>0, <1>1, <1>6, TasksFrame
<1>8. TimersInv'
  <2>1. SameHand
    BY <1>6, TaskFacts DEF SameHand
  <2> QED
    BY <1>0, <1>1, <1>2, <2>1, TimersFrame DEF timerVars
<1>9. EndInv'
  <2>1. \A x : Queued(x)' <=> Queued(x)
    BY <1>1 DEF Queued
  <2>2. \A x \in Task : Pending(x)' => Pending(x)
    BY <1>6, <2>1 DEF Pending
  <2>3. at' # "ended" \/ at' = at
    BY DEF Wait, NoTimeout, TakeEvent, NoEvent, NoTask, RunJob, HandleFd, Tick
  <2> QED
    BY <1>0, <1>1, <2>1, <2>2, <2>3 DEF EndInv
<1>10. TypeOK' /\ Alive'
  <2>1. at' \in {"wait", "timers", "fire", "events", "fd", "tasks", "run", "ended"}
    BY <1>0 DEF Wait, NoTimeout, TakeEvent, NoEvent, NoTask, RunJob, HandleFd, Tick, TypeOK
  <2>2. poller'.reg \subseteq Handle \cup {Efd}
    BY <1>3 DEF PollerInv
  <2>3. efd' \in BOOLEAN
    BY <1>0 DEF Wait, NoTimeout, TakeEvent, NoEvent, NoTask, RunJob, HandleFd, Tick, TypeOK
  <2> QED
    BY <1>0, <1>1, <1>2, <2>1, <2>2, <2>3 DEF TypeOK, Alive
<1> QED
  BY <1>3, <1>4, <1>5, <1>7, <1>8, <1>9, <1>10 DEF IInv
-----------------------------------------------------------------------------
(* Nothing has happened to timer u.                                        *)
LEMMA SameTimer ==
    ASSUME TimersInv, NEW u \in Timer,
           state'[u] = state[u], timeout'[u] = timeout[u], due'[u] = due[u], rung'[u] = rung[u],
           now' = now, cur' = u <=> cur = u,
           Pending(Start(u))' <=> Pending(Start(u)), Pending(StopT(u))' <=> Pending(StopT(u)),
           TimersetHas(timers', u) <=> TimersetHas(timers, u),
           \A i \in 1..Len(timers') : timers'[i].timer = u =>
              \E k \in 1..Len(timers) : timers'[i] = timers[k]
    PROVE  TimerInv(u)'
<1>1. TimerInv(u)
  BY DEF TimersInv
<1>2. TimersetHas(timers, u)' <=> TimersetHas(timers, u)
  BY DEF TimersetHas
<1> QED
  BY <1>1, <1>2 DEF TimerInv

(* A call that uses the worker leaves alone what belongs to its thread.    *)
LEMMA CallFrame ==
    ASSUME IInv, Call
    PROVE  /\ HandInv' /\ PollerInv' /\ EventsWanted'
           /\ TypeOK /\ Alive /\ TasksInv /\ TimersInv /\ EndInv
           /\ ~ending /\ at # "ended" /\ ~Queued(StopItem)
           /\ UNCHANGED <<poller, at, cur, todo, timers, now>>
<1>1. /\ UNCHANGED <<poller, at, cur, todo, timers, now>>
      /\ HandInv /\ PollerInv /\ EventsWanted /\ EndInv /\ ~ending
  BY DEF Call, InUse, IInv
<1>2. HandInv'
  BY <1>1 DEF HandInv
<1>3. PollerInv'
  BY <1>1 DEF PollerInv
<1>4. EventsWanted'
  BY <1>1 DEF EventsWanted
<1> QED
  BY <1>1, <1>2, <1>3, <1>4 DEF IInv, EndInv

(* nn_worker_execute of a task that is not on its way.                     *)
LEMMA Pushed ==
    ASSUME TypeOK, TasksInv, NEW x \in Item, ~Queued(x),
           \A t \in Timer : x \in {Start(t), StopT(t)} => cur # x,
           \A t \in Timer : x = Start(t) => ~Pending(StopT(t)),
           tasks' = Append(tasks, x), todo' = todo, cur' = cur
    PROVE  /\ tasks' \in Seq(Item) /\ TasksInv'
           /\ \A y : Queued(y)' <=> Queued(y) \/ y = x
           /\ \A y : Pending(y)' <=> Pending(y) \/ y = x
<1>1. /\ tasks' \in Seq(Item) /\ OnceIn(tasks') /\ InOrder(tasks')
      /\ \A y : Contains(tasks', y) <=> Contains(tasks, y) \/ y = x
  BY PushQueue DEF TypeOK, Item, TasksInv, Queued, Pending
<1>2. \A y : Queued(y)' <=> Queued(y) \/ y = x
  BY <1>1 DEF Queued
<1>3. \A y : Pending(y)' <=> Pending(y) \/ y = x
  BY <1>2 DEF Pending
<1>4. TasksInv'
  <2>1. OnceIn(todo') /\ InOrder(todo') /\ OnceIn(tasks') /\ InOrder(tasks')
    BY <1>1 DEF TasksInv
  <2>2. \A y \in Task \cup {StopItem} : ~(Contains(todo', y) /\ Contains(tasks', y))
    BY <1>1 DEF TasksInv, Queued
  <2>3. ASSUME NEW t \in Timer
        PROVE  /\ Contains(todo', StopT(t)) => ~Contains(tasks', Start(t))
               /\ cur' = Start(t) => ~Queued(Start(t))'
               /\ cur' = StopT(t) => ~Queued(StopT(t))' /\ ~Queued(Start(t))'
    BY <1>1, <1>2, <2>3 DEF TasksInv, Pending, Queued
  <2> QED
    BY <2>1, <2>2, <2>3 DEF TasksInv, OnceIn, InOrder
<1> QED
  BY <1>1, <1>2, <1>3, <1>4

(* A budget is spent one by one.                                           *)
LEMMA FuelSpent ==
    ASSUME NEW S, NEW f \in [starts : Nat, jobs : Nat, fds : S]
    PROVE  /\ f.starts > 0 => [f EXCEPT !.starts = @ - 1] \in [starts : Nat, jobs : Nat, fds : S]
           /\ f.jobs > 0 => [f EXCEPT !.jobs = @ - 1] \in [starts : Nat, jobs : Nat, fds : S]
OBVIOUS

(* nn_timer_start: an idle timer has nothing on its way.                   *)
LEMMA StartTimerKeeps ==
    ASSUME IInv, NEW t \in Timer, NEW d \in Delay, StartTimer(t, d)
    PROVE  IInv'
<1> DEFINE x == Start(t)
<1>1. Call
  BY DEF StartTimer
<1>2. /\ HandInv' /\ PollerInv' /\ EventsWanted'
      /\ TypeOK /\ Alive /\ TasksInv /\ TimersInv /\ EndInv
      /\ ~ending /\ at # "ended" /\ ~Queued(StopItem)
      /\ UNCHANGED <<poller, at, cur, todo, timers, now>>
  BY <1>1, CallFrame
<1>3. x \in Task /\ x # StopItem /\ x # StopT(t)
  BY TaskFacts
<1>4. state[t] = "IDLE" /\ TimerInv(t)
  BY <1>2 DEF StartTimer, TimersInv
<1>5. rung[t] = 0 /\ ~TimersetHas(timers, t) /\ cur # t /\ ~Pending(x) /\ ~Pending(StopT(t))
  BY <1>4 DEF TimerInv
<1>6. ~Queued(x) /\ cur # x
  BY <1>5 DEF Pending
<1>7. /\ tasks' = Append(tasks, x) /\ efd' = TRUE /\ abort' = {}
      /\ state' = [state EXCEPT ![t] = "ACTIVE"]
      /\ timeout' = [timeout EXCEPT ![t] = d] /\ due' = [due EXCEPT ![t] = now + d]
      /\ rung' = rung /\ ending' = ending
      /\ fuel.starts > 0 /\ fuel' = [fuel EXCEPT !.starts = @ - 1]
  BY <1>6 DEF StartTimer, Activate, Execute, CanPush, Failed
<1>8. /\ tasks' \in Seq(Item) /\ TasksInv'
      /\ \A y : Queued(y)' <=> Queued(y) \/ y = x
      /\ \A y : Pending(y)' <=> Pending(y) \/ y = x
  <2>1. \A u \in Timer : x = Start(u) => ~Pending(StopT(u))
    BY <1>5, TaskFacts
  <2> HIDE DEF x
  <2> QED
    BY <1>2, <1>3, <1>6, <1>7, <2>1, Pushed DEF Item
<1>9. TypeOK' /\ Alive'
  <2>1. d \in Nat
    BY WorkerAssumption
  <2>2. fuel \in [starts : Nat, jobs : Nat, fds : BOOLEAN]
    BY <1>2 DEF TypeOK
  <2>3. fuel' \in [starts : Nat, jobs : Nat, fds : BOOLEAN]
    BY <1>7, <2>2, FuelSpent
  <2> QED
    BY <1>2, <1>7, <1>8, <2>1, <2>3 DEF TypeOK, Alive, Item
<1>10. ASSUME NEW u \in Timer PROVE TimerInv(u)'
  <2>1. CASE u # t
    <3>1. x # Start(u) /\ x # StopT(u)
      BY <2>1, TaskFacts
    <3> QED
      BY <1>2, <1>7, <1>8, <2>1, <3>1, SameTimer DEF TypeOK
  <2>2. CASE u = t
    <3>1. state'[t] = "ACTIVE" /\ timeout'[t] = d /\ due'[t] = now + d /\ rung'[t] = 0
      BY <1>2, <1>5, <1>7 DEF TypeOK
    <3>2. Pending(Start(t))' /\ ~Pending(StopT(t))' /\ cur' # t /\ ~TimersetHas(timers', t)
      BY <1>2, <1>3, <1>5, <1>8
    <3>3. d \in Nat /\ now \in Nat /\ now' = now
      BY <1>2, WorkerAssumption DEF TypeOK
    <3>4. ~\E i \in 1..Len(timers') : timers'[i].timer = t
      BY <1>2, <1>5 DEF TimersetHas, TypeOK
    <3> QED
      BY <2>2, <3>1, <3>2, <3>3, <3>4 DEF TimerInv, TimersetHas
  <2> QED
    BY <2>1, <2>2
<1>11. TimersInv'
  BY <1>2, <1>10 DEF TimersInv
<1>12. EndInv'
  BY <1>2, <1>3, <1>7, <1>8 DEF EndInv
<1> QED
  BY <1>2, <1>8, <1>9, <1>11, <1>12 DEF IInv

(* nn_timer_stop: the stop task of an active timer is not on its way, and  *)
(* comes behind the start task when that one is.                           *)
LEMMA StopTimerKeeps ==
    ASSUME IInv, NEW t \in Timer, StopTimer(t)
    PROVE  IInv'
<1> DEFINE x == StopT(t)
<1>1. Call
  BY DEF StopTimer
<1>2. /\ HandInv' /\ PollerInv' /\ EventsWanted'
      /\ TypeOK /\ Alive /\ TasksInv /\ TimersInv /\ EndInv
      /\ ~ending /\ at # "ended" /\ ~Queued(StopItem)
      /\ UNCHANGED <<poller, at, cur, todo, timers, now>>
  BY <1>1, CallFrame
<1>3. x \in Task /\ x # StopItem /\ \A u \in Timer : x # Start(u)
  BY TaskFacts
<1>4. state[t] = "ACTIVE" /\ TimerInv(t)
  BY <1>2 DEF StopTimer, TimersInv
<1>5. ~Pending(x) /\ ~Queued(x) /\ cur # x
  BY <1>4 DEF TimerInv, Pending
<1>6. /\ tasks' = Append(tasks, x) /\ efd' = TRUE /\ abort' = {}
      /\ state' = [state EXCEPT ![t] = "STOPPING"]
      /\ due' = [due EXCEPT ![t] = 0] /\ rung' = [rung EXCEPT ![t] = 0]
      /\ UNCHANGED <<timeout, fuel, ending>>
  BY <1>5 DEF StopTimer, ToBeStopped, Execute, CanPush, Failed
<1>7. /\ tasks' \in Seq(Item) /\ TasksInv'
      /\ \A y : Queued(y)' <=> Queued(y) \/ y = x
      /\ \A y : Pending(y)' <=> Pending(y) \/ y = x
  <2> HIDE DEF x
  <2> QED
    BY <1>2, <1>3, <1>5, <1>6, Pushed DEF Item
<1>8. TypeOK' /\ Alive'
  BY <1>2, <1>6, <1>7 DEF TypeOK, Alive, Item
<1>9. ASSUME NEW u \in Timer PROVE TimerInv(u)'
  <2>1. CASE u # t
    <3>1. x # Start(u) /\ x # StopT(u)
      BY <2>1, TaskFacts
    <3> QED
      BY <1>2, <1>6, <1>7, <2>1, <3>1, SameTimer DEF TypeOK
  <2>2. CASE u = t
    <3>1. state'[t] = "STOPPING" /\ rung'[t] = 0
      BY <1>2, <1>6 DEF TypeOK
    <3>2. Pending(StopT(t))' /\ (Pending(Start(t))' <=> Pending(Start(t)))
      BY <1>3, <1>7
    <3>3. cur' = cur /\ (TimersetHas(timers, t)' <=> TimersetHas(timers, t))
      BY <1>2 DEF TimersetHas
    <3> QED
      BY <1>4, <2>2, <3>1, <3>2, <3>3 DEF TimerInv
  <2> QED
    BY <2>1, <2>2
<1>10. TimersInv'
  BY <1>2, <1>9 DEF TimersInv
<1>11. EndInv'
  BY <1>2, <1>3, <1>6, <1>7 DEF EndInv
<1> QED
  BY <1>2, <1>7, <1>8, <1>10, <1>11 DEF IInv

(* nn_worker_execute of some other task, and nn_worker_cancel.             *)
LEMMA ExecuteJobKeeps ==
    ASSUME IInv, NEW j \in Job, ExecuteJob(j)
    PROVE  IInv'
<1> DEFINE x == JobOf(j)
<1>1. Call
  BY DEF ExecuteJob
<1>2. /\ HandInv' /\ PollerInv' /\ EventsWanted'
      /\ TypeOK /\ Alive /\ TasksInv /\ TimersInv /\ EndInv
      /\ ~ending /\ at # "ended" /\ ~Queued(StopItem)
      /\ UNCHANGED <<poller, at, cur, todo, timers, now>>
  BY <1>1, CallFrame
<1>3. x \in Task /\ x # StopItem /\ \A u \in Timer : x # Start(u) /\ x # StopT(u)
  BY TaskFacts
<1>4. ~Queued(x)
  BY DEF ExecuteJob
<1>5. /\ tasks' = Append(tasks, x) /\ efd' = TRUE
      /\ UNCHANGED <<state, timeout, due, rung, ending, abort>>
      /\ fuel.jobs > 0 /\ fuel' = [fuel EXCEPT !.jobs = @ - 1]
  BY DEF ExecuteJob, Execute, timerVars
<1>6. /\ tasks' \in Seq(Item) /\ TasksInv'
      /\ \A y : Queued(y)' <=> Queued(y) \/ y = x
      /\ \A y : Pending(y)' <=> Pending(y) \/ y = x
  <2> HIDE DEF x
  <2> QED
    BY <1>2, <1>3, <1>4, <1>5, Pushed DEF Item
<1>7. TypeOK' /\ Alive'
  <2>1. fuel \in [starts : Nat, jobs : Nat, fds : BOOLEAN]
    BY <1>2 DEF TypeOK
  <2>2. fuel' \in [starts : Nat, jobs : Nat, fds : BOOLEAN]
    BY <1>5, <2>1, FuelSpent
  <2> QED
    BY <1>2, <1>5, <1>6, <2>2 DEF TypeOK, Alive, Item
<1>8. ASSUME NEW u \in Timer PROVE TimerInv(u)'
  <2>1. x # Start(u) /\ x # StopT(u)
    BY <1>3
  <2> QED
    BY <1>2, <1>5, <1>6, <2>1, SameTimer
<1>9. TimersInv'
  BY <1>2, <1>8 DEF TimersInv
<1>10. EndInv'
  BY <1>2, <1>3, <1>5, <1>6 DEF EndInv
<1> QED
  BY <1>2, <1>6, <1>7, <1>9, <1>10 DEF IInv

(* nn_worker_cancel keeps the inductive invariant.                         *)
LEMMA CancelKeeps ==
    ASSUME IInv, NEW j \in Job, Cancel(j)
    PROVE  IInv'
<1> DEFINE x == JobOf(j)
<1>1. Call
  BY DEF Cancel
<1>2. /\ HandInv' /\ PollerInv' /\ EventsWanted'
      /\ TypeOK /\ Alive /\ TasksInv /\ TimersInv /\ EndInv
      /\ ~ending /\ at # "ended" /\ ~Queued(StopItem)
      /\ UNCHANGED <<poller, at, cur, todo, timers, now>>
  BY <1>1, CallFrame
<1>3. x \in Task /\ x # StopItem /\ \A u \in Timer : x # Start(u) /\ x # StopT(u)
  BY TaskFacts
<1>4. /\ tasks' = QueueRemove(tasks, x)
      /\ UNCHANGED <<state, timeout, due, rung, efd, fuel, ending, abort>>
  BY DEF Cancel, timerVars
<1>5. /\ tasks' \in Seq(Item) /\ OnceIn(tasks') /\ InOrder(tasks')
      /\ \A y : Contains(tasks', y) <=> Contains(tasks, y) /\ y # x
  <2> HIDE DEF x
  <2> QED
    BY <1>2, <1>4, RemoveQueue DEF TypeOK, Item, TasksInv
<1>6. /\ \A y : Queued(y)' => Queued(y)
      /\ \A y : y # x => (Queued(y)' <=> Queued(y)) /\ (Pending(y)' <=> Pending(y))
      /\ \A y : Pending(y)' => Pending(y)
  <2>1. \A y : Queued(y)' => Queued(y)
    BY <1>2, <1>5 DEF Queued
  <2>2. \A y : y # x => (Queued(y)' <=> Queued(y))
    BY <1>2, <1>5 DEF Queued
  <2> QED
    BY <1>2, <2>1, <2>2 DEF Pending
<1>7. TasksInv'
  <2>1. OnceIn(todo') /\ InOrder(todo')
    BY <1>2 DEF TasksInv
  <2>2. \A y \in Task \cup {StopItem} : ~(Contains(todo', y) /\ Contains(tasks', y))
    BY <1>2, <1>5 DEF TasksInv
  <2>3. ASSUME NEW t \in Timer
        PROVE  /\ Contains(todo', StopT(t)) => ~Contains(tasks', Start(t))
               /\ cur' = Start(t) => ~Queued(Start(t))'
               /\ cur' = StopT(t) => ~Queued(StopT(t))' /\ ~Queued(Start(t))'
    BY <1>2, <1>5, <1>6, <2>3 DEF TasksInv
  <2> QED
    BY <1>5, <2>1, <2>2, <2>3 DEF TasksInv, OnceIn, InOrder
<1>8. TypeOK' /\ Alive'
  BY <1>2, <1>4, <1>5 DEF TypeOK, Alive, Item
<1>9. ASSUME NEW u \in Timer PROVE TimerInv(u)'
  <2>1. x # Start(u) /\ x # StopT(u)
    BY <1>3
  <2> QED
    BY <1>2, <1>4, <1>6, <2>1, SameTimer
<1>10. TimersInv'
  BY <1>2, <1>9 DEF TimersInv
<1>11. EndInv'
  BY <1>2, <1>4, <1>6 DEF EndInv
<1> QED
  BY <1>2, <1>7, <1>8, <1>10, <1>11 DEF IInv

(* nn_worker_term: when it is called nothing is on its way any more.       *)
LEMMA TerminateKeeps ==
    ASSUME IInv, Terminate
    PROVE  IInv'
<1>1. Call
  BY DEF Terminate
<1>2. /\ HandInv' /\ PollerInv' /\ EventsWanted'
      /\ TypeOK /\ Alive /\ TasksInv /\ TimersInv /\ EndInv
      /\ ~ending /\ at # "ended" /\ ~Queued(StopItem)
      /\ UNCHANGED <<poller, at, cur, todo, timers, now>>
  BY <1>1, CallFrame
<1>3. StopItem \notin Task /\ \A u \in Timer : StopItem # Start(u) /\ StopItem # StopT(u)
  BY TaskFacts
<1>4. /\ tasks' = Append(tasks, StopItem) /\ efd' = TRUE /\ ending' = TRUE
      /\ UNCHANGED <<state, timeout, due, rung, fuel, abort>>
  BY DEF Terminate, Execute, timerVars
<1>5. /\ tasks' \in Seq(Item) /\ TasksInv'
      /\ \A y : Queued(y)' <=> Queued(y) \/ y = StopItem
      /\ \A y : Pending(y)' <=> Pending(y) \/ y = StopItem
  BY <1>2, <1>3, <1>4, Pushed DEF Item
<1>6. TypeOK' /\ Alive'
  BY <1>2, <1>4, <1>5 DEF TypeOK, Alive, Item
<1>7. ASSUME NEW u \in Timer PROVE TimerInv(u)'
  <2>1. StopItem # Start(u) /\ StopItem # StopT(u)
    BY <1>3
  <2> QED
    BY <1>2, <1>4, <1>5, <2>1, SameTimer
<1>8. TimersInv'
  BY <1>2, <1>7 DEF TimersInv
<1>9. \A x \in Task : ~Pending(x)
  <2> SUFFICES ASSUME NEW x \in Task PROVE ~Pending(x)
    OBVIOUS
  <2>1. CASE \E t \in Timer : x = Start(t) \/ x = StopT(t)
    <3>1. PICK t \in Timer : x = Start(t) \/ x = StopT(t)
      BY <2>1
    <3>2. state[t] = "IDLE" /\ TimerInv(t)
      BY <1>2 DEF Terminate, TimersInv
    <3> QED
      BY <3>1, <3>2 DEF TimerInv
  <2>2. CASE \E j \in Job : x = JobOf(j)
    BY <2>2 DEF Terminate
  <2> QED
    BY <2>1, <2>2, TaskFacts
<1>10. EndInv'
  <2>1. \A t \in Timer : state'[t] = "IDLE"
    BY <1>4 DEF Terminate
  <2>2. \A x \in Task : ~Pending(x)'
    BY <1>3, <1>5, <1>9
  <2> QED
    BY <1>2, <1>4, <2>1, <2>2 DEF EndInv
<1> QED
  BY <1>2, <1>5, <1>6, <1>8, <1>10 DEF IInv
-----------------------------------------------------------------------------
(* Where the worker's thread goes from its steps, and what it leaves.      *)
LEMMA ThreadFrame ==
    ASSUME IInv, UNCHANGED <<now, fuel, ending>>, poller' = poller, at' # "fd"
    PROVE  /\ PollerInv' /\ EventsWanted'
           /\ TypeOK /\ Alive /\ HandInv /\ TasksInv /\ TimersInv /\ EndInv
<1>1. PollerInv /\ TypeOK /\ Alive /\ HandInv /\ TasksInv /\ TimersInv /\ EndInv
  BY DEF IInv
<1>2. PollerInv'
  BY <1>1 DEF PollerInv
<1>3. EventsWanted'
  BY DEF EventsWanted
<1> QED
  BY <1>1, <1>2, <1>3

(* A timeout leaves the timerset for the thread's hand.                    *)
LEMMA TakeTimeoutKeeps ==
    ASSUME IInv, TakeTimeout
    PROVE  IInv'
<1>1. /\ Alive /\ at = "timers" /\ at' = "fire" /\ TimersetDue(timers, now)
      /\ cur' = Head(timers).timer /\ timers' = Tail(timers)
      /\ UNCHANGED <<state, timeout, due, rung, tasks, efd, todo, poller, abort, now, fuel, ending>>
  BY DEF TakeTimeout, Goes, Outside, timerVars
<1>2. /\ PollerInv' /\ EventsWanted'
      /\ TypeOK /\ Alive /\ HandInv /\ TasksInv /\ TimersInv /\ EndInv
  BY <1>1, ThreadFrame
<1>3. timers \in Seq(Entry) /\ OneEach(timers) /\ timers # <<>>
  BY <1>1, <1>2 DEF TypeOK, TimersInv, Entry, OneEach, TimersetDue
<1>4. /\ Head(timers) \in Entry /\ \E k \in 1..Len(timers) : Head(timers) = timers[k]
      /\ TimersetHas(timers, Head(timers).timer)
      /\ timers' \in Seq(Entry) /\ OneEach(timers')
      /\ \A u : TimersetHas(timers', u) <=> TimersetHas(timers, u) /\ u # Head(timers).timer
      /\ \A i \in 1..Len(timers') : \E k \in 1..Len(timers) : timers'[i] = timers[k]
  BY <1>1, <1>3, TakeFirst
<1>5. PICK t \in Timer : t = Head(timers).timer
  BY <1>4 DEF Entry
<1>6. PICK k \in 1..Len(timers) : Head(timers) = timers[k]
  BY <1>4
<1>7. /\ cur' = t /\ TimersetHas(timers, t) /\ timers[k].timer = t
      /\ \A u : TimersetHas(timers', u) <=> TimersetHas(timers, u) /\ u # t
      /\ timers[k].at <= now /\ timers[k].at \in Nat
  BY <1>1, <1>4, <1>5, <1>6 DEF TimersetDue, Entry
<1>8. cur = None /\ \A u \in Timer : cur # u
  BY <1>1, <1>2, HandFacts DEF HandInv
<1>9. \A x \in Task : t # x /\ cur # x
  BY <1>1, <1>7, HandFacts, WorkerAssumption
<1>10. TasksInv'
  BY <1>1, <1>2, <1>9, <1>7, TasksFrame
<1>11. \A x : Queued(x)' <=> Queued(x)
  BY <1>1 DEF Queued
<1>12. \A x \in Task : Pending(x)' <=> Pending(x)
  BY <1>9, <1>11, <1>7 DEF Pending
<1>13. ASSUME NEW u \in Timer PROVE TimerInv(u)'
  <2>1. /\ Pending(Start(u))' <=> Pending(Start(u))
        /\ Pending(StopT(u))' <=> Pending(StopT(u))
    BY <1>12, TaskFacts
  <2>2. CASE u # t
    BY <1>1, <1>2, <1>4, <1>8, <1>7, <2>1, <2>2, SameTimer
  <2>3. CASE u = t
    <3>1. TimerInv(t) /\ TimersetHas(timers, t)
      BY <1>2, <1>7 DEF TimersInv
    <3>2. ~Pending(Start(t)) /\ state[t] # "IDLE"
      BY <3>1 DEF TimerInv
    <3>3. cur' = t /\ ~TimersetHas(timers', t)
      BY <1>7
    <3>4. ~\E i \in 1..Len(timers') : timers'[i].timer = t
      BY <1>4, <3>3 DEF TimersetHas
    <3>5. state[t] = "ACTIVE" => timers[k].at >= due[t]
      BY <1>7, <3>1 DEF TimerInv
    <3>6. state[t] = "ACTIVE" => now >= due[t]
      <4>1. now \in Nat /\ due[t] \in Nat
        BY <1>2 DEF TypeOK
      <4> QED
        BY <1>7, <3>5, <4>1
    <3>7. TimersetHas(timers, t)' <=> TimersetHas(timers', t)
      BY DEF TimersetHas
    <3> QED
      BY <1>1, <2>1, <2>3, <3>1, <3>2, <3>3, <3>4, <3>6, <3>7 DEF TimerInv
  <2> QED
    BY <2>2, <2>3
<1>14. TimersInv'
  BY <1>4, <1>13 DEF TimersInv, OneEach
<1>15. HandInv'
  BY <1>1, <1>2, <1>7 DEF HandInv
<1>16. EndInv'
  BY <1>1, <1>2, <1>11, <1>12 DEF EndInv
<1>17. TypeOK' /\ Alive'
  BY <1>1, <1>2, <1>4 DEF TypeOK, Alive, Entry
<1> QED
  BY <1>2, <1>10, <1>14, <1>15, <1>16, <1>17 DEF IInv

(* A timeout is handled: the timer rings once, or it is about to stop and  *)
(* nothing happens (timer.c:76-78, 129-133).                               *)
LEMMA FireKeeps ==
    ASSUME IInv, Fire
    PROVE  IInv'
<1>1. /\ Alive /\ at = "fire" /\ at' = "timers" /\ cur' = None
      /\ UNCHANGED <<state, timeout, due, timers, tasks, efd, todo, poller, now, fuel, ending>>
  BY DEF Fire, Goes, Outside
<1>2. /\ PollerInv' /\ EventsWanted'
      /\ TypeOK /\ Alive /\ HandInv /\ TasksInv /\ TimersInv /\ EndInv
  BY <1>1, ThreadFrame
<1>3. PICK t \in Timer : t = cur /\ TimerInv(t)
  BY <1>1, <1>2 DEF HandInv, TimersInv
<1>4. /\ \A u \in Timer : None # u
      /\ \A x \in Task : None # x /\ cur # x
  BY <1>1, HandFacts, WorkerAssumption
<1>5. /\ state[t] # "IDLE" /\ ~TimersetHas(timers, t) /\ ~Pending(Start(t))
      /\ state[t] = "ACTIVE" => timeout[t] = -1 /\ rung[t] = 0
  BY <1>3 DEF TimerInv
<1>6. /\ abort' = {}
      /\ rung' = IF state[t] = "STOPPING" THEN rung ELSE [rung EXCEPT ![t] = @ + 1]
  <2>1. state[t] \in {"IDLE", "ACTIVE", "STOPPING"}
    BY <1>2, <1>3 DEF TypeOK
  <2>2. CASE state[t] = "STOPPING"
    BY <1>1, <1>3, <2>2 DEF Fire, DropLate, Alive
  <2>3. CASE state[t] = "ACTIVE"
    BY <1>3, <1>5, <2>3 DEF Fire, DropLate, Failed
  <2> QED
    BY <1>5, <2>1, <2>2, <2>3
<1>7. TasksInv'
  BY <1>1, <1>2, <1>4, TasksFrame
<1>8. \A x : Queued(x)' <=> Queued(x)
  BY <1>1 DEF Queued
<1>9. \A x \in Task : Pending(x)' <=> Pending(x)
  BY <1>1, <1>4, <1>8 DEF Pending
<1>10. ASSUME NEW u \in Timer PROVE TimerInv(u)'
  <2>1. /\ Pending(Start(u))' <=> Pending(Start(u))
        /\ Pending(StopT(u))' <=> Pending(StopT(u))
    BY <1>9, TaskFacts
  <2>2. CASE u # t
    <3>1. rung'[u] = rung[u]
      BY <1>2, <1>6, <2>2 DEF TypeOK
    <3>2. cur' # u /\ cur # u
      BY <1>1, <1>3, <1>4, <2>2
    <3> QED
      BY <1>1, <1>2, <2>1, <3>1, <3>2, SameTimer
  <2>3. CASE u = t
    <3>1. rung'[t] = IF state[t] = "STOPPING" THEN rung[t] ELSE rung[t] + 1
      BY <1>2, <1>3, <1>6 DEF TypeOK
    <3>2. cur' # t /\ (TimersetHas(timers, t)' <=> TimersetHas(timers, t))
      BY <1>1, <1>3, <1>4 DEF TimersetHas
    <3>3. TimerInv(t)'
      BY <1>1, <1>3, <1>5, <2>1, <2>3, <3>1, <3>2 DEF TimerInv
    <3> QED
      BY <2>3, <3>3
  <2> QED
    BY <2>2, <2>3
<1>11. TimersInv'
  BY <1>1, <1>2, <1>10 DEF TimersInv
<1>12. HandInv'
  BY <1>1, <1>2 DEF HandInv
<1>13. EndInv'
  BY <1>1, <1>2, <1>8, <1>9 DEF EndInv
<1>14. TypeOK' /\ Alive'
  <2>1. rung' \in [Timer -> Nat]
    BY <1>2, <1>3, <1>6 DEF TypeOK
  <2> QED
    BY <1>1, <1>2, <1>6, <2>1 DEF TypeOK, Alive
<1> QED
  BY <1>2, <1>7, <1>11, <1>12, <1>13, <1>14 DEF IInv

(* The worker takes all tasks that are queued, when it has done the ones   *)
(* it took before (worker_posix.inc:164-173).                              *)
LEMMA TakeTasksKeeps ==
    ASSUME IInv, TakeTasks
    PROVE  IInv'
<1>1. /\ Alive /\ at = "events" /\ at' = "tasks" /\ ~PollerEmpty(poller)
      /\ PollerEvent(poller).h = Efd /\ poller' = PollerTaken(poller)
      /\ efd' = FALSE /\ todo' = tasks /\ tasks' = <<>>
      /\ UNCHANGED <<state, timeout, due, rung, timers, cur, now, fuel, ending>>
  BY DEF TakeTasks, Goes, Outside, timerVars
<1>2. TypeOK /\ HandInv /\ TasksInv /\ TimersInv /\ EndInv /\ PollerInv
  BY DEF IInv
<1>3. PollerInv' /\ PollerEvent(poller).ev = "IN"
  BY <1>1, <1>2, TakenOK
<1>4. todo = <<>> /\ cur = None
  BY <1>1, <1>2 DEF HandInv
<1>5. \A y : ~Contains(<<>>, y)
  BY DEF Contains
<1>6. \A y : (Queued(y)' <=> Queued(y)) /\ (Pending(y)' <=> Pending(y))
  BY <1>1, <1>4, <1>5 DEF Queued, Pending
<1>7. TasksInv'
  <2>1. OnceIn(<<>>) /\ InOrder(<<>>)
    BY DEF OnceIn, InOrder
  <2>2. OnceIn(tasks') /\ InOrder(tasks') /\ OnceIn(todo') /\ InOrder(todo')
    BY <1>1, <1>2, <2>1 DEF TasksInv
  <2>3. \A y : ~Contains(tasks', y)
    BY <1>1, <1>5
  <2>4. \A t \in Timer :
          /\ cur' = Start(t) => ~Queued(Start(t))'
          /\ cur' = StopT(t) => ~Queued(StopT(t))' /\ ~Queued(Start(t))'
    BY <1>1, <1>2, <1>6 DEF TasksInv
  <2> QED
    BY <2>2, <2>3, <2>4 DEF TasksInv, OnceIn, InOrder
<1>8. ASSUME NEW u \in Timer PROVE TimerInv(u)'
  BY <1>1, <1>2, <1>6, SameTimer
<1>9. TimersInv'
  BY <1>1, <1>2, <1>8 DEF TimersInv
<1>10. HandInv' /\ EventsWanted'
  BY <1>1, <1>2 DEF HandInv, EventsWanted
<1>11. EndInv'
  BY <1>1, <1>2, <1>6 DEF EndInv
<1>12. TypeOK' /\ Alive'
  <2>1. abort' = {}
    BY <1>3 DEF TakeTasks, Failed
  <2>2. <<>> \in Seq(Task \cup {StopItem})
    OBVIOUS
  <2>3. poller'.reg \subseteq Handle \cup {Efd}
    BY <1>3 DEF PollerInv
  <2> QED
    BY <1>1, <1>2, <2>1, <2>2, <2>3 DEF TypeOK, Alive
<1> QED
  BY <1>3, <1>7, <1>9, <1>10, <1>11, <1>12 DEF IInv

(* The next task goes from the queue to the thread's hand.                 *)
LEMMA TakeTaskKeeps ==
    ASSUME IInv, TakeTask
    PROVE  IInv'
<1>1. /\ Alive /\ at = "tasks" /\ at' = "run" /\ todo # <<>> /\ Head(todo) # StopItem
      /\ cur' = Head(todo) /\ todo' = Tail(todo)
      /\ UNCHANGED <<state, timeout, due, rung, timers, tasks, efd, poller, abort, now, fuel, ending>>
  BY DEF TakeTask, Goes, Outside, timerVars
<1>2. /\ PollerInv' /\ EventsWanted'
      /\ TypeOK /\ Alive /\ HandInv /\ TasksInv /\ TimersInv /\ EndInv
  BY <1>1, ThreadFrame
<1>3. /\ Head(todo) \in Item /\ Contains(todo, Head(todo))
      /\ todo' \in Seq(Item) /\ OnceIn(todo') /\ InOrder(todo')
      /\ \A y : Contains(todo', y) <=> Contains(todo, y) /\ y # Head(todo)
      /\ \A t \in Timer : Head(todo) = StopT(t) => ~Contains(todo, Start(t))
  BY <1>1, <1>2, PopQueue DEF TypeOK, Item, TasksInv
<1>4. PICK x \in Task : x = Head(todo)
  BY <1>1, <1>3 DEF Item
<1>5. /\ cur' = x /\ Contains(todo, x) /\ ~Contains(tasks, x) /\ x # None
      /\ \A y : Contains(todo', y) <=> Contains(todo, y) /\ y # x
      /\ \A t \in Timer : x = StopT(t) => ~Contains(todo, Start(t))
      /\ \A t \in Timer : x # t
  BY <1>1, <1>2, <1>3, <1>4, WorkerAssumption DEF TasksInv
<1>6. cur = None /\ \A y \in Task : cur # y
  BY <1>1, <1>2, WorkerAssumption DEF HandInv
<1>7. /\ \A y : Queued(y)' <=> Queued(y) /\ y # x
      /\ \A y \in Task : Pending(y)' <=> Pending(y)
  <2>1. \A y : Queued(y)' <=> Queued(y) /\ y # x
    BY <1>1, <1>5 DEF Queued
  <2>2. Queued(x)
    BY <1>5 DEF Queued
  <2> QED
    BY <1>5, <1>6, <2>1, <2>2 DEF Pending
<1>8. TasksInv'
  <2>1. OnceIn(tasks') /\ InOrder(tasks') /\ OnceIn(todo') /\ InOrder(todo')
    BY <1>1, <1>2, <1>3 DEF TasksInv
  <2>2. \A y \in Task \cup {StopItem} : ~(Contains(todo', y) /\ Contains(tasks', y))
    BY <1>1, <1>2, <1>5 DEF TasksInv
  <2>3. ASSUME NEW t \in Timer
        PROVE  /\ Contains(todo', StopT(t)) => ~Contains(tasks', Start(t))
               /\ cur' = Start(t) => ~Queued(Start(t))'
               /\ cur' = StopT(t) => ~Queued(StopT(t))' /\ ~Queued(Start(t))'
    <3>1. Contains(todo', StopT(t)) => ~Contains(tasks', Start(t))
      BY <1>1, <1>2, <1>5 DEF TasksInv
    <3>2. cur' = Start(t) => ~Queued(Start(t))'
      BY <1>5, <1>7
    <3>3. cur' = StopT(t) => ~Queued(StopT(t))' /\ ~Queued(Start(t))'
      BY <1>1, <1>2, <1>5, <1>7 DEF TasksInv, Queued
    <3> QED
      BY <3>1, <3>2, <3>3
  <2> QED
    BY <2>1, <2>2, <2>3 DEF TasksInv, OnceIn, InOrder
<1>9. ASSUME NEW u \in Timer PROVE TimerInv(u)'
  <2>1. /\ Pending(Start(u))' <=> Pending(Start(u))
        /\ Pending(StopT(u))' <=> Pending(StopT(u))
    BY <1>7, TaskFacts
  <2>2. cur' # u /\ cur # u
    BY <1>5, <1>6, WorkerAssumption
  <2> QED
    BY <1>1, <1>2, <2>1, <2>2, SameTimer
<1>10. TimersInv'
  BY <1>1, <1>2, <1>9 DEF TimersInv
<1>11. HandInv'
  BY <1>1, <1>2, <1>5 DEF HandInv
<1>12. EndInv'
  BY <1>1, <1>2, <1>7 DEF EndInv
<1>13. TypeOK' /\ Alive'
  BY <1>1, <1>2, <1>3 DEF TypeOK, Alive, Item
<1> QED
  BY <1>2, <1>8, <1>10, <1>11, <1>12, <1>13 DEF IInv

(* At the stop item nothing is thrown away: nothing is left but it.        *)
LEMMA EndKeeps ==
    ASSUME IInv, End
    PROVE  IInv'
<1>1. /\ Alive /\ at = "tasks" /\ at' = "ended" /\ todo # <<>> /\ Head(todo) = StopItem
      /\ todo' = <<>>
      /\ UNCHANGED <<state, timeout, due, rung, timers, tasks, efd, poller, cur, abort, now, fuel, ending>>
  BY DEF End, Goes, Outside, timerVars
<1>2. /\ PollerInv' /\ EventsWanted'
      /\ TypeOK /\ Alive /\ HandInv /\ TasksInv /\ TimersInv /\ EndInv
  BY <1>1, ThreadFrame
<1>3. Contains(todo, StopItem)
  BY <1>1, <1>2, PopQueue DEF TypeOK, Item, TasksInv
<1>4. ending /\ \A x \in Task : ~Pending(x)
  BY <1>2, <1>3 DEF EndInv, Queued
<1>5. \A y : ~Contains(<<>>, y)
  BY DEF Contains
<1>6. \A y : Queued(y)' <=> Contains(tasks, y)
  BY <1>1, <1>5 DEF Queued
<1>7. /\ ~Queued(StopItem)'
      /\ \A x \in Task : ~Queued(x)' /\ ~Pending(x)'
  BY <1>1, <1>2, <1>3, <1>4, <1>6 DEF TasksInv, Pending, Queued
<1>8. TasksInv'
  <2>1. OnceIn(<<>>) /\ InOrder(<<>>)
    BY DEF OnceIn, InOrder
  <2>2. OnceIn(tasks') /\ InOrder(tasks') /\ OnceIn(todo') /\ InOrder(todo')
    BY <1>1, <1>2, <2>1 DEF TasksInv
  <2>3. \A y : ~Contains(todo', y)
    BY <1>1, <1>5
  <2>4. \A t \in Timer : ~Queued(Start(t))' /\ ~Queued(StopT(t))'
    BY <1>7, TaskFacts
  <2> QED
    BY <2>2, <2>3, <2>4 DEF TasksInv
<1>9. ASSUME NEW u \in Timer PROVE TimerInv(u)'
  <2>1. ~Pending(Start(u))' /\ ~Pending(Start(u)) /\ ~Pending(StopT(u))' /\ ~Pending(StopT(u))
    BY <1>4, <1>7, TaskFacts
  <2> QED
    BY <1>1, <1>2, <2>1, SameTimer
<1>10. TimersInv'
  BY <1>1, <1>2, <1>9 DEF TimersInv
<1>11. HandInv'
  BY <1>1, <1>2 DEF HandInv
<1>12. EndInv'
  BY <1>1, <1>2, <1>4, <1>7 DEF EndInv
<1>13. TypeOK' /\ Alive'
  <2>1. <<>> \in Seq(Task \cup {StopItem})
    OBVIOUS
  <2> QED
    BY <1>1, <1>2, <2>1 DEF TypeOK, Alive
<1> QED
  BY <1>2, <1>8, <1>10, <1>11, <1>12, <1>13 DEF IInv

(* The worker does the start task of a timer: it goes into the timerset,   *)
(* when it is not about to stop, and was not there (timer.c:121-127).      *)
LEMMA RunStartKeeps ==
    ASSUME IInv, RunStart
    PROVE  IInv'
<1>1. /\ Alive /\ at = "run" /\ at' = "tasks" /\ cur' = None /\ cur.kind = "start"
      /\ UNCHANGED <<state, due, rung, tasks, efd, todo, poller, now, fuel, ending>>
  BY DEF RunStart, Goes, Outside
<1>2. /\ PollerInv' /\ EventsWanted'
      /\ TypeOK /\ Alive /\ HandInv /\ TasksInv /\ TimersInv /\ EndInv
  BY <1>1, ThreadFrame
<1>3. PICK t \in Timer : cur = Start(t)
  <2>1. cur \in Task
    BY <1>1, <1>2 DEF HandInv
  <2> QED
    BY <1>1, <2>1, TaskFacts DEF StopT, JobOf
<1>4. cur.of = t
  BY <1>3 DEF Start
<1>5. /\ Start(t) \in Task /\ TimerInv(t) /\ Pending(Start(t)) /\ ~Queued(Start(t))
      /\ \A u \in Timer : cur # u /\ None # u /\ cur # StopT(u)
      /\ \A u \in Timer : u # t => cur # Start(u)
      /\ \A x \in Task : None # x
  <2>1. Start(t) \in Task /\ \A u \in Timer : cur # StopT(u)
    BY <1>3, TaskFacts
  <2>2. \A u \in Timer : u # t => cur # Start(u)
    BY <1>3, TaskFacts
  <2>3. ~Queued(Start(t))
    BY <1>2, <1>3, <2>1 DEF TasksInv
  <2>4. \A u \in Timer : cur # u /\ None # u
    BY <1>3, <2>1, WorkerAssumption
  <2> QED
    BY <1>2, <1>3, <2>1, <2>2, <2>3, <2>4, WorkerAssumption DEF TimersInv, Pending
<1>6. state[t] \in {"ACTIVE", "STOPPING"} /\ ~TimersetHas(timers, t)
  BY <1>2, <1>5 DEF TypeOK, TimerInv
<1>7. /\ \A x : Queued(x)' <=> Queued(x)
      /\ \A u \in Timer : Pending(StopT(u))' <=> Pending(StopT(u))
      /\ \A u \in Timer : u # t => (Pending(Start(u))' <=> Pending(Start(u)))
      /\ ~Pending(Start(t))'
  <2>1. \A x : Queued(x)' <=> Queued(x)
    BY <1>1 DEF Queued
  <2>2. \A u \in Timer : None # Start(u) /\ None # StopT(u)
    BY <1>5, TaskFacts
  <2> QED
    BY <1>1, <1>5, <2>1, <2>2 DEF Pending
<1>8. TasksInv'
  BY <1>1, <1>2, <1>5, TasksFrame
<1>9. \A x \in Task : Pending(x)' => Pending(x)
  BY <1>1, <1>5, <1>7 DEF Pending
<1>10. EndInv'
  BY <1>1, <1>2, <1>7, <1>9 DEF EndInv
<1>11. HandInv'
  BY <1>1, <1>2 DEF HandInv
<1>12. CASE state[t] = "STOPPING"
  <2>1. UNCHANGED <<timeout, timers, abort>>
    BY <1>4, <1>12 DEF RunStart
  <2>2. ASSUME NEW u \in Timer PROVE TimerInv(u)'
    <3>1. CASE u # t
      BY <1>1, <1>2, <1>5, <1>7, <2>1, <3>1, SameTimer
    <3>2. CASE u = t
      <4>1. TimersetHas(timers, t)' <=> TimersetHas(timers, t)
        BY <2>1 DEF TimersetHas
      <4> QED
        BY <1>1, <1>5, <1>6, <1>7, <1>12, <3>2, <4>1 DEF TimerInv
    <3> QED
      BY <3>1, <3>2
  <2>3. TimersInv'
    BY <1>2, <2>1, <2>2 DEF TimersInv
  <2>4. TypeOK' /\ Alive'
    BY <1>1, <1>2, <2>1 DEF TypeOK, Alive
  <2> QED
    BY <1>2, <1>8, <1>10, <1>11, <2>3, <2>4 DEF IInv
<1>13. CASE state[t] = "ACTIVE"
  <2> DEFINE when == now + timeout[t]
  <2>1. timeout[t] >= 0 /\ when >= due[t] /\ when \in Nat /\ rung[t] = 0 /\ due[t] \in Nat
    <3>1. timeout[t] >= 0 /\ when >= due[t] /\ rung[t] = 0
      BY <1>5, <1>13 DEF TimerInv
    <3>2. timeout[t] \in Nat \cup {-1} /\ now \in Nat /\ due[t] \in Nat
      BY <1>2, WorkerAssumption DEF TypeOK
    <3> QED
      BY <3>1, <3>2
  <2>2. /\ timers' = TimersetAdd(timers, t, when) /\ abort' = {}
        /\ timeout' = [timeout EXCEPT ![t] = -1]
    BY <1>4, <1>13, <2>1 DEF RunStart, Until, Failed
  <2> HIDE DEF when
  <2>3. timers \in Seq(Entry) /\ OneEach(timers)
    BY <1>2 DEF TypeOK, TimersInv, Entry, OneEach
  <2>4. /\ timers' \in Seq(Entry) /\ OneEach(timers')
        /\ \A u \in Timer : TimersetHas(timers', u) <=> TimersetHas(timers, u) \/ u = t
        /\ \A i \in 1..Len(timers') : \/ timers'[i] = [timer |-> t, at |-> when]
                                      \/ \E k \in 1..Len(timers) : timers'[i] = timers[k]
    BY <1>6, <2>1, <2>2, <2>3, AddTimeout
  <2>5. ASSUME NEW u \in Timer PROVE TimerInv(u)'
    <3>1. CASE u # t
      <4>1. timeout'[u] = timeout[u]
        BY <1>2, <2>2, <3>1 DEF TypeOK
      <4>2. \A i \in 1..Len(timers') : timers'[i].timer = u =>
               \E k \in 1..Len(timers) : timers'[i] = timers[k]
        BY <2>4, <3>1
      <4> QED
        BY <1>1, <1>2, <1>5, <1>7, <2>4, <3>1, <4>1, <4>2, SameTimer
    <3>2. CASE u = t
      <4>1. timeout'[t] = -1
        BY <1>2, <2>2 DEF TypeOK
      <4>2. \A k \in 1..Len(timers) : timers[k].timer # t
        BY <1>6, <2>3 DEF TimersetHas
      <4>3. \A i \in 1..Len(timers') : timers'[i].timer = t => timers'[i].at >= due[t]
        BY <2>1, <2>4, <4>2
      <4>4. state'[t] = "ACTIVE" /\ due'[t] = due[t] /\ rung'[t] = 0 /\ cur' # t
            /\ ~Pending(StopT(t))' /\ ~Pending(Start(t))'
        BY <1>1, <1>5, <1>7, <1>13, <2>1 DEF TimerInv
      <4> QED
        BY <3>2, <4>1, <4>3, <4>4 DEF TimerInv
    <3> QED
      BY <3>1, <3>2
  <2>6. TimersInv'
    BY <2>4, <2>5 DEF TimersInv, OneEach
  <2>7. TypeOK' /\ Alive'
    BY <1>1, <1>2, <2>2, <2>4 DEF TypeOK, Alive, Entry
  <2> QED
    BY <1>2, <1>8, <1>10, <1>11, <2>6, <2>7 DEF IInv
<1> QED
  BY <1>6, <1>12, <1>13

(* The worker does the stop task of a timer: nothing of it is left, since  *)
(* its start task was done before (timer.c:76-84).                         *)
LEMMA RunStopKeeps ==
    ASSUME IInv, RunStop
    PROVE  /\ IInv'
           /\ \E t \in Timer : state[t] = "STOPPING" /\ state' = [state EXCEPT ![t] = "IDLE"]
<1>1. /\ Alive /\ at = "run" /\ at' = "tasks" /\ cur' = None /\ cur.kind = "stop"
      /\ UNCHANGED <<timeout, due, rung, tasks, efd, todo, poller, now, fuel, ending>>
  BY DEF RunStop, Goes, Outside
<1>2. /\ PollerInv' /\ EventsWanted'
      /\ TypeOK /\ Alive /\ HandInv /\ TasksInv /\ TimersInv /\ EndInv
  BY <1>1, ThreadFrame
<1>3. PICK t \in Timer : cur = StopT(t)
  <2>1. cur \in Task
    BY <1>1, <1>2 DEF HandInv
  <2> QED
    BY <1>1, <2>1, TaskFacts DEF Start, JobOf
<1>4. cur.of = t
  BY <1>3 DEF StopT
<1>5. /\ StopT(t) \in Task /\ TimerInv(t) /\ Pending(StopT(t)) /\ ~Queued(StopT(t))
      /\ ~Queued(Start(t))
      /\ \A u \in Timer : cur # u /\ None # u /\ cur # Start(u)
      /\ \A u \in Timer : u # t => cur # StopT(u)
      /\ \A x \in Task : None # x
  <2>1. StopT(t) \in Task /\ \A u \in Timer : cur # Start(u)
    BY <1>3, TaskFacts
  <2>2. \A u \in Timer : u # t => cur # StopT(u)
    BY <1>3, TaskFacts
  <2>3. ~Queued(StopT(t)) /\ ~Queued(Start(t))
    BY <1>2, <1>3, <2>1 DEF TasksInv
  <2>4. \A u \in Timer : cur # u /\ None # u
    BY <1>3, <2>1, WorkerAssumption
  <2> QED
    BY <1>2, <1>3, <2>1, <2>2, <2>3, <2>4, WorkerAssumption DEF TimersInv, Pending
<1>6. state[t] = "STOPPING" /\ rung[t] = 0
  BY <1>2, <1>5 DEF TypeOK, TimerInv
<1>7. /\ timers' = TimersetRm(timers, t) /\ state' = [state EXCEPT ![t] = "IDLE"] /\ abort' = {}
  BY <1>4, <1>6 DEF RunStop, Removed, Failed
<1>8. /\ \A x : Queued(x)' <=> Queued(x)
      /\ \A u \in Timer : Pending(Start(u))' <=> Pending(Start(u))
      /\ \A u \in Timer : u # t => (Pending(StopT(u))' <=> Pending(StopT(u)))
      /\ ~Pending(StopT(t))' /\ ~Pending(Start(t))'
  <2>1. \A x : Queued(x)' <=> Queued(x)
    BY <1>1 DEF Queued
  <2>2. \A u \in Timer : None # Start(u) /\ None # StopT(u)
    BY <1>5, TaskFacts
  <2> QED
    BY <1>1, <1>5, <2>1, <2>2 DEF Pending
<1>9. TasksInv'
  BY <1>1, <1>2, <1>5, TasksFrame
<1>10. \A x \in Task : Pending(x)' => Pending(x)
  BY <1>1, <1>5, <1>8 DEF Pending
<1>11. EndInv'
  BY <1>1, <1>2, <1>5, <1>7, <1>8, <1>10 DEF EndInv
<1>12. HandInv'
  BY <1>1, <1>2 DEF HandInv
<1>13. timers \in Seq(Entry) /\ OneEach(timers)
  BY <1>2 DEF TypeOK, TimersInv, Entry, OneEach
<1>14. /\ timers' \in Seq(Entry) /\ OneEach(timers')
       /\ \A u : TimersetHas(timers', u) <=> TimersetHas(timers, u) /\ u # t
       /\ \A i \in 1..Len(timers') : \E k \in 1..Len(timers) : timers'[i] = timers[k]
  BY <1>7, <1>13, RemoveTimeout
<1>15. ASSUME NEW u \in Timer PROVE TimerInv(u)'
  <2>1. CASE u # t
    <3>1. state'[u] = state[u]
      BY <1>2, <1>7, <2>1 DEF TypeOK
    <3> QED
      BY <1>1, <1>2, <1>5, <1>8, <1>14, <2>1, <3>1, SameTimer
  <2>2. CASE u = t
    <3>1. state'[t] = "IDLE" /\ rung'[t] = 0 /\ cur' # t
      BY <1>1, <1>2, <1>5, <1>6, <1>7 DEF TypeOK
    <3>2. ~TimersetHas(timers, t)'
      BY <1>14 DEF TimersetHas
    <3> QED
      BY <1>8, <2>2, <3>1, <3>2 DEF TimerInv
  <2> QED
    BY <2>1, <2>2
<1>16. TimersInv'
  BY <1>14, <1>15 DEF TimersInv, OneEach
<1>17. TypeOK' /\ Alive'
  BY <1>1, <1>2, <1>7, <1>14 DEF TypeOK, Alive, Entry
<1> QED
  BY <1>2, <1>6, <1>7, <1>9, <1>11, <1>12, <1>16, <1>17 DEF IInv
-----------------------------------------------------------------------------
(* Each step keeps the inductive invariant.                                *)
LEMMA NextIInv == IInv /\ [Next]_vars => IInv'
<1> SUFFICES ASSUME IInv, [Next]_vars PROVE IInv'
  OBVIOUS
<1>1. CASE UNCHANGED vars
  <2>1. UNCHANGED <<state, timeout, due, rung, timers, tasks, efd, todo, poller, at, cur, now, fuel, ending, abort>>
    BY <1>1 DEF vars, timerVars
  <2>2. \A x : Queued(x)' <=> Queued(x)
    BY <2>1 DEF Queued
  <2>3. \A x : Pending(x)' <=> Pending(x)
    BY <2>1, <2>2 DEF Pending
  <2>4. TypeOK' /\ Alive' /\ EventsWanted' /\ HandInv' /\ PollerInv'
    BY <2>1 DEF IInv, TypeOK, Alive, EventsWanted, HandInv, PollerInv
  <2>5. TasksInv'
    BY <2>1, TasksFrame DEF IInv
  <2>6. TimersInv'
    <3>1. \A u \in Timer : TimerInv(u)'
      BY <2>1, <2>3, SameTimer DEF IInv
    <3> QED
      BY <2>1, <3>1 DEF IInv, TimersInv
  <2>7. EndInv'
    BY <2>1, <2>2, <2>3 DEF IInv, EndInv
  <2> QED
    BY <2>4, <2>5, <2>6, <2>7 DEF IInv
<1>2. CASE \E t \in Timer : StopTimer(t) \/ \E d \in Delay : StartTimer(t, d)
  BY <1>2, StopTimerKeeps, StartTimerKeeps
<1>3. CASE \E j \in Job : ExecuteJob(j) \/ Cancel(j)
  BY <1>3, ExecuteJobKeeps, CancelKeeps
<1>4. CASE Terminate
  BY <1>4, TerminateKeeps
<1>5. CASE Tick
  BY <1>5, StepAside
<1>6. CASE Routine
  BY <1>6, StepAside, TakeTimeoutKeeps, FireKeeps, TakeTasksKeeps, TakeTaskKeeps, EndKeeps,
     RunStartKeeps, RunStopKeeps DEF Routine
<1>7. CASE Idle
  BY <1>1, <1>7 DEF Idle
<1> QED
  BY <1>1, <1>2, <1>3, <1>4, <1>5, <1>6, <1>7 DEF Next

(* The inductive invariant holds in every reachable state.                 *)
THEOREM Invariance == Spec => []IInv
<1>1. Init => IInv
  BY InitIInv
<1>2. IInv /\ [Next]_vars => IInv'
  BY NextIInv
<1> QED
  BY <1>1, <1>2, PTL DEF Spec

(* Every variable has the values the code gives it.                        *)
THEOREM TypeCorrect == Spec => []TypeOK
<1>1. IInv => TypeOK
  BY DEF IInv
<1> QED
  BY <1>1, Invariance, PTL

(* No assertion of timer.c, queue.c or worker_posix.inc is met, whatever   *)
(* the order of timeouts, starts, stops and tasks.                         *)
THEOREM NothingFails == Spec => []NoAssertionFails
<1>1. IInv => NoAssertionFails
  BY DEF IInv, NoAssertionFails
<1> QED
  BY <1>1, Invariance, PTL

(* Nothing of a stopped timer is left with the worker, and at its end the  *)
(* worker throws nothing away.                                             *)
THEOREM TimerIsFree == Spec => []StoppedTimerIsFree
<1>1. IInv => StoppedTimerIsFree
  <2> SUFFICES ASSUME IInv PROVE StoppedTimerIsFree
    OBVIOUS
  <2>1. TypeOK /\ HandInv /\ TimersInv /\ EndInv
    BY DEF IInv
  <2>2. ASSUME NEW t \in Timer, state[t] = "IDLE"
        PROVE  ~TimersetHas(timers, t) /\ cur # t /\ ~Pending(Start(t)) /\ ~Pending(StopT(t))
    BY <2>1, <2>2 DEF TimersInv, TimerInv
  <2>3. ASSUME at = "ended" PROVE tasks = <<>> /\ todo = <<>> /\ timers = <<>>
    <3>1. ending /\ \A x \in Task : ~Queued(x)
      BY <2>1, <2>3 DEF EndInv, Pending
    <3>2. \A x \in Item : ~Queued(x)
      BY <2>1, <2>3, <3>1 DEF EndInv, Item
    <3>3. tasks = <<>> /\ todo = <<>>
      <4>1. ASSUME NEW q \in Seq(Item), \A x \in Item : ~Contains(q, x) PROVE q = <<>>
        <5>1. q # <<>> => Head(q) \in Item /\ Head(q) = q[1] /\ Len(q) >= 1
          BY TailFacts
        <5> QED
          BY <4>1, <5>1 DEF Contains
      <4> QED
        BY <2>1, <3>2, <4>1 DEF TypeOK, Item, Queued
    <3>4. timers = <<>>
      <4>1. timers \in Seq(Entry) /\ OneEach(timers)
        BY <2>1 DEF TypeOK, TimersInv, Entry, OneEach
      <4>2. ASSUME timers # <<>> PROVE FALSE
        <5>1. Head(timers).timer \in Timer /\ TimersetHas(timers, Head(timers).timer)
          BY <4>1, <4>2, TakeFirst DEF Entry
        <5>2. state[Head(timers).timer] = "IDLE"
          BY <2>1, <3>1, <5>1 DEF EndInv
        <5> QED
          BY <2>2, <5>1, <5>2
      <4> QED
        BY <4>2
    <3> QED
      BY <3>3, <3>4
  <2> QED
    BY <2>2, <2>3 DEF StoppedTimerIsFree
<1> QED
  BY <1>1, Invariance, PTL

(* Only a descriptor that is in the poll set gets an event, and one it     *)
(* still wants.                                                            *)
THEOREM EventIsWanted == Spec => []EventsWanted
<1>1. IInv => EventsWanted
  BY DEF IInv
<1> QED
  BY <1>1, Invariance, PTL
-----------------------------------------------------------------------------
(* The timers of the worker are alarms: a start arms one, the handling of  *)
(* its timeout rings it, a stop halts it and the stop task is the end of   *)
(* that; every other step of the worker is none of an alarm's.             *)
stBar == [t \in Timer |-> Status(t)]

(* The status of the alarms is a function of state and rung.               *)
LEMMA SameStatus ==
    ASSUME UNCHANGED <<state, rung>>
    PROVE  stBar' = stBar
BY DEF stBar, Status

(* A step on one timer changes the status of one alarm.                    *)
LEMMA StatusChanges ==
    ASSUME NEW t \in Timer, \A u \in Timer : u # t => state'[u] = state[u] /\ rung'[u] = rung[u]
    PROVE  stBar' = [stBar EXCEPT ![t] = Status(t)']
<1>1. \A u \in Timer : u # t => Status(u)' = Status(u)
  BY DEF Status
<1> QED
  BY <1>1 DEF stBar

(* The initial states are initial states of the alarms.                    *)
LEMMA InitAlarm == Init => AlarmOf!AlarmInit
<1> SUFFICES ASSUME Init PROVE AlarmOf!AlarmInit
  OBVIOUS
<1>1. \A t \in Timer : Status(t) = "idle"
  BY DEF Init, TimersInit, Status
<1> QED
  BY <1>1 DEF Init, TimersInit, AlarmOf!AlarmInit

(* Every step is a step of the alarms, or a stutter.                       *)
LEMMA StepAlarm ==
    ASSUME IInv, IInv', [Next]_vars
    PROVE  [AlarmOf!AlarmNext]_<<stBar, due, now>>
<1> USE DEF AlarmOf!AlarmNext
<1>1. TypeOK /\ TypeOK' /\ TimersInv /\ TimersInv' /\ HandInv
  BY DEF IInv
<1>2. CASE UNCHANGED <<state, rung, due, now>>
  BY <1>2, SameStatus
<1>3. ASSUME NEW t \in Timer, StopTimer(t) PROVE AlarmOf!Halt(t)
  <2>1. /\ state[t] = "ACTIVE" /\ state' = [state EXCEPT ![t] = "STOPPING"]
        /\ due' = [due EXCEPT ![t] = 0] /\ rung' = [rung EXCEPT ![t] = 0] /\ now' = now
    BY <1>3 DEF StopTimer, ToBeStopped, Call
  <2>2. stBar' = [stBar EXCEPT ![t] = Status(t)']
    BY <1>1, <2>1, StatusChanges DEF TypeOK
  <2>3. Status(t)' = "stopping"
    BY <1>1, <2>1 DEF Status, TypeOK
  <2>4. stBar[t] \in {"armed", "rung"}
    <3>1. rung[t] \in {0, 1}
      BY <1>1, <2>1 DEF TimersInv, TimerInv
    <3> QED
      BY <2>1, <3>1 DEF Status, stBar
  <2> QED
    BY <2>1, <2>2, <2>3, <2>4 DEF AlarmOf!Halt, AlarmOf!Become, stBar
<1>4. ASSUME NEW t \in Timer, NEW d \in Delay, StartTimer(t, d) PROVE AlarmOf!Arm(t, d)
  <2>1. /\ state[t] = "IDLE" /\ state' = [state EXCEPT ![t] = "ACTIVE"]
        /\ due' = [due EXCEPT ![t] = now + d] /\ rung' = rung /\ now' = now
    BY <1>4 DEF StartTimer, Activate, Call
  <2>2. stBar' = [stBar EXCEPT ![t] = Status(t)']
    BY <1>1, <2>1, StatusChanges DEF TypeOK
  <2>3. rung[t] = 0
    BY <1>1, <2>1 DEF TimersInv, TimerInv
  <2>4. Status(t)' = "armed"
    BY <1>1, <2>1, <2>3 DEF Status, TypeOK
  <2>5. stBar[t] = "idle"
    BY <2>1 DEF Status, stBar
  <2> QED
    BY <2>1, <2>2, <2>4, <2>5 DEF AlarmOf!Arm, AlarmOf!Become, stBar
<1>5. CASE Tick
  <2>1. UNCHANGED <<state, rung, due>> /\ now' = now + 1
    BY <1>5 DEF Tick, timerVars
  <2> QED
    BY <2>1, SameStatus DEF AlarmOf!Pass, stBar
<1>6. CASE Fire
  <2>1. PICK t \in Timer : t = cur /\ TimerInv(t)
    BY <1>1, <1>6 DEF Fire, Goes, HandInv, TimersInv
  <2>2. UNCHANGED <<state, due, now>>
    BY <1>6 DEF Fire, Outside
  <2>3. CASE state[t] = "STOPPING"
    <3>1. rung' = rung
      BY <1>6, <2>1, <2>3 DEF Fire, DropLate
    <3> QED
      BY <1>2, <2>2, <3>1
  <2>4. CASE state[t] = "ACTIVE"
    <3>1. rung' = [rung EXCEPT ![t] = @ + 1] /\ rung[t] = 0 /\ now >= due[t]
      BY <1>6, <2>1, <2>4 DEF Fire, DropLate, TimerInv
    <3>2. stBar' = [stBar EXCEPT ![t] = Status(t)']
      BY <1>1, <2>2, <3>1, StatusChanges DEF TypeOK
    <3>3. Status(t)' = "rung" /\ stBar[t] = "armed"
      BY <1>1, <2>2, <2>4, <3>1 DEF Status, stBar, TypeOK
    <3>4. AlarmOf!Ring(t)
      BY <2>2, <3>1, <3>2, <3>3 DEF AlarmOf!Ring, AlarmOf!Become, stBar
    <3> QED
      BY <3>4
  <2> QED
    BY <1>1, <2>1, <2>3, <2>4 DEF TimerInv, TypeOK
<1>7. CASE RunStop
  <2>1. PICK t \in Timer : state[t] = "STOPPING" /\ state' = [state EXCEPT ![t] = "IDLE"]
    BY <1>7, RunStopKeeps
  <2>2. UNCHANGED <<due, rung, now>>
    BY <1>7 DEF RunStop, Outside
  <2>3. stBar' = [stBar EXCEPT ![t] = Status(t)']
    BY <1>1, <2>1, <2>2, StatusChanges DEF TypeOK
  <2>4. Status(t)' = "idle" /\ stBar[t] = "stopping"
    BY <1>1, <2>1 DEF Status, stBar, TypeOK
  <2>5. AlarmOf!Halted(t)
    BY <2>2, <2>3, <2>4 DEF AlarmOf!Halted, AlarmOf!Become, stBar
  <2> QED
    BY <2>5
<1>8. CASE Routine /\ ~Fire /\ ~RunStop
  <2>1. UNCHANGED <<state, rung, due, now>>
    BY <1>8 DEF Routine, Wait, TakeTimeout, NoTimeout, TakeEvent, TakeTasks, NoEvent, HandleFd,
       TakeTask, NoTask, End, RunStart, RunJob, Outside, timerVars
  <2> QED
    BY <1>2, <2>1
<1>9. CASE (\E j \in Job : ExecuteJob(j) \/ Cancel(j)) \/ Terminate
  <2>1. UNCHANGED <<state, rung, due, now>>
    BY <1>9 DEF ExecuteJob, Cancel, Terminate, Call, timerVars
  <2> QED
    BY <1>2, <2>1
<1>10. CASE UNCHANGED vars
  BY <1>2, <1>10 DEF vars, timerVars
<1> QED
  BY <1>3, <1>4, <1>5, <1>6, <1>7, <1>8, <1>9, <1>10 DEF Next, Idle

(* A timer of the worker rings at most once, in time, and not after it was *)
(* stopped: the worker with its tasks and timerset implements alarms.      *)
THEOREM TimersAreAlarms == Spec => RingsAsPromised
<1>1. Init => AlarmOf!AlarmInit
  BY InitAlarm
<1>2. IInv /\ IInv' /\ [Next]_vars => [AlarmOf!AlarmNext]_AlarmOf!alarmVars
  BY StepAlarm DEF AlarmOf!alarmVars, stBar
<1> QED
  BY <1>1, <1>2, Invariance, PTL DEF Spec, RingsAsPromised, AlarmOf!AlarmSpec
=============================================================================
