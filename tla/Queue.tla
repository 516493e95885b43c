-------------------------------- MODULE Queue --------------------------------
(***************************************************************************)
(* utils/queue.c: the intrusive singly linked queue that carries events    *)
(* and worker tasks.  A queue is a pair of pointers; the links live inside *)
(* the items, so that copying struct nn_queue copies two pointers and no   *)
(* item.  Items are model values; NULL and NOTINQUEUE are no items.        *)
(***************************************************************************)

NULL       == "NULL"
NOTINQUEUE == "NOTINQUEUE"

QueueHead(Item) == [head : Item \cup {NULL}, tail : Item \cup {NULL}]
EmptyQueue      == [head |-> NULL, tail |-> NULL]

QueueEmpty(q) == q.head = NULL

(* nn_queue_push: the links and the queue afterwards. *)
PushNext(next, q, i) ==
    [j \in DOMAIN next |-> IF j = i THEN NULL
                           ELSE IF j = q.tail THEN i ELSE next[j]]
Push(q, i) == [head |-> IF q.head = NULL THEN i ELSE q.head, tail |-> i]

(* nn_queue_pop on a queue that is not empty; q.head is the result. *)
PopNext(next, q) == [next EXCEPT ![q.head] = NOTINQUEUE]
Pop(next, q) ==
    [head |-> next[q.head], tail |-> IF next[q.head] = NULL THEN NULL ELSE q.tail]

(* The items a walk from the head along the links comes across.            *)
Chain(next, q) ==
    {i \in DOMAIN next :
        \A S \in SUBSET DOMAIN next :
            (/\ q.head \in DOMAIN next => q.head \in S
             /\ \A j \in S : next[j] \in DOMAIN next => next[j] \in S)
            => i \in S}

(* Head and tail belong to the same chain, which ends where tail says.     *)
WellLinked(next, q) ==
    IF q.head = NULL THEN q.tail = NULL
    ELSE /\ q.tail \in Chain(next, q)
         /\ \A i \in Chain(next, q) : next[i] = NULL <=> i = q.tail
         /\ \A i \in Chain(next, q) : next[i] # NOTINQUEUE
=============================================================================
