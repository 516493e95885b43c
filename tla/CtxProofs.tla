----------------------------- MODULE CtxProofs -----------------------------
(***************************************************************************)
(* Proofs about Ctx for any contexts, threads, events and fuel.            *)
(***************************************************************************)
EXTENDS Ctx, FiniteSetTheorems, WellFoundedInduction, TLAPS

(* Where an event can be: in a queue of a context, in a copy on a thread's *)
(* stack, in the hands of a thread, or nowhere.                            *)
Slot(k, x, n) == [kind |-> k, of |-> x, nr |-> n]
(* The slots by name.                                                      *)
Own(c)        == Slot("own", c, 0)
Outgoing(c)   == Slot("outgoing", c, 0)
Copy(t, n)    == Slot("copy", t, n)
Carried(t)    == Slot("carried", t, 0)
Nowhere       == Slot("nowhere", None, 0)

(* Every slot there can be.                                                *)
Slots == [kind : {"own", "outgoing", "copy", "carried", "nowhere"},
          of : Ctxs \cup Threads \cup {None}, nr : Nat]

(* Several intrusive queues p, p in D, with heads hd[p] and tails tl[p],    *)
(* that share the links nx.  own says in which of them an item is, and pos  *)
(* in which order.                                                          *)
(* An item of queue p lies between the head and the tail, and its link     *)
(* leads to the next position of the same queue or, at the tail, nowhere.  *)
Within(e, p, hd, tl, nx, own, pos) ==
    /\ hd[p] # NULL
    /\ pos[hd[p]] <= pos[e] /\ pos[e] <= pos[tl[p]]
    /\ nx[e] # NOTINQUEUE
    /\ nx[e] = NULL => e = tl[p]
    /\ nx[e] # NULL => own[nx[e]] = p /\ pos[nx[e]] = pos[e] + 1

(* Head and tail of a queue: both NULL, or both in the queue and the tail  *)
(* without a successor.                                                    *)
Ends(p, hd, tl, nx, own) ==
    IF hd[p] = NULL THEN tl[p] = NULL
    ELSE tl[p] # NULL /\ own[hd[p]] = p /\ own[tl[p]] = p /\ nx[tl[p]] = NULL

(* The queues of D are chains that share no item, and an item in none of   *)
(* them has the link NN_QUEUE_NOTINQUEUE.                                  *)
Linked(D, hd, tl, nx, own, pos) ==
    /\ \A p \in D : Ends(p, hd, tl, nx, own)
    /\ \A e \in Events : own[e] \in D => Within(e, own[e], hd, tl, nx, own, pos)
    /\ \A e \in Events : own[e] \notin D => nx[e] = NOTINQUEUE
    /\ \A e, f \in Events : own[e] \in D /\ own[e] = own[f] /\ pos[e] = pos[f] => e = f

(* What a next link of an item and the head or tail of a queue can hold.   *)
Links    == [Events -> Events \cup {NULL, NOTINQUEUE}]
Pointers(D) == [D -> Events \cup {NULL}]

(* nn_queue_push (queue.c) on a queue without a head: the item becomes     *)
(* head and tail, and the queues stay chains that share no item.           *)
LEMMA PushEmpty ==
    ASSUME NEW D \in SUBSET Slots, NEW hd \in Pointers(D), NEW tl \in Pointers(D),
           NEW nx \in Links, NEW own \in [Events -> Slots], NEW pos \in [Events -> Nat],
           Linked(D, hd, tl, nx, own, pos),
           NEW p \in D, NEW i \in Events, own[i] \notin D, hd[p] = NULL
    PROVE  Linked(D, [hd EXCEPT ![p] = i], [tl EXCEPT ![p] = i],
                  [nx EXCEPT ![i] = NULL], [own EXCEPT ![i] = p], pos)
<1> USE CtxAssumption DEF Links, Pointers
<1> DEFINE hd2 == [hd EXCEPT ![p] = i]
           tl2 == [tl EXCEPT ![p] = i]
           nx2 == [nx EXCEPT ![i] = NULL]
           own2 == [own EXCEPT ![i] = p]
<1>1. \A e \in Events : own[e] # p
  BY DEF Linked, Within
<1>2. /\ hd2[p] = i /\ tl2[p] = i /\ nx2[i] = NULL /\ own2[i] = p
      /\ \A q \in D : q # p => hd2[q] = hd[q] /\ tl2[q] = tl[q]
      /\ \A e \in Events : e # i => nx2[e] = nx[e] /\ own2[e] = own[e]
  OBVIOUS
<1> HIDE DEF hd2, tl2, nx2, own2
<1>3. \A q \in D : Ends(q, hd2, tl2, nx2, own2)
  BY <1>2 DEF Ends, Linked
<1>4. ASSUME NEW e \in Events, own2[e] \in D
      PROVE  Within(e, own2[e], hd2, tl2, nx2, own2, pos)
  <2>1. CASE e = i
    BY <2>1, <1>2 DEF Within, NULL, NOTINQUEUE
  <2>2. CASE e # i
    <3>1. own[e] \in D /\ own[e] # p /\ own2[e] = own[e]
      BY <2>2, <1>1, <1>2, <1>4
    <3>2. Within(e, own[e], hd, tl, nx, own, pos)
      BY <3>1 DEF Linked
    <3>3. nx[e] # i
      BY <3>1, <3>2 DEF Within
    <3> QED
      BY <3>1, <3>2, <3>3, <2>2, <1>2 DEF Within
  <2> QED
    BY <2>1, <2>2
<1>5. \A e \in Events : own2[e] \notin D => nx2[e] = NOTINQUEUE
  BY <1>2 DEF Linked
<1>6. \A e, f \in Events : own2[e] \in D /\ own2[e] = own2[f] /\ pos[e] = pos[f] => e = f
  BY <1>1, <1>2 DEF Linked
<1>7. Linked(D, hd2, tl2, nx2, own2, pos)
  BY <1>3, <1>4, <1>5, <1>6 DEF Linked
<1> QED
  BY <1>7 DEF hd2, tl2, nx2, own2

(* nn_queue_push (queue.c) on a queue with a head: the item is linked      *)
(* behind the tail and takes the position after it; no other queue         *)
(* notices.                                                                *)
LEMMA PushBehind ==
    ASSUME NEW D \in SUBSET Slots, NEW hd \in Pointers(D), NEW tl \in Pointers(D),
           NEW nx \in Links, NEW own \in [Events -> Slots], NEW pos \in [Events -> Nat],
           Linked(D, hd, tl, nx, own, pos),
           NEW p \in D, NEW i \in Events, own[i] \notin D, hd[p] # NULL
    PROVE  /\ tl[p] \in Events /\ tl[p] # i
           /\ Linked(D, hd, [tl EXCEPT ![p] = i],
                     [nx EXCEPT ![i] = NULL, ![tl[p]] = i], [own EXCEPT ![i] = p],
                     [pos EXCEPT ![i] = pos[tl[p]] + 1])
<1> USE CtxAssumption DEF Links, Pointers
<1> DEFINE t == tl[p]
           tl2 == [tl EXCEPT ![p] = i]
           nx2 == [nx EXCEPT ![i] = NULL, ![tl[p]] = i]
           own2 == [own EXCEPT ![i] = p]
           pos2 == [pos EXCEPT ![i] = pos[tl[p]] + 1]
<1>1. t \in Events /\ t # i /\ own[t] = p /\ nx[t] = NULL
  BY DEF Linked, Ends
<1>2. /\ tl2[p] = i /\ nx2[i] = NULL /\ nx2[t] = i /\ own2[i] = p /\ pos2[i] = pos[t] + 1
      /\ \A q \in D : q # p => tl2[q] = tl[q]
      /\ \A e \in Events : e # i /\ e # t => nx2[e] = nx[e]
      /\ \A e \in Events : e # i => own2[e] = own[e] /\ pos2[e] = pos[e]
      /\ \A e \in Events : pos[e] \in Nat
  BY <1>1
<1> HIDE DEF t, tl2, nx2, own2, pos2
<1>3. \A q \in D : Ends(q, hd, tl2, nx2, own2)
  <2> SUFFICES ASSUME NEW q \in D PROVE Ends(q, hd, tl2, nx2, own2)
    OBVIOUS
  <2>1. Ends(q, hd, tl, nx, own)
    BY DEF Linked
  <2>2. CASE q = p
    BY <2>1, <2>2, <1>1, <1>2 DEF Ends
  <2>3. CASE q # p
    <3>1. tl[q] # NULL => tl[q] # t /\ tl[q] # i /\ tl[q] \in Events
      BY <2>1, <2>3, <1>1 DEF Ends
    <3>2. hd[q] # NULL => hd[q] # i
      BY <2>1 DEF Ends
    <3> QED
      BY <2>1, <2>3, <3>1, <3>2, <1>2 DEF Ends
  <2> QED
    BY <2>2, <2>3
<1>4. ASSUME NEW e \in Events, own2[e] \in D
      PROVE  Within(e, own2[e], hd, tl2, nx2, own2, pos2)
  <2>0. /\ Within(t, p, hd, tl, nx, own, pos) /\ Ends(p, hd, tl, nx, own)
        /\ hd[p] \in Events /\ hd[p] # i
    BY <1>1 DEF Linked, Ends
  <2>1. CASE e = i
    BY <2>0, <2>1, <1>1, <1>2 DEF Within
  <2>2. CASE e = t
    BY <2>0, <2>2, <1>1, <1>2 DEF Within
  <2>3. CASE e # i /\ e # t
    <3>1. own[e] \in D /\ own2[e] = own[e] /\ Within(e, own[e], hd, tl, nx, own, pos)
      BY <2>3, <1>2, <1>4 DEF Linked
    <3>2. nx[e] # i /\ nx2[e] = nx[e] /\ (nx[e] = NULL \/ nx[e] \in Events)
      BY <3>1, <2>3, <1>2 DEF Within
    <3>3. CASE own[e] = p
      BY <3>1, <3>2, <3>3, <2>0, <2>3, <1>1, <1>2 DEF Within, t
    <3>4. CASE own[e] # p
      <4>1. Ends(own[e], hd, tl, nx, own) /\ tl2[own[e]] = tl[own[e]]
        BY <3>1, <3>4, <1>2 DEF Linked
      <4>2. /\ hd[own[e]] \in Events /\ hd[own[e]] # i
            /\ tl[own[e]] \in Events /\ tl[own[e]] # i
        BY <4>1, <3>1 DEF Ends, Within
      <4> QED
        BY <4>1, <4>2, <3>1, <3>2, <2>3, <1>2 DEF Within
    <3> QED
      BY <3>3, <3>4
  <2> QED
    BY <2>1, <2>2, <2>3
<1>5. \A e \in Events : own2[e] \notin D => nx2[e] = NOTINQUEUE
  BY <1>1, <1>2 DEF Linked
<1>6. \A e, f \in Events : own2[e] \in D /\ own2[e] = own2[f] /\ pos2[e] = pos2[f] => e = f
  <2>1. \A e \in Events : own[e] = p => pos[e] <= pos[t]
    BY DEF Linked, Within, t
  <2> QED
    BY <2>1, <1>1, <1>2 DEF Linked
<1>7. Linked(D, hd, tl2, nx2, own2, pos2)
  BY <1>3, <1>4, <1>5, <1>6 DEF Linked
<1> QED
  BY <1>1, <1>7 DEF t, tl2, nx2, own2, pos2

(* nn_queue_pop (queue.c): the head is an item of this queue, the link it  *)
(* leaves becomes the head, and the tail is reset when that was the last   *)
(* one; the popped item may then be counted to any slot z that is not a    *)
(* queue.                                                                  *)
LEMMA PopFirst ==
    ASSUME NEW D \in SUBSET Slots, NEW hd \in Pointers(D), NEW tl \in Pointers(D),
           NEW nx \in Links, NEW own \in [Events -> Slots], NEW pos \in [Events -> Nat],
           Linked(D, hd, tl, nx, own, pos),
           NEW p \in D, hd[p] # NULL, NEW z \in Slots, z \notin D
    PROVE  /\ hd[p] \in Events /\ own[hd[p]] = p /\ nx[hd[p]] # NOTINQUEUE
           /\ Linked(D, [hd EXCEPT ![p] = nx[hd[p]]],
                     [tl EXCEPT ![p] = IF nx[hd[p]] = NULL THEN NULL ELSE tl[p]],
                     [nx EXCEPT ![hd[p]] = NOTINQUEUE], [own EXCEPT ![hd[p]] = z], pos)
<1> USE CtxAssumption DEF Links, Pointers
<1> DEFINE h == hd[p]
           n == nx[hd[p]]
           hd2 == [hd EXCEPT ![p] = nx[hd[p]]]
           tl2 == [tl EXCEPT ![p] = IF nx[hd[p]] = NULL THEN NULL ELSE tl[p]]
           nx2 == [nx EXCEPT ![hd[p]] = NOTINQUEUE]
           own2 == [own EXCEPT ![hd[p]] = z]
<1>1. /\ h \in Events /\ own[h] = p /\ Ends(p, hd, tl, nx, own)
      /\ Within(h, p, hd, tl, nx, own, pos) /\ n # NOTINQUEUE
  BY DEF Linked, Ends, Within
<1>2. /\ hd2[p] = n /\ tl2[p] = IF n = NULL THEN NULL ELSE tl[p]
      /\ nx2[h] = NOTINQUEUE /\ own2[h] = z /\ (n = NULL \/ n \in Events) /\ n = nx[h]
      /\ \A q \in D : q # p => hd2[q] = hd[q] /\ tl2[q] = tl[q]
      /\ \A e \in Events : e # h => nx2[e] = nx[e] /\ own2[e] = own[e]
      /\ \A e \in Events : pos[e] \in Nat
  BY <1>1
<1>3. \A e \in Events : own[e] \in D => nx[e] # h
  <2> SUFFICES ASSUME NEW e \in Events, own[e] \in D, nx[e] = h PROVE FALSE
    OBVIOUS
  <2>1. Within(e, own[e], hd, tl, nx, own, pos)
    BY DEF Linked
  <2>2. own[e] = p /\ pos[h] = pos[e] + 1
    BY <2>1, <1>1 DEF Within
  <2>3. pos[h] <= pos[e]
    BY <2>1, <2>2 DEF Within
  <2> QED
    BY <2>2, <2>3, <1>1, <1>2
<1> HIDE DEF h, n, hd2, tl2, nx2, own2
<1>4. n # NULL => own[n] = p /\ pos[n] = pos[h] + 1 /\ n # h /\ tl[p] # h /\ tl[p] \in Events
  BY <1>1, <1>2, <1>3 DEF Within, Ends, h
<1>5. ASSUME NEW e \in Events, e # h, own[e] = p
      PROVE  n # NULL /\ pos[n] <= pos[e]
  <2>1. Within(e, p, hd, tl, nx, own, pos) /\ pos[e] # pos[h]
    BY <1>5, <1>1 DEF Linked
  <2>2. pos[h] < pos[e] /\ pos[e] <= pos[tl[p]]
    BY <2>1, <1>1, <1>2 DEF Within, h
  <2>3. n = NULL => h = tl[p]
    BY <1>1, <1>2 DEF Within
  <2> QED
    BY <2>2, <2>3, <1>1, <1>2, <1>4
<1>6. \A q \in D : Ends(q, hd2, tl2, nx2, own2)
  <2> SUFFICES ASSUME NEW q \in D PROVE Ends(q, hd2, tl2, nx2, own2)
    OBVIOUS
  <2>1. Ends(q, hd, tl, nx, own)
    BY DEF Linked
  <2>2. CASE q = p
    BY <2>1, <2>2, <1>1, <1>2, <1>4 DEF Ends
  <2>3. CASE q # p
    <3>1. hd[q] # NULL => /\ hd[q] \in Events /\ hd[q] # h
                          /\ tl[q] \in Events /\ tl[q] # h
      BY <2>1, <2>3, <1>1 DEF Ends
    <3> QED
      BY <2>1, <2>3, <3>1, <1>2 DEF Ends
  <2> QED
    BY <2>2, <2>3
<1>7. ASSUME NEW e \in Events, own2[e] \in D
      PROVE  Within(e, own2[e], hd2, tl2, nx2, own2, pos)
  <2>1. e # h /\ own2[e] = own[e] /\ nx2[e] = nx[e]
    BY <1>2, <1>7
  <2>2. Within(e, own[e], hd, tl, nx, own, pos) /\ nx[e] # h
    BY <2>1, <1>3, <1>7 DEF Linked
  <2>3. nx[e] # NULL => nx[e] \in Events /\ own2[nx[e]] = own[nx[e]]
    BY <2>2, <1>2 DEF Within
  <2>4. CASE own[e] = p
    BY <2>1, <2>2, <2>3, <2>4, <1>2, <1>5 DEF Within
  <2>5. CASE own[e] # p
    BY <2>1, <2>2, <2>3, <2>5, <1>2, <1>7 DEF Within
  <2> QED
    BY <2>4, <2>5
<1>8. \A e \in Events : own2[e] \notin D => nx2[e] = NOTINQUEUE
  BY <1>2 DEF Linked
<1>9. \A e, f \in Events : own2[e] \in D /\ own2[e] = own2[f] /\ pos[e] = pos[f] => e = f
  BY <1>2 DEF Linked
<1>10. Linked(D, hd2, tl2, nx2, own2, pos)
  BY <1>6, <1>7, <1>8, <1>9 DEF Linked
<1> QED
  BY <1>1, <1>10 DEF h, n, hd2, tl2, nx2, own2

(* nn_ctx_leave, lines 50 and 51 (ctx.c): the head and tail of queue p are *)
(* copied to a new queue z and p starts afresh. The items do not move, and *)
(* all of them belong to z afterwards.                                     *)
LEMMA MoveWhole ==
    ASSUME NEW D \in SUBSET Slots, NEW hd \in Pointers(D), NEW tl \in Pointers(D),
           NEW nx \in Links, NEW own \in [Events -> Slots], NEW pos \in [Events -> Nat],
           Linked(D, hd, tl, nx, own, pos),
           NEW p \in D, NEW z \in Slots, z \notin D, \A e \in Events : own[e] # z,
           NEW hd2, hd2[z] = hd[p], hd2[p] = NULL, \A q \in D : q # p => hd2[q] = hd[q],
           NEW tl2, tl2[z] = tl[p], tl2[p] = NULL, \A q \in D : q # p => tl2[q] = tl[q],
           NEW own2, \A e \in Events : own2[e] = IF own[e] = p THEN z ELSE own[e]
    PROVE  Linked(D \cup {z}, hd2, tl2, nx, own2, pos)
<1> USE CtxAssumption DEF Links, Pointers
<1>1. p # z
  OBVIOUS
<1>2. ASSUME NEW e \in Events, own2[e] \in D \cup {z}
      PROVE  own[e] \in D
  BY <1>1, <1>2
<1>3. \A q \in D \cup {z} : Ends(q, hd2, tl2, nx, own2)
  <2> SUFFICES ASSUME NEW q \in D \cup {z} PROVE Ends(q, hd2, tl2, nx, own2)
    OBVIOUS
  <2>1. CASE q = z
    BY <2>1, <1>1 DEF Linked, Ends
  <2>2. CASE q = p
    BY <2>2, <1>1 DEF Ends
  <2>3. CASE q # z /\ q # p
    BY <2>3, <1>1 DEF Linked, Ends
  <2> QED
    BY <2>1, <2>2, <2>3
<1>4. ASSUME NEW e \in Events, own2[e] \in D \cup {z}
      PROVE  Within(e, own2[e], hd2, tl2, nx, own2, pos)
  <2>1. own[e] \in D /\ Within(e, own[e], hd, tl, nx, own, pos)
    BY <1>2, <1>4 DEF Linked
  <2>2. nx[e] # NULL => nx[e] \in Events /\ own2[nx[e]] = own2[e]
    BY <2>1, <1>1 DEF Within
  <2>3. hd2[own2[e]] = hd[own[e]] /\ tl2[own2[e]] = tl[own[e]]
    BY <2>1, <1>1
  <2> QED
    BY <2>1, <2>2, <2>3 DEF Within
<1>5. ASSUME NEW e \in Events, own2[e] \notin D \cup {z}
      PROVE  nx[e] = NOTINQUEUE
  <2>1. own[e] # p /\ own2[e] = own[e]
    BY <1>1, <1>5
  <2> QED
    BY <2>1, <1>5 DEF Linked
<1>6. ASSUME NEW e \in Events, NEW f \in Events,
             own2[e] \in D \cup {z}, own2[e] = own2[f], pos[e] = pos[f]
      PROVE  e = f
  <2>1. own[e] \in D /\ own[f] \in D
    BY <1>2, <1>6
  <2>2. own[e] = own[f]
    BY <2>1, <1>1, <1>6
  <2> QED
    BY <2>1, <2>2, <1>6 DEF Linked
<1>7. Linked(D \cup {z}, hd2, tl2, nx, own2, pos)
  BY <1>3, <1>4, <1>5, <1>6 DEF Linked
<1> QED
  BY <1>7

(* The end of nn_ctx_leave (ctx.c): the local copy goes out of scope when  *)
(* it is empty, so no item is lost with it.                                *)
LEMMA DropEmpty ==
    ASSUME NEW D \in SUBSET Slots, NEW hd \in Pointers(D), NEW tl \in Pointers(D),
           NEW nx \in Links, NEW own \in [Events -> Slots], NEW pos \in [Events -> Nat],
           Linked(D, hd, tl, nx, own, pos), NEW p \in D, hd[p] = NULL,
           NEW D2, D2 = D \ {p},
           NEW hd2, \A q \in D2 : hd2[q] = hd[q],
           NEW tl2, \A q \in D2 : tl2[q] = tl[q]
    PROVE  /\ \A e \in Events : own[e] # p
           /\ Linked(D2, hd2, tl2, nx, own, pos)
<1> USE CtxAssumption DEF Links, Pointers
<1>1. \A e \in Events : own[e] # p
  BY DEF Linked, Within
<1>2. \A q \in D2 : Ends(q, hd2, tl2, nx, own)
  BY DEF Linked, Ends
<1>3. \A e \in Events : own[e] \in D2 => Within(e, own[e], hd2, tl2, nx, own, pos)
  BY DEF Linked, Within
<1> QED
  BY <1>1, <1>2, <1>3 DEF Linked

(* An item that is in no queue may pass from a thread's hands to nowhere   *)
(* (nn_ctx_leave, lines 60 and 61) without a queue noticing.               *)
LEMMA Elsewhere ==
    ASSUME NEW D \in SUBSET Slots, NEW hd \in Pointers(D), NEW tl \in Pointers(D),
           NEW nx \in Links, NEW own \in [Events -> Slots], NEW pos \in [Events -> Nat],
           Linked(D, hd, tl, nx, own, pos),
           NEW i \in Events, own[i] \notin D, NEW z \in Slots, z \notin D
    PROVE  Linked(D, hd, tl, nx, [own EXCEPT ![i] = z], pos)
<1> USE DEF Links, Pointers
<1> DEFINE own2 == [own EXCEPT ![i] = z]
<1>1. own2[i] = z /\ \A e \in Events : e # i => own2[e] = own[e]
  OBVIOUS
<1> HIDE DEF own2
<1>2. \A q \in D : Ends(q, hd, tl, nx, own2)
  BY <1>1 DEF Linked, Ends
<1>3. ASSUME NEW e \in Events, own2[e] \in D
      PROVE  Within(e, own2[e], hd, tl, nx, own2, pos)
  <2>1. e # i /\ own2[e] = own[e] /\ Within(e, own[e], hd, tl, nx, own, pos)
    BY <1>1, <1>3 DEF Linked
  <2> QED
    BY <2>1, <1>1, <1>3, CtxAssumption DEF Within
<1>4. \A e \in Events : own2[e] \notin D => nx[e] = NOTINQUEUE
  BY <1>1 DEF Linked
<1>5. \A e, f \in Events : own2[e] \in D /\ own2[e] = own2[f] /\ pos[e] = pos[f] => e = f
  BY <1>1 DEF Linked
<1>6. Linked(D, hd, tl, nx, own2, pos)
  BY <1>2, <1>3, <1>4, <1>5 DEF Linked
<1> QED
  BY <1>6 DEF own2

(* Push and PushNext, the operators the actions use, keep the queues       *)
(* chains: PushEmpty and PushBehind put together.                          *)
LEMMA PushKeepsLinked ==
    ASSUME NEW D \in SUBSET Slots, NEW hd \in Pointers(D), NEW tl \in Pointers(D),
           NEW nx \in Links, NEW own \in [Events -> Slots], NEW pos \in [Events -> Nat],
           Linked(D, hd, tl, nx, own, pos),
           NEW p \in D, NEW i \in Events, own[i] \notin D,
           NEW q \in QueueHead(Events), q.head = hd[p], q.tail = tl[p]
    PROVE  /\ PushNext(nx, q, i) \in Links /\ Push(q, i) \in QueueHead(Events)
           /\ \E pos2 \in [Events -> Nat] :
                Linked(D, [hd EXCEPT ![p] = Push(q, i).head], [tl EXCEPT ![p] = Push(q, i).tail],
                       PushNext(nx, q, i), [own EXCEPT ![i] = p], pos2)
<1>1. PushNext(nx, q, i) \in Links /\ Push(q, i) \in QueueHead(Events)
  BY DEF PushNext, Push, QueueHead, Links
<1>2. CASE hd[p] = NULL
  <2>1. tl[p] = NULL
    BY <1>2 DEF Linked, Ends
  <2>2. PushNext(nx, q, i) = [nx EXCEPT ![i] = NULL]
    BY <2>1, CtxAssumption DEF PushNext, Links
  <2>3. Push(q, i).head = i /\ Push(q, i).tail = i
    BY <1>2 DEF Push
  <2>4. Linked(D, [hd EXCEPT ![p] = i], [tl EXCEPT ![p] = i],
               [nx EXCEPT ![i] = NULL], [own EXCEPT ![i] = p], pos)
    BY <1>2, PushEmpty
  <2> QED
    BY <1>1, <2>2, <2>3, <2>4
<1>3. CASE hd[p] # NULL
  <2>1. /\ tl[p] \in Events /\ tl[p] # i
        /\ Linked(D, hd, [tl EXCEPT ![p] = i], [nx EXCEPT ![i] = NULL, ![tl[p]] = i],
                  [own EXCEPT ![i] = p], [pos EXCEPT ![i] = pos[tl[p]] + 1])
    BY <1>3, PushBehind
  <2>2. PushNext(nx, q, i) = [nx EXCEPT ![i] = NULL, ![tl[p]] = i]
    BY <2>1 DEF PushNext, Links
  <2>3. [hd EXCEPT ![p] = Push(q, i).head] = hd /\ Push(q, i).tail = i
    BY <1>3 DEF Push, Pointers
  <2> DEFINE pos2 == [pos EXCEPT ![i] = pos[tl[p]] + 1]
  <2>4. pos2 \in [Events -> Nat]
    BY <2>1
  <2>5. Linked(D, [hd EXCEPT ![p] = Push(q, i).head], [tl EXCEPT ![p] = Push(q, i).tail],
               PushNext(nx, q, i), [own EXCEPT ![i] = p], pos2)
    BY <2>1, <2>2, <2>3
  <2> QED
    BY <1>1, <2>4, <2>5
<1> QED
  BY <1>2, <1>3

(* Pop and PopNext keep the queues chains, and what is popped is an item:  *)
(* the link that becomes the head is never NN_QUEUE_NOTINQUEUE.            *)
LEMMA PopKeepsLinked ==
    ASSUME NEW D \in SUBSET Slots, NEW hd \in Pointers(D), NEW tl \in Pointers(D),
           NEW nx \in Links, NEW own \in [Events -> Slots], NEW pos \in [Events -> Nat],
           Linked(D, hd, tl, nx, own, pos),
           NEW p \in D, NEW q \in QueueHead(Events), q.head = hd[p], q.tail = tl[p],
           ~QueueEmpty(q), NEW z \in Slots, z \notin D
    PROVE  /\ q.head \in Events /\ own[q.head] = p
           /\ PopNext(nx, q) \in Links /\ Pop(nx, q) \in QueueHead(Events)
           /\ Linked(D, [hd EXCEPT ![p] = Pop(nx, q).head], [tl EXCEPT ![p] = Pop(nx, q).tail],
                     PopNext(nx, q), [own EXCEPT ![q.head] = z], pos)
<1>1. /\ hd[p] \in Events /\ own[hd[p]] = p /\ nx[hd[p]] # NOTINQUEUE
      /\ Linked(D, [hd EXCEPT ![p] = nx[hd[p]]],
                [tl EXCEPT ![p] = IF nx[hd[p]] = NULL THEN NULL ELSE tl[p]],
                [nx EXCEPT ![hd[p]] = NOTINQUEUE], [own EXCEPT ![hd[p]] = z], pos)
  BY PopFirst DEF QueueEmpty
<1>2. PopNext(nx, q) = [nx EXCEPT ![hd[p]] = NOTINQUEUE] /\ PopNext(nx, q) \in Links
  BY <1>1 DEF PopNext, Links
<1>3. /\ Pop(nx, q).head = nx[hd[p]]
      /\ Pop(nx, q).tail = IF nx[hd[p]] = NULL THEN NULL ELSE tl[p]
      /\ Pop(nx, q) \in QueueHead(Events)
  BY <1>1 DEF Pop, QueueHead, Links
<1> QED
  BY <1>1, <1>2, <1>3

-----------------------------------------------------------------------------
(* The queues there are: two per context and one per copy on a stack.      *)
QueuesIn(cps) ==
    {Own(c) : c \in Ctxs} \cup {Outgoing(c) : c \in Ctxs} \cup
    {s \in Slots : s.kind = "copy" /\ s.of \in Threads /\ s.nr \in DOMAIN cps[s.of]}

(* The nn_queue itself behind a slot that is a queue.                      *)
QueueAt(s) == IF s.kind = "own" THEN events[s.of]
              ELSE IF s.kind = "outgoing" THEN eventsto[s.of]
              ELSE copies[s.of][s.nr]

(* The heads and tails of all queues, as the lemmas on chains take them.   *)
Heads == [s \in QueuesIn(copies) |-> QueueAt(s).head]
Tails == [s \in QueuesIn(copies) |-> QueueAt(s).tail]

(* The copies of every stack.                                              *)
CopyMap == [Threads -> Seq(QueueHead(Events))]

(* The slots that are queues are slots; a copy beyond the end of a stack,  *)
(* a thread's hands and Nowhere are none.                                  *)
LEMMA SlotFacts ==
    ASSUME NEW cps \in CopyMap
    PROVE  /\ QueuesIn(cps) \subseteq Slots
           /\ \A c \in Ctxs : Own(c) \in QueuesIn(cps) /\ Outgoing(c) \in QueuesIn(cps)
           /\ \A t \in Threads : \A n \in DOMAIN cps[t] : Copy(t, n) \in QueuesIn(cps)
           /\ \A t \in Threads : Carried(t) \in Slots /\ Carried(t) \notin QueuesIn(cps)
           /\ \A t \in Threads : \A n \in Nat \ DOMAIN cps[t] :
                 Copy(t, n) \in Slots /\ Copy(t, n) \notin QueuesIn(cps)
           /\ Nowhere \in Slots /\ Nowhere \notin QueuesIn(cps)
<1> USE DEF QueuesIn, Slots, Slot, Own, Outgoing, Copy, Carried, Nowhere
<1>1. \A c \in Ctxs : Own(c) \in Slots /\ Outgoing(c) \in Slots
  OBVIOUS
<1>2. QueuesIn(cps) \subseteq Slots
  BY <1>1
<1>3. \A c \in Ctxs : Own(c) \in QueuesIn(cps) /\ Outgoing(c) \in QueuesIn(cps)
  OBVIOUS
<1>4. ASSUME NEW t \in Threads, NEW n \in Nat
      PROVE  Copy(t, n) \in Slots /\ (Copy(t, n) \in QueuesIn(cps) <=> n \in DOMAIN cps[t])
  OBVIOUS
<1>5. \A t \in Threads : DOMAIN cps[t] \subseteq Nat
  BY DEF CopyMap
<1>6. \A t \in Threads : Carried(t) \in Slots /\ Carried(t) \notin QueuesIn(cps)
  OBVIOUS
<1>7. Nowhere \in Slots /\ Nowhere \notin QueuesIn(cps)
  OBVIOUS
<1> HIDE DEF QueuesIn, Slots, Slot, Own, Outgoing, Copy, Carried, Nowhere
<1> QED
  BY <1>2, <1>3, <1>4, <1>5, <1>6, <1>7

(* Different places in the code are different slots.                       *)
LEMMA SlotsDiffer ==
    /\ \A c, d : Own(c) = Own(d) => c = d
    /\ \A c, d : Own(c) # Outgoing(d)
    /\ \A c, t, n : Own(c) # Copy(t, n)
    /\ \A c, t : Own(c) # Carried(t) /\ Outgoing(c) # Carried(t)
    /\ \A t, u : Carried(t) = Carried(u) => t = u
    /\ \A t, u, n : Carried(t) # Copy(u, n)
    /\ \A x : Own(x) # Nowhere /\ Outgoing(x) # Nowhere /\ Carried(x) # Nowhere
    /\ \A t, n : Copy(t, n) # Nowhere
    /\ \A t, u, n, m : Copy(t, n) = Copy(u, m) => t = u /\ n = m
    /\ \A c, t, n : Outgoing(c) # Copy(t, n)
    /\ \A c, d : Outgoing(c) = Outgoing(d) => c = d
BY DEF Slot, Own, Outgoing, Copy, Carried, Nowhere

(* What TypeOK says of the links and of all heads and tails.               *)
LEMMA TypesUsed ==
    ASSUME TypeOK
    PROVE  /\ copies \in CopyMap /\ next \in Links
           /\ Heads \in Pointers(QueuesIn(copies)) /\ Tails \in Pointers(QueuesIn(copies))
<1>1. copies \in CopyMap /\ next \in Links
  BY DEF TypeOK, CopyMap, Links
<1>2. ASSUME NEW s \in QueuesIn(copies)
      PROVE  QueueAt(s) \in QueueHead(Events)
  <2>1. CASE s.kind = "own"
    BY <2>1 DEF QueueAt, QueuesIn, TypeOK, Slot, Own, Outgoing
  <2>2. CASE s.kind = "outgoing"
    BY <2>2 DEF QueueAt, QueuesIn, TypeOK, Slot, Own, Outgoing
  <2>3. CASE s.kind = "copy"
    BY <2>3, <1>1 DEF QueueAt, QueuesIn, CopyMap, Slot, Own, Outgoing
  <2> QED
    BY <2>1, <2>2, <2>3 DEF QueuesIn, Slot, Own, Outgoing
<1> QED
  BY <1>1, <1>2 DEF Heads, Tails, Pointers, QueueHead

(* A step that writes one context's own queue changes that head and tail   *)
(* and no other.                                                           *)
LEMMA SetOwn ==
    ASSUME NEW c \in Ctxs, eventsto' = eventsto, copies' = copies,
           \A d \in Ctxs : d # c => events'[d] = events[d]
    PROVE  /\ Heads' = [Heads EXCEPT ![Own(c)] = events'[c].head]
           /\ Tails' = [Tails EXCEPT ![Own(c)] = events'[c].tail]
<1>1. ASSUME NEW s \in QueuesIn(copies)
      PROVE  QueueAt(s)' = IF s = Own(c) THEN events'[c] ELSE QueueAt(s)
  <2>1. CASE s.kind = "own"
    BY <2>1 DEF QueueAt, QueuesIn, Slot, Own, Outgoing
  <2>2. CASE s.kind # "own"
    BY <2>2 DEF QueueAt, QueuesIn, Slot, Own, Outgoing
  <2> QED
    BY <2>1, <2>2
<1>2. Heads' = [s \in QueuesIn(copies) |-> QueueAt(s)'.head]
      /\ Tails' = [s \in QueuesIn(copies) |-> QueueAt(s)'.tail]
  BY DEF Heads, Tails
<1> QED
  BY <1>1, <1>2 DEF Heads, Tails

(* A step that writes one context's outgoing queue changes that head and   *)
(* tail and no other.                                                      *)
LEMMA SetOutgoing ==
    ASSUME NEW c \in Ctxs, events' = events, copies' = copies,
           \A d \in Ctxs : d # c => eventsto'[d] = eventsto[d]
    PROVE  /\ Heads' = [Heads EXCEPT ![Outgoing(c)] = eventsto'[c].head]
           /\ Tails' = [Tails EXCEPT ![Outgoing(c)] = eventsto'[c].tail]
<1>1. ASSUME NEW s \in QueuesIn(copies)
      PROVE  QueueAt(s)' = IF s = Outgoing(c) THEN eventsto'[c] ELSE QueueAt(s)
  <2>1. CASE s.kind = "outgoing"
    BY <2>1 DEF QueueAt, QueuesIn, Slot, Own, Outgoing
  <2>2. CASE s.kind # "outgoing"
    BY <2>2 DEF QueueAt, QueuesIn, Slot, Own, Outgoing
  <2> QED
    BY <2>1, <2>2
<1>2. Heads' = [s \in QueuesIn(copies) |-> QueueAt(s)'.head]
      /\ Tails' = [s \in QueuesIn(copies) |-> QueueAt(s)'.tail]
  BY DEF Heads, Tails
<1> QED
  BY <1>1, <1>2 DEF Heads, Tails

(* A pop from one copy (nn_ctx_leave, line 55) changes its head and tail   *)
(* and no other.                                                           *)
LEMMA SetCopy ==
    ASSUME NEW t \in Threads, NEW n \in DOMAIN copies[t], events' = events, eventsto' = eventsto,
           \A u \in Threads : u # t => copies'[u] = copies[u],
           DOMAIN copies'[t] = DOMAIN copies[t],
           \A k \in DOMAIN copies[t] : k # n => copies'[t][k] = copies[t][k]
    PROVE  /\ QueuesIn(copies') = QueuesIn(copies)
           /\ Heads' = [Heads EXCEPT ![Copy(t, n)] = copies'[t][n].head]
           /\ Tails' = [Tails EXCEPT ![Copy(t, n)] = copies'[t][n].tail]
<1>1. \A u \in Threads : DOMAIN copies'[u] = DOMAIN copies[u]
  OBVIOUS
<1>2. QueuesIn(copies') = QueuesIn(copies)
  BY <1>1 DEF QueuesIn
<1>3. ASSUME NEW s \in QueuesIn(copies)
      PROVE  QueueAt(s)' = IF s = Copy(t, n) THEN copies'[t][n] ELSE QueueAt(s)
  <2>1. CASE s.kind = "copy"
    BY <2>1 DEF QueueAt, QueuesIn, Slots, Slot, Own, Outgoing, Copy
  <2>2. CASE s.kind # "copy"
    BY <2>2 DEF QueueAt, QueuesIn, Slot, Own, Outgoing, Copy
  <2> QED
    BY <2>1, <2>2
<1>4. Heads' = [s \in QueuesIn(copies) |-> QueueAt(s)'.head]
      /\ Tails' = [s \in QueuesIn(copies) |-> QueueAt(s)'.tail]
  BY <1>2 DEF Heads, Tails
<1> QED
  BY <1>2, <1>3, <1>4 DEF Heads, Tails

(* nn_ctx_leave, lines 50 and 51: the new copy has the head and tail of    *)
(* the outgoing queue, which is empty afterwards, and no other queue       *)
(* changes.                                                                *)
LEMMA AppendCopy ==
    ASSUME copies \in CopyMap, NEW t \in Threads, NEW c \in Ctxs, events' = events,
           eventsto'[c] = EmptyQueue, \A d \in Ctxs : d # c => eventsto'[d] = eventsto[d],
           copies'[t] = Append(copies[t], eventsto[c]),
           \A u \in Threads : u # t => copies'[u] = copies[u]
    PROVE  LET p == Outgoing(c)
               z == Copy(t, Len(copies[t]) + 1)
           IN  /\ QueuesIn(copies') = QueuesIn(copies) \cup {z}
               /\ Heads'[z] = Heads[p] /\ Heads'[p] = NULL
               /\ Tails'[z] = Tails[p] /\ Tails'[p] = NULL
               /\ \A s \in QueuesIn(copies) : s # p => Heads'[s] = Heads[s] /\ Tails'[s] = Tails[s]
<1> SUFFICES ASSUME NEW n, n = Len(copies[t]) + 1
             PROVE  LET p == Outgoing(c)
                        z == Copy(t, n)
                    IN  /\ QueuesIn(copies') = QueuesIn(copies) \cup {z}
                        /\ Heads'[z] = Heads[p] /\ Heads'[p] = NULL
                        /\ Tails'[z] = Tails[p] /\ Tails'[p] = NULL
                        /\ \A s \in QueuesIn(copies) :
                              s # p => Heads'[s] = Heads[s] /\ Tails'[s] = Tails[s]
  OBVIOUS
<1> DEFINE p == Outgoing(c)
           z == Copy(t, n)
           D == QueuesIn(copies)
<1>0. /\ n \in Nat /\ n \notin DOMAIN copies[t]
      /\ DOMAIN copies'[t] = DOMAIN copies[t] \cup {n}
      /\ copies'[t][n] = eventsto[c]
      /\ \A k \in DOMAIN copies[t] : copies'[t][k] = copies[t][k]
  <2>1. copies[t] \in Seq(QueueHead(Events))
    BY DEF CopyMap
  <2> QED
    BY <2>1
<1>1. QueuesIn(copies') = D \cup {z}
  BY <1>0 DEF QueuesIn, Slots, Slot, Copy
<1>2. z \notin D /\ p \in D /\ p # z
  BY <1>0 DEF QueuesIn, Slots, Slot, Copy, Own, Outgoing
<1>3. QueueAt(z)' = eventsto[c] /\ QueueAt(p)' = EmptyQueue /\ QueueAt(p) = eventsto[c]
  BY <1>0 DEF QueueAt, Slot, Copy, Outgoing
<1>4. ASSUME NEW s \in D, s # p
      PROVE  QueueAt(s)' = QueueAt(s)
  <2>1. CASE s.kind = "own"
    BY <2>1 DEF QueueAt
  <2>2. CASE s.kind = "outgoing"
    BY <2>2, <1>0, <1>4 DEF QueueAt, QueuesIn, Slot, Own, Outgoing
  <2>3. CASE s.kind = "copy"
    BY <2>3, <1>0 DEF QueueAt, QueuesIn, Slot, Own, Outgoing
  <2> QED
    BY <2>1, <2>2, <2>3 DEF QueuesIn, Slot, Own, Outgoing
<1> HIDE DEF z, p, D
<1>5. /\ \A s \in D \cup {z} : Heads'[s] = QueueAt(s)'.head /\ Tails'[s] = QueueAt(s)'.tail
      /\ \A s \in D : Heads[s] = QueueAt(s).head /\ Tails[s] = QueueAt(s).tail
  BY <1>1 DEF Heads, Tails, D
<1>6. EmptyQueue.head = NULL /\ EmptyQueue.tail = NULL
  BY DEF EmptyQueue
<1>7. /\ Heads'[z] = Heads[p] /\ Heads'[p] = NULL /\ Tails'[z] = Tails[p] /\ Tails'[p] = NULL
      /\ \A s \in D : s # p => Heads'[s] = Heads[s] /\ Tails'[s] = Tails[s]
  BY <1>2, <1>3, <1>4, <1>5, <1>6
<1> QED
  BY <1>1, <1>7 DEF z, p, D

(* The return of a nested nn_ctx_leave takes the innermost copy away and   *)
(* changes no other queue.                                                 *)
LEMMA DropCopy ==
    ASSUME copies \in CopyMap, NEW t \in Threads, copies[t] # <<>>,
           events' = events, eventsto' = eventsto,
           copies'[t] = SubSeq(copies[t], 1, Len(copies[t]) - 1),
           \A u \in Threads : u # t => copies'[u] = copies[u]
    PROVE  LET p == Copy(t, Len(copies[t]))
           IN  /\ QueuesIn(copies') = QueuesIn(copies) \ {p}
               /\ \A s \in QueuesIn(copies) \ {p} : Heads'[s] = Heads[s] /\ Tails'[s] = Tails[s]
<1> DEFINE n == Len(copies[t])
           p == Copy(t, n)
           D == QueuesIn(copies)
<1>0. /\ n \in DOMAIN copies[t] /\ n \in Nat
      /\ DOMAIN copies'[t] = DOMAIN copies[t] \ {n}
      /\ \A k \in DOMAIN copies'[t] : copies'[t][k] = copies[t][k]
  <2>1. copies[t] \in Seq(QueueHead(Events))
    BY DEF CopyMap
  <2> QED
    BY <2>1
<1> HIDE DEF n
<1>1. QueuesIn(copies') = D \ {p}
  BY <1>0 DEF QueuesIn, Slots, Slot, Copy, Own, Outgoing
<1>2. ASSUME NEW s \in D \ {p}
      PROVE  QueueAt(s)' = QueueAt(s)
  <2>1. CASE s.kind # "copy"
    BY <2>1 DEF QueueAt, QueuesIn, Slot, Own, Outgoing
  <2>2. CASE s.kind = "copy"
    BY <2>2, <1>0, <1>1 DEF QueueAt, QueuesIn, Slot, Own, Outgoing
  <2> QED
    BY <2>1, <2>2
<1>3. \A s \in D \ {p} : Heads'[s] = Heads[s] /\ Tails'[s] = Tails[s]
  BY <1>1, <1>2 DEF Heads, Tails
<1> QED
  BY <1>1, <1>3 DEF n

-----------------------------------------------------------------------------
(* The inductive invariant.                                                *)
(* A raised event is in one slot, an event in a context's own queue was    *)
(* raised to this context, and a thread carries what it is about to        *)
(* deliver.                                                                *)
Tracked(own, cps, raised, dest, place, held) ==
    /\ \A e \in Events : own[e] \in QueuesIn(cps) \cup {Carried(t) : t \in Threads}
                                        \cup {Nowhere}
    /\ \A e \in Events : raised[e] = -1 <=> own[e] = Nowhere
    /\ \A e \in Events, c \in Ctxs : own[e] = Own(c) => dest[e] = c
    /\ \A t \in Threads : place[t] = "entering" => own[held[t]] = Carried(t)
    /\ \A e \in Events, t \in Threads :
          own[e] = Carried(t) => place[t] = "entering" /\ held[t] = e

(* Some assignment of the events to slots, with positions, makes all       *)
(* queues chains and agrees with the events' fields.                       *)
Placed ==
    \E own \in [Events -> Slots], pos \in [Events -> Nat] :
        /\ Linked(QueuesIn(copies), Heads, Tails, next, own, pos)
        /\ Tracked(own, copies, src, to, at, cur)

(* Line 62 finds the context the event was delivered to: fsm has not been  *)
(* given to another context while its handler runs.                        *)
HandlesHere == \A t \in Threads : at[t] = "handling" => to[cur[t]] = here[t]

(* The inductive invariant: none of the three properties is inductive      *)
(* alone, because the head a pop leaves behind comes from the links.       *)
IInv == TypeOK /\ HoldsOnlyHere /\ NothingStranded /\ HandlesHere /\ Placed

(* No event is raised and all queues are empty after nn_ctx_init.          *)
LEMMA InitIInv ==
    ASSUME Init
    PROVE  IInv
<1> USE CtxAssumption DEF Init
<1>1. TypeOK
  BY DEF TypeOK, EmptyQueue, QueueHead, Places
<1>2. HoldsOnlyHere /\ NothingStranded /\ HandlesHere
  BY DEF HoldsOnlyHere, Held, NothingStranded, HandlesHere, QueueEmpty, EmptyQueue
<1>3. Placed
  <2> DEFINE own == [e \in Events |-> Nowhere]
             pos == [e \in Events |-> 0]
  <2>0. copies \in CopyMap
    BY <1>1 DEF TypeOK, CopyMap
  <2>1. own \in [Events -> Slots] /\ pos \in [Events -> Nat]
    BY <2>0, SlotFacts
  <2>2. ASSUME NEW s \in QueuesIn(copies)
        PROVE  QueueAt(s) = EmptyQueue
    BY <2>2 DEF QueuesIn, QueueAt, Slot, Own, Outgoing
  <2>3. Linked(QueuesIn(copies), Heads, Tails, next, own, pos)
    <3>1. \A s \in QueuesIn(copies) : Heads[s] = NULL /\ Tails[s] = NULL
      BY <2>2 DEF Heads, Tails, EmptyQueue
    <3>2. \A e \in Events : own[e] \notin QueuesIn(copies)
      BY <2>0, SlotFacts
    <3> QED
      BY <3>1, <3>2 DEF Linked, Ends
  <2>4. Tracked(own, copies, src, to, at, cur)
    BY SlotsDiffer DEF Tracked
  <2> QED
    BY <2>1, <2>3, <2>4 DEF Placed
<1> QED
  BY <1>1, <1>2, <1>3 DEF IInv
(* Heads and Tails are the fields of the queues of the model.              *)
LEMMA HeadsAre ==
    ASSUME TypeOK
    PROVE  /\ \A c \in Ctxs : /\ Heads[Own(c)] = events[c].head
                             /\ Tails[Own(c)] = events[c].tail
                             /\ Heads[Outgoing(c)] = eventsto[c].head
                             /\ Tails[Outgoing(c)] = eventsto[c].tail
           /\ \A t \in Threads : \A n \in DOMAIN copies[t] :
                 /\ Heads[Copy(t, n)] = copies[t][n].head
                 /\ Tails[Copy(t, n)] = copies[t][n].tail
<1>1. /\ \A c \in Ctxs : Own(c) \in QueuesIn(copies) /\ Outgoing(c) \in QueuesIn(copies)
      /\ \A t \in Threads : \A n \in DOMAIN copies[t] : Copy(t, n) \in QueuesIn(copies)
  BY TypesUsed, SlotFacts
<1>2. /\ \A c : QueueAt(Own(c)) = events[c]
      /\ \A c : QueueAt(Outgoing(c)) = eventsto[c]
      /\ \A t, n : QueueAt(Copy(t, n)) = copies[t][n]
  BY DEF QueueAt, Slot, Own, Outgoing, Copy
<1> QED
  BY <1>1, <1>2 DEF Heads, Tails

(* nn_ctx_enter takes a free mutex and touches no queue.                   *)
LEMMA StepEnter ==
    ASSUME IInv, NEW t \in Threads, NEW c \in Ctxs, Enter(t, c)
    PROVE  IInv'
<1> USE CtxAssumption DEF Enter, IInv
<1>1. TypeOK'
  BY DEF TypeOK, Places
<1>2. HoldsOnlyHere'
  BY DEF TypeOK, HoldsOnlyHere, Held
<1>3. NothingStranded'
  BY DEF TypeOK, NothingStranded
<1>4. HandlesHere'
  BY DEF TypeOK, HandlesHere
<1>5. Placed'
  <2>1. PICK own \in [Events -> Slots], pos \in [Events -> Nat] :
          /\ Linked(QueuesIn(copies), Heads, Tails, next, own, pos)
        /\ Tracked(own, copies, src, to, at, cur)
    BY DEF Placed
  <2>2. Linked(QueuesIn(copies), Heads, Tails, next, own, pos)'
    BY <2>1 DEF Heads, Tails, QueueAt
  <2>3. Tracked(own, copies', src', to', at', cur')
    BY <2>1 DEF Tracked, TypeOK
  <2> QED
    BY <2>2, <2>3 DEF Placed
<1> QED
  BY <1>1, <1>2, <1>3, <1>4, <1>5

(* Raising an event to a machine of the context the thread is in puts an   *)
(* event that was nowhere into the context's own queue.                    *)
LEMMA StepRaise ==
    ASSUME IInv, NEW t \in Threads, NEW e \in Events, Raise(t, e)
    PROVE  IInv'
<1> DEFINE c == here[t]
           q == events[c]
<1>0. TypeOK /\ HoldsOnlyHere /\ NothingStranded /\ HandlesHere /\ Placed
  BY DEF IInv
<1>1. /\ c \in Ctxs /\ q \in QueueHead(Events) /\ sync[c] = t /\ src[e] = -1
      /\ events' = [events EXCEPT ![c] = Push(q, e)] /\ next' = PushNext(next, q, e)
      /\ to' = [to EXCEPT ![e] = c] /\ src' = [src EXCEPT ![e] = 0] /\ fuel' = fuel - 1
      /\ fuel > 0 /\ Settled(e, c) /\ UNCHANGED <<sync, eventsto, at, here, copies, cur>>
  BY <1>0 DEF TypeOK, Raise, MayRaise, Processed, Raised, HoldsOnlyHere
<1>2. PICK own \in [Events -> Slots], pos \in [Events -> Nat] :
        /\ Linked(QueuesIn(copies), Heads, Tails, next, own, pos)
        /\ Tracked(own, copies, src, to, at, cur)
  BY <1>0 DEF Placed
<1>3. q.head = Heads[Own(c)] /\ q.tail = Tails[Own(c)]
  BY <1>0, <1>1, HeadsAre
<1> HIDE DEF c, q
<1>4. /\ QueuesIn(copies) \subseteq Slots /\ Own(c) \in QueuesIn(copies) /\ Own(c) \in Slots
      /\ own[e] = Nowhere /\ own[e] \notin QueuesIn(copies)
  BY <1>0, <1>1, <1>2, TypesUsed, SlotFacts DEF Tracked
<1> DEFINE own2 == [own EXCEPT ![e] = Own(c)]
<1>5. /\ PushNext(next, q, e) \in Links /\ Push(q, e) \in QueueHead(Events)
      /\ \E pos2 \in [Events -> Nat] :
           Linked(QueuesIn(copies), [Heads EXCEPT ![Own(c)] = Push(q, e).head],
                  [Tails EXCEPT ![Own(c)] = Push(q, e).tail], PushNext(next, q, e), own2, pos2)
  BY <1>0, <1>1, <1>2, <1>3, <1>4, TypesUsed, PushKeepsLinked
<1>6. /\ own2 \in [Events -> Slots] /\ own2[e] = Own(c)
      /\ \A f \in Events : f # e => own2[f] = own[f]
  BY <1>4
<1> HIDE DEF own2
<1>7. TypeOK'
  <2>1. events' \in [Ctxs -> QueueHead(Events)] /\ next' \in [Events -> Events \cup {NULL, NOTINQUEUE}]
    BY <1>0, <1>1, <1>5 DEF TypeOK, Links
  <2>2. to' \in [Events -> Ctxs] /\ src' \in [Events -> {-1, 0}] /\ fuel' \in 0..Fuel
    BY <1>0, <1>1, CtxAssumption DEF TypeOK
  <2> QED
    BY <2>1, <2>2, <1>0, <1>1 DEF TypeOK
<1>8. HoldsOnlyHere'
  BY <1>0, <1>1 DEF HoldsOnlyHere, Held
<1>9. NothingStranded'
  BY <1>0, <1>1, CtxAssumption DEF TypeOK, NothingStranded
<1>10. HandlesHere'
  BY <1>0, <1>1 DEF TypeOK, HandlesHere, Settled
<1>11. Placed'
  <2>1. PICK pos2 \in [Events -> Nat] :
          Linked(QueuesIn(copies), [Heads EXCEPT ![Own(c)] = Push(q, e).head],
                 [Tails EXCEPT ![Own(c)] = Push(q, e).tail], PushNext(next, q, e), own2, pos2)
    BY <1>5
  <2>2. /\ Heads' = [Heads EXCEPT ![Own(c)] = Push(q, e).head]
        /\ Tails' = [Tails EXCEPT ![Own(c)] = Push(q, e).tail]
    <3>1. /\ events'[c] = Push(q, e)
          /\ \A d \in Ctxs : d # c => events'[d] = events[d]
      BY <1>0, <1>1 DEF TypeOK
    <3> QED
      BY <3>1, <1>1, SetOwn
  <2>3. Linked(QueuesIn(copies'), Heads', Tails', next', own2, pos2)
    BY <2>1, <2>2, <1>1
  <2>4. Tracked(own2, copies', src', to', at', cur')
    <3>1. /\ to'[e] = c /\ src'[e] = 0 /\ at' = at /\ cur' = cur /\ copies' = copies
          /\ \A f \in Events : f # e => to'[f] = to[f] /\ src'[f] = src[f]
      BY <1>0, <1>1 DEF TypeOK
    <3>2. \A u \in Threads : at[u] = "entering" => cur[u] \in Events /\ cur[u] # e
      BY <1>0, <1>2, <1>4, SlotsDiffer DEF Tracked, TypeOK
    <3>3. \A f \in Events : own2[f] \in QueuesIn(copies') \cup {Carried(u) : u \in Threads}
                                                             \cup {Nowhere}
      BY <3>1, <1>2, <1>4, <1>6 DEF Tracked
    <3>4. \A f \in Events : src'[f] = -1 <=> own2[f] = Nowhere
      BY <3>1, <1>2, <1>6, SlotsDiffer DEF Tracked
    <3>5. \A f \in Events, d \in Ctxs : own2[f] = Own(d) => to'[f] = d
      BY <3>1, <1>2, <1>6, SlotsDiffer DEF Tracked
    <3>6. \A u \in Threads : at'[u] = "entering" => own2[cur'[u]] = Carried(u)
      BY <3>1, <3>2, <1>2, <1>6 DEF Tracked
    <3>7. \A f \in Events, u \in Threads :
             own2[f] = Carried(u) => at'[u] = "entering" /\ cur'[u] = f
      BY <3>1, <1>2, <1>6, SlotsDiffer DEF Tracked
    <3> QED
      BY <3>3, <3>4, <3>5, <3>6, <3>7 DEF Tracked
  <2> QED
    BY <2>3, <2>4, <1>6 DEF Placed
<1> QED
  BY <1>7, <1>8, <1>9, <1>10, <1>11 DEF IInv
(* Raising an event to another context puts it into the outgoing queue of  *)
(* the context the thread is in.                                           *)
LEMMA StepRaiseTo ==
    ASSUME IInv, NEW t \in Threads, NEW e \in Events, NEW c \in Ctxs, RaiseTo(t, e, c)
    PROVE  IInv'
<1> DEFINE d == here[t]
           q == eventsto[d]
<1>0. TypeOK /\ HoldsOnlyHere /\ NothingStranded /\ HandlesHere /\ Placed
  BY DEF IInv
<1>1. /\ d \in Ctxs /\ q \in QueueHead(Events) /\ sync[d] = t /\ src[e] = -1
      /\ eventsto' = [eventsto EXCEPT ![d] = Push(q, e)] /\ next' = PushNext(next, q, e)
      /\ to' = [to EXCEPT ![e] = c] /\ src' = [src EXCEPT ![e] = 0] /\ fuel' = fuel - 1
      /\ fuel > 0 /\ Settled(e, c) /\ UNCHANGED <<sync, events, at, here, copies, cur>>
  BY <1>0 DEF TypeOK, RaiseTo, MayRaise, Processed, Raised, HoldsOnlyHere
<1>2. PICK own \in [Events -> Slots], pos \in [Events -> Nat] :
        /\ Linked(QueuesIn(copies), Heads, Tails, next, own, pos)
        /\ Tracked(own, copies, src, to, at, cur)
  BY <1>0 DEF Placed
<1>3. q.head = Heads[Outgoing(d)] /\ q.tail = Tails[Outgoing(d)]
  BY <1>0, <1>1, HeadsAre
<1> HIDE DEF d, q
<1>4. /\ QueuesIn(copies) \subseteq Slots /\ Outgoing(d) \in QueuesIn(copies) /\ Outgoing(d) \in Slots
      /\ own[e] = Nowhere /\ own[e] \notin QueuesIn(copies)
  BY <1>0, <1>1, <1>2, TypesUsed, SlotFacts DEF Tracked
<1> DEFINE own2 == [own EXCEPT ![e] = Outgoing(d)]
<1>5. /\ PushNext(next, q, e) \in Links /\ Push(q, e) \in QueueHead(Events)
      /\ \E pos2 \in [Events -> Nat] :
           Linked(QueuesIn(copies), [Heads EXCEPT ![Outgoing(d)] = Push(q, e).head],
                  [Tails EXCEPT ![Outgoing(d)] = Push(q, e).tail], PushNext(next, q, e), own2, pos2)
  BY <1>0, <1>1, <1>2, <1>3, <1>4, TypesUsed, PushKeepsLinked
<1>6. /\ own2 \in [Events -> Slots] /\ own2[e] = Outgoing(d)
      /\ \A f \in Events : f # e => own2[f] = own[f]
  BY <1>4
<1> HIDE DEF own2
<1>7. TypeOK'
  <2>1. eventsto' \in [Ctxs -> QueueHead(Events)] /\ next' \in [Events -> Events \cup {NULL, NOTINQUEUE}]
    BY <1>0, <1>1, <1>5 DEF TypeOK, Links
  <2>2. to' \in [Events -> Ctxs] /\ src' \in [Events -> {-1, 0}] /\ fuel' \in 0..Fuel
    BY <1>0, <1>1, CtxAssumption DEF TypeOK
  <2> QED
    BY <2>1, <2>2, <1>0, <1>1 DEF TypeOK
<1>8. HoldsOnlyHere'
  BY <1>0, <1>1 DEF HoldsOnlyHere, Held
<1>9. NothingStranded'
  BY <1>0, <1>1, CtxAssumption DEF TypeOK, NothingStranded
<1>10. HandlesHere'
  BY <1>0, <1>1 DEF TypeOK, HandlesHere, Settled
<1>11. Placed'
  <2>1. PICK pos2 \in [Events -> Nat] :
          Linked(QueuesIn(copies), [Heads EXCEPT ![Outgoing(d)] = Push(q, e).head],
                 [Tails EXCEPT ![Outgoing(d)] = Push(q, e).tail], PushNext(next, q, e), own2, pos2)
    BY <1>5
  <2>2. /\ Heads' = [Heads EXCEPT ![Outgoing(d)] = Push(q, e).head]
        /\ Tails' = [Tails EXCEPT ![Outgoing(d)] = Push(q, e).tail]
    <3>1. /\ eventsto'[d] = Push(q, e)
          /\ \A x \in Ctxs : x # d => eventsto'[x] = eventsto[x]
      BY <1>0, <1>1 DEF TypeOK
    <3> QED
      BY <3>1, <1>1, SetOutgoing
  <2>3. Linked(QueuesIn(copies'), Heads', Tails', next', own2, pos2)
    BY <2>1, <2>2, <1>1
  <2>4. Tracked(own2, copies', src', to', at', cur')
    <3>1. /\ to'[e] = c /\ src'[e] = 0 /\ at' = at /\ cur' = cur /\ copies' = copies
          /\ \A f \in Events : f # e => to'[f] = to[f] /\ src'[f] = src[f]
      BY <1>0, <1>1 DEF TypeOK
    <3>2. \A u \in Threads : at[u] = "entering" => cur[u] \in Events /\ cur[u] # e
      BY <1>0, <1>2, <1>4, SlotsDiffer DEF Tracked, TypeOK
    <3>3. \A f \in Events : own2[f] \in QueuesIn(copies') \cup {Carried(u) : u \in Threads}
                                                             \cup {Nowhere}
      BY <3>1, <1>2, <1>4, <1>6 DEF Tracked
    <3>4. \A f \in Events : src'[f] = -1 <=> own2[f] = Nowhere
      BY <3>1, <1>2, <1>6, SlotsDiffer DEF Tracked
    <3>5. \A f \in Events, x \in Ctxs : own2[f] = Own(x) => to'[f] = x
      BY <3>1, <1>2, <1>6, SlotsDiffer DEF Tracked
    <3>6. \A u \in Threads : at'[u] = "entering" => own2[cur'[u]] = Carried(u)
      BY <3>1, <3>2, <1>2, <1>6 DEF Tracked
    <3>7. \A f \in Events, u \in Threads :
             own2[f] = Carried(u) => at'[u] = "entering" /\ cur'[u] = f
      BY <3>1, <1>2, <1>6, SlotsDiffer DEF Tracked
    <3> QED
      BY <3>3, <3>4, <3>5, <3>6, <3>7 DEF Tracked
  <2> QED
    BY <2>3, <2>4, <1>6 DEF Placed
<1> QED
  BY <1>7, <1>8, <1>9, <1>10, <1>11 DEF IInv

(* Lines 32 to 39 of nn_ctx_leave: the popped event is one that was raised *)
(* to this context, and it is nowhere afterwards.                          *)
LEMMA StepProcessOwn ==
    ASSUME IInv, NEW t \in Threads, ProcessOwn(t)
    PROVE  IInv'
<1> DEFINE c == here[t]
           q == events[c]
           e == q.head
<1>0. TypeOK /\ HoldsOnlyHere /\ NothingStranded /\ HandlesHere /\ Placed
  BY DEF IInv
<1>1. /\ c \in Ctxs /\ q \in QueueHead(Events) /\ sync[c] = t /\ ~QueueEmpty(q)
      /\ events' = [events EXCEPT ![c] = Pop(next, q)] /\ next' = PopNext(next, q)
      /\ src' = [src EXCEPT ![e] = -1]
      /\ UNCHANGED <<sync, eventsto, to, at, here, copies, cur, fuel>>
  BY <1>0 DEF TypeOK, ProcessOwn, Process, HoldsOnlyHere, Held
<1>2. PICK own \in [Events -> Slots], pos \in [Events -> Nat] :
        /\ Linked(QueuesIn(copies), Heads, Tails, next, own, pos)
        /\ Tracked(own, copies, src, to, at, cur)
  BY <1>0 DEF Placed
<1>3. q.head = Heads[Own(c)] /\ q.tail = Tails[Own(c)]
  BY <1>0, <1>1, HeadsAre
<1> HIDE DEF c, q
<1>4. /\ QueuesIn(copies) \subseteq Slots /\ Own(c) \in QueuesIn(copies)
      /\ Nowhere \in Slots /\ Nowhere \notin QueuesIn(copies)
  BY <1>0, <1>1, TypesUsed, SlotFacts
<1> DEFINE own2 == [own EXCEPT ![q.head] = Nowhere]
<1>5. /\ q.head \in Events /\ own[q.head] = Own(c)
      /\ PopNext(next, q) \in Links /\ Pop(next, q) \in QueueHead(Events)
      /\ Linked(QueuesIn(copies), [Heads EXCEPT ![Own(c)] = Pop(next, q).head],
                [Tails EXCEPT ![Own(c)] = Pop(next, q).tail], PopNext(next, q), own2, pos)
  <2>1. /\ QueuesIn(copies) \in SUBSET Slots /\ Heads \in Pointers(QueuesIn(copies))
        /\ Tails \in Pointers(QueuesIn(copies)) /\ next \in Links
    BY <1>0, <1>4, TypesUsed
  <2>2. q \in QueueHead(Events) /\ ~QueueEmpty(q)
    BY <1>1
  <2>3. Linked(QueuesIn(copies), Heads, Tails, next, own, pos)
    BY <1>2
  <2> QED
    BY <2>1, <2>2, <2>3, <1>3, <1>4, PopKeepsLinked
<1>6. /\ e \in Events /\ own[e] = Own(c) /\ own2 \in [Events -> Slots] /\ own2[e] = Nowhere
      /\ \A f \in Events : f # e => own2[f] = own[f]
  BY <1>4, <1>5
<1> HIDE DEF own2, e
<1>7. TypeOK'
  <2>1. events' \in [Ctxs -> QueueHead(Events)] /\ next' \in [Events -> Events \cup {NULL, NOTINQUEUE}]
    BY <1>0, <1>1, <1>5 DEF TypeOK, Links
  <2>2. src' \in [Events -> {-1, 0}]
    BY <1>0, <1>1, <1>6 DEF TypeOK
  <2> QED
    BY <2>1, <2>2, <1>0, <1>1 DEF TypeOK
<1>8. HoldsOnlyHere'
  BY <1>0, <1>1 DEF HoldsOnlyHere, Held
<1>9. NothingStranded'
  BY <1>0, <1>1, CtxAssumption DEF TypeOK, NothingStranded
<1>10. HandlesHere'
  BY <1>0, <1>1 DEF HandlesHere
<1>11. Placed'
  <2>1. /\ Heads' = [Heads EXCEPT ![Own(c)] = Pop(next, q).head]
        /\ Tails' = [Tails EXCEPT ![Own(c)] = Pop(next, q).tail]
    <3>1. /\ events'[c] = Pop(next, q)
          /\ \A d \in Ctxs : d # c => events'[d] = events[d]
      BY <1>0, <1>1 DEF TypeOK
    <3> QED
      BY <3>1, <1>1, SetOwn
  <2>2. Linked(QueuesIn(copies'), Heads', Tails', next', own2, pos)
    BY <2>1, <1>1, <1>5
  <2>3. Tracked(own2, copies', src', to', at', cur')
    <3>1. /\ src'[e] = -1 /\ to' = to /\ at' = at /\ cur' = cur /\ copies' = copies
          /\ \A f \in Events : f # e => src'[f] = src[f]
      BY <1>0, <1>1, <1>6 DEF TypeOK
    <3>2. \A f \in Events : own2[f] \in QueuesIn(copies') \cup {Carried(u) : u \in Threads}
                                                             \cup {Nowhere}
      BY <3>1, <1>2, <1>6 DEF Tracked
    <3>3. \A f \in Events : src'[f] = -1 <=> own2[f] = Nowhere
      BY <3>1, <1>2, <1>6 DEF Tracked
    <3>4. \A f \in Events, d \in Ctxs : own2[f] = Own(d) => to'[f] = d
      BY <3>1, <1>2, <1>6, SlotsDiffer DEF Tracked
    <3>5. \A u \in Threads : at'[u] = "entering" => own2[cur'[u]] = Carried(u)
      <4>1. \A u \in Threads : at[u] = "entering" => cur[u] \in Events /\ cur[u] # e
        BY <1>0, <1>2, <1>6, SlotsDiffer DEF Tracked, TypeOK
      <4> QED
        BY <4>1, <3>1, <1>2, <1>6 DEF Tracked
    <3>6. \A f \in Events, u \in Threads :
             own2[f] = Carried(u) => at'[u] = "entering" /\ cur'[u] = f
      BY <3>1, <1>2, <1>6, SlotsDiffer DEF Tracked
    <3> QED
      BY <3>2, <3>3, <3>4, <3>5, <3>6 DEF Tracked
  <2> QED
    BY <2>2, <2>3, <1>6 DEF Placed
<1> QED
  BY <1>7, <1>8, <1>9, <1>10, <1>11 DEF IInv

(* Lines 60 and 61: the thread enters the context of the event it carries, *)
(* and the event is nowhere once it is processed.                          *)
LEMMA StepDeliver ==
    ASSUME IInv, NEW t \in Threads, Deliver(t)
    PROVE  IInv'
<1> DEFINE e == cur[t]
           c == to[e]
<1>0. TypeOK /\ HoldsOnlyHere /\ NothingStranded /\ HandlesHere /\ Placed
  BY DEF IInv
<1>1. /\ e \in Events /\ c \in Ctxs /\ at[t] = "entering" /\ sync[c] = None
      /\ sync' = [sync EXCEPT ![c] = t] /\ here' = [here EXCEPT ![t] = c]
      /\ at' = [at EXCEPT ![t] = "handling"] /\ src' = [src EXCEPT ![e] = -1]
      /\ UNCHANGED <<events, eventsto, next, to, copies, cur, fuel>>
  BY <1>0 DEF TypeOK, Deliver, Process, MayEnter
<1>2. PICK own \in [Events -> Slots], pos \in [Events -> Nat] :
        /\ Linked(QueuesIn(copies), Heads, Tails, next, own, pos)
        /\ Tracked(own, copies, src, to, at, cur)
  BY <1>0 DEF Placed
<1>3. /\ own[e] = Carried(t) /\ own[e] \notin QueuesIn(copies) /\ QueuesIn(copies) \subseteq Slots
      /\ Nowhere \in Slots /\ Nowhere \notin QueuesIn(copies)
  BY <1>0, <1>1, <1>2, TypesUsed, SlotFacts DEF Tracked
<1> DEFINE own2 == [own EXCEPT ![e] = Nowhere]
<1>4. /\ own2 \in [Events -> Slots] /\ own2[e] = Nowhere
      /\ \A f \in Events : f # e => own2[f] = own[f]
  BY <1>1, <1>3
<1>5. Linked(QueuesIn(copies), Heads, Tails, next, own2, pos)
  BY <1>0, <1>1, <1>2, <1>3, TypesUsed, Elsewhere
<1>6. cur[t] = e /\ to[e] = c
  OBVIOUS
<1> HIDE DEF own2, c, e
<1>7. TypeOK'
  BY <1>0, <1>1 DEF TypeOK, Places
<1>8. HoldsOnlyHere'
  <2>1. /\ at'[t] = "handling" /\ here'[t] = c /\ sync'[c] = t
        /\ \A u \in Threads : u # t => at'[u] = at[u] /\ here'[u] = here[u]
        /\ \A d \in Ctxs : d # c => sync'[d] = sync[d]
    BY <1>0, <1>1 DEF TypeOK
  <2>2. \A u \in Threads : sync[c] # u
    BY <1>1, CtxAssumption
  <2>3. \A d \in Ctxs : sync[d] # t
    BY <1>0, <1>1 DEF HoldsOnlyHere, Held
  <2> QED
    BY <2>1, <2>2, <2>3, <1>0 DEF HoldsOnlyHere, Held
<1>9. NothingStranded'
  BY <1>0, <1>1 DEF TypeOK, NothingStranded
<1>10. HandlesHere'
  BY <1>0, <1>1, <1>6 DEF TypeOK, HandlesHere
<1>11. Placed'
  <2>1. Linked(QueuesIn(copies'), Heads', Tails', next', own2, pos)
    BY <1>1, <1>5 DEF Heads, Tails, QueueAt
  <2>2. Tracked(own2, copies', src', to', at', cur')
    <3>1. /\ src'[e] = -1 /\ to' = to /\ cur' = cur /\ copies' = copies /\ at'[t] = "handling"
          /\ \A f \in Events : f # e => src'[f] = src[f]
          /\ \A u \in Threads : u # t => at'[u] = at[u]
      BY <1>0, <1>1 DEF TypeOK
    <3>2. \A f \in Events : own2[f] \in QueuesIn(copies') \cup {Carried(u) : u \in Threads}
                                                             \cup {Nowhere}
      BY <3>1, <1>2, <1>4 DEF Tracked
    <3>3. \A f \in Events : src'[f] = -1 <=> own2[f] = Nowhere
      BY <3>1, <1>2, <1>4 DEF Tracked
    <3>4. \A f \in Events, d \in Ctxs : own2[f] = Own(d) => to'[f] = d
      BY <3>1, <1>2, <1>4, SlotsDiffer DEF Tracked
    <3>5. \A u \in Threads : at'[u] = "entering" => own2[cur'[u]] = Carried(u)
      <4>1. \A u \in Threads : u # t /\ at[u] = "entering" => cur[u] \in Events /\ cur[u] # e
        BY <1>0, <1>2, <1>3, SlotsDiffer DEF Tracked, TypeOK
      <4> QED
        BY <4>1, <3>1, <1>2, <1>4 DEF Tracked
    <3>6. \A f \in Events, u \in Threads :
             own2[f] = Carried(u) => at'[u] = "entering" /\ cur'[u] = f
      BY <3>1, <1>2, <1>4, <1>6, SlotsDiffer DEF Tracked
    <3> QED
      BY <3>2, <3>3, <3>4, <3>5, <3>6 DEF Tracked
  <2> QED
    BY <2>1, <2>2, <1>4 DEF Placed
<1> QED
  BY <1>7, <1>8, <1>9, <1>10, <1>11 DEF IInv

(* Line 62: the handler is over and the thread goes on in the context it   *)
(* entered.                                                                *)
LEMMA StepHandled ==
    ASSUME IInv, NEW t \in Threads, Handled(t)
    PROVE  IInv'
<1>0. TypeOK /\ HoldsOnlyHere /\ NothingStranded /\ HandlesHere /\ Placed
  BY DEF IInv
<1>1. /\ at[t] = "handling" /\ here' = here
      /\ cur' = [cur EXCEPT ![t] = None] /\ at' = [at EXCEPT ![t] = "inside"]
      /\ UNCHANGED <<sync, events, eventsto, next, to, src, copies, fuel>>
  <2>1. here[t] = to[cur[t]]
    BY <1>0 DEF Handled, HandlesHere
  <2> QED
    BY <2>1, <1>0 DEF TypeOK, Handled
<1>2. TypeOK'
  BY <1>0, <1>1 DEF TypeOK, Places
<1>3. HoldsOnlyHere'
  BY <1>0, <1>1 DEF TypeOK, HoldsOnlyHere, Held
<1>4. NothingStranded'
  BY <1>0, <1>1 DEF NothingStranded
<1>5. HandlesHere'
  BY <1>0, <1>1 DEF TypeOK, HandlesHere
<1>6. Placed'
  <2>1. PICK own \in [Events -> Slots], pos \in [Events -> Nat] :
          /\ Linked(QueuesIn(copies), Heads, Tails, next, own, pos)
          /\ Tracked(own, copies, src, to, at, cur)
    BY <1>0 DEF Placed
  <2>2. Linked(QueuesIn(copies'), Heads', Tails', next', own, pos)
    BY <2>1, <1>1 DEF Heads, Tails, QueueAt
  <2>3. Tracked(own, copies', src', to', at', cur')
    BY <2>1, <1>0, <1>1 DEF Tracked, TypeOK
  <2> QED
    BY <2>2, <2>3 DEF Placed
<1> QED
  BY <1>2, <1>3, <1>4, <1>5, <1>6 DEF IInv
(* Lines 41 to 52: the own queue is empty, the outgoing one is empty or    *)
(* becomes a copy, and only then is the mutex free.                        *)
LEMMA StepLeave ==
    ASSUME IInv, NEW t \in Threads, Leave(t)
    PROVE  IInv'
<1> DEFINE c == here[t]
           q == eventsto[c]
<1>0. TypeOK /\ HoldsOnlyHere /\ NothingStranded /\ HandlesHere /\ Placed
  BY DEF IInv
<1>1. /\ c \in Ctxs /\ q \in QueueHead(Events) /\ sync[c] = t /\ at[t] = "inside"
      /\ QueueEmpty(events[c]) /\ sync' = [sync EXCEPT ![c] = None]
      /\ UNCHANGED <<events, next, to, src, here, cur, fuel>>
  BY <1>0 DEF TypeOK, Leave, DrainedQueue, HoldsOnlyHere, Held
<1>2. /\ QueueEmpty(q) => /\ at' = [at EXCEPT ![t] = BackFrom(copies[t])]
                          /\ eventsto' = eventsto /\ copies' = copies
      /\ ~QueueEmpty(q) => /\ at' = [at EXCEPT ![t] = "delivering"]
                           /\ copies' = [copies EXCEPT ![t] = Append(copies[t], q)]
                           /\ eventsto' = [eventsto EXCEPT ![c] = EmptyQueue]
  BY DEF Leave, ResetQueue
<1>3. PICK own \in [Events -> Slots], pos \in [Events -> Nat] :
        /\ Linked(QueuesIn(copies), Heads, Tails, next, own, pos)
        /\ Tracked(own, copies, src, to, at, cur)
  BY <1>0 DEF Placed
<1>4. c = here[t] /\ q = eventsto[c]
  OBVIOUS
<1> HIDE DEF c, q
<1>5. TypeOK'
  <2>1. copies[t] \in Seq(QueueHead(Events)) /\ EmptyQueue \in QueueHead(Events)
    BY <1>0 DEF TypeOK, EmptyQueue, QueueHead
  <2>2. sync' \in [Ctxs -> Threads \cup {None}]
    BY <1>0, <1>1 DEF TypeOK
  <2>3. CASE QueueEmpty(q)
    <3>1. /\ BackFrom(copies[t]) \in {"out", "delivering"}
          /\ BackFrom(copies[t]) = "delivering" => copies[t] # <<>>
      BY DEF BackFrom
    <3>2. at' \in [Threads -> Places]
      BY <2>3, <3>1, <1>0, <1>2 DEF TypeOK, Places
    <3>3. ASSUME NEW u \in Threads
          PROVE  /\ at'[u] = "delivering" => copies'[u] # <<>>
                 /\ at'[u] \in {"entering", "handling"} => cur'[u] # None
      <4>1. at'[u] = IF u = t THEN BackFrom(copies[t]) ELSE at[u]
        BY <2>3, <1>0, <1>2 DEF TypeOK
      <4> QED
        BY <4>1, <2>3, <3>1, <1>0, <1>1, <1>2 DEF TypeOK
    <3> QED
      BY <2>2, <2>3, <3>2, <3>3, <1>0, <1>1, <1>2 DEF TypeOK
  <2>4. CASE ~QueueEmpty(q)
    <3>1. Append(copies[t], q) \in Seq(QueueHead(Events)) /\ Append(copies[t], q) # <<>>
      BY <2>1, <1>1
    <3>2. /\ at' = [at EXCEPT ![t] = "delivering"]
          /\ copies' = [copies EXCEPT ![t] = Append(copies[t], q)]
          /\ eventsto' = [eventsto EXCEPT ![c] = EmptyQueue]
      BY <2>4, <1>2
    <3>3. copies' \in [Threads -> Seq(QueueHead(Events))] /\ copies'[t] # <<>>
          /\ \A u \in Threads : u # t => copies'[u] = copies[u]
      <4>1. copies \in [Threads -> Seq(QueueHead(Events))]
        BY <1>0 DEF TypeOK
      <4> QED
        BY <4>1, <3>1, <3>2
    <3>4. eventsto' \in [Ctxs -> QueueHead(Events)] /\ at' \in [Threads -> Places]
      <4>1. eventsto \in [Ctxs -> QueueHead(Events)] /\ at \in [Threads -> Places]
        BY <1>0 DEF TypeOK
      <4> QED
        BY <4>1, <2>1, <3>2 DEF Places
    <3>5. at'[t] = "delivering" /\ \A u \in Threads : u # t => at'[u] = at[u]
      BY <3>2, <1>0 DEF TypeOK
    <3>6. \A u \in Threads : /\ at'[u] = "delivering" => copies'[u] # <<>>
                             /\ at'[u] \in {"entering", "handling"} => cur'[u] # None
      BY <3>3, <3>5, <1>0, <1>1 DEF TypeOK
    <3>7. /\ events' \in [Ctxs -> QueueHead(Events)] /\ to' \in [Events -> Ctxs]
          /\ next' \in [Events -> Events \cup {NULL, NOTINQUEUE}] /\ src' \in [Events -> {-1, 0}]
          /\ here' \in [Threads -> Ctxs] /\ cur' \in [Threads -> Events \cup {None}]
          /\ fuel' \in 0..Fuel
      BY <1>0, <1>1 DEF TypeOK
    <3> QED
      BY <2>2, <3>3, <3>4, <3>6, <3>7 DEF TypeOK
  <2> QED
    BY <2>3, <2>4
<1>6. /\ at'[t] \in {"out", "delivering"} /\ \A u \in Threads : u # t => at'[u] = at[u]
      /\ sync'[c] = None /\ \A d \in Ctxs : d # c => sync'[d] = sync[d]
  BY <1>0, <1>1, <1>2 DEF TypeOK, BackFrom
<1>7. HoldsOnlyHere'
  <2>1. \A u \in Threads : u # None
    BY CtxAssumption
  <2> QED
    BY <2>1, <1>0, <1>1, <1>4, <1>6 DEF HoldsOnlyHere, Held
<1>8. NothingStranded'
  <2>1. QueueEmpty(eventsto'[c]) /\ \A d \in Ctxs : d # c => eventsto'[d] = eventsto[d]
    BY <1>0, <1>1, <1>2, <1>4 DEF TypeOK, QueueEmpty, EmptyQueue
  <2> QED
    BY <2>1, <1>0, <1>1, <1>6 DEF NothingStranded
<1>9. HandlesHere'
  BY <1>0, <1>1, <1>6 DEF HandlesHere
<1>10. Placed'
  <2>1. CASE QueueEmpty(q)
    <3>1. Linked(QueuesIn(copies'), Heads', Tails', next', own, pos)
      BY <2>1, <1>1, <1>2, <1>3 DEF Heads, Tails, QueueAt
    <3>2. Tracked(own, copies', src', to', at', cur')
      BY <2>1, <1>1, <1>2, <1>3, <1>6 DEF Tracked
    <3> QED
      BY <3>1, <3>2 DEF Placed
  <2>2. CASE ~QueueEmpty(q)
    <3> DEFINE n    == Len(copies[t]) + 1
               z    == Copy(t, n)
               p    == Outgoing(c)
               D    == QueuesIn(copies)
               own2 == [e \in Events |-> IF own[e] = p THEN z ELSE own[e]]
    <3>1. n \in Nat \ DOMAIN copies[t]
      BY <1>0 DEF TypeOK
    <3>2. /\ z \in Slots /\ z \notin D /\ p \in D /\ D \in SUBSET Slots
      BY <3>1, <1>0, <1>1, TypesUsed, SlotFacts
    <3>3. \A e \in Events : own[e] # z
      BY <3>2, <1>3, SlotsDiffer DEF Tracked
    <3>4. /\ copies'[t] = Append(copies[t], eventsto[c])
          /\ \A u \in Threads : u # t => copies'[u] = copies[u]
          /\ eventsto'[c] = EmptyQueue /\ \A d \in Ctxs : d # c => eventsto'[d] = eventsto[d]
      BY <2>2, <1>0, <1>1, <1>2, <1>4 DEF TypeOK
    <3>5. /\ QueuesIn(copies') = D \cup {z}
          /\ Heads'[z] = Heads[p] /\ Heads'[p] = NULL
          /\ \A s \in D : s # p => Heads'[s] = Heads[s]
          /\ Tails'[z] = Tails[p] /\ Tails'[p] = NULL
          /\ \A s \in D : s # p => Tails'[s] = Tails[s]
      <4>1. copies \in CopyMap /\ events' = events /\ c \in Ctxs
        BY <1>0, <1>1, TypesUsed
      <4> QED
        BY <4>1, <3>4, AppendCopy
    <3>6. Linked(QueuesIn(copies'), Heads', Tails', next', own2, pos)
      <4>1. Heads \in Pointers(D) /\ Tails \in Pointers(D) /\ next \in Links
        BY <1>0, TypesUsed
      <4>2. Linked(D, Heads, Tails, next, own, pos)
        BY <1>3
      <4>3. \A e \in Events : own2[e] = IF own[e] = p THEN z ELSE own[e]
        OBVIOUS
      <4> HIDE DEF z, p, D, own2
      <4>4. Linked(D \cup {z}, Heads', Tails', next, own2, pos)
        BY <4>1, <4>2, <4>3, <3>2, <3>3, <3>5, MoveWhole
      <4> QED
        BY <4>4, <3>5, <1>1
    <3>7. /\ own2 \in [Events -> Slots]
          /\ \A e \in Events : own2[e] = IF own[e] = p THEN z ELSE own[e]
      BY <3>2
    <3> HIDE DEF own2
    <3>8. Tracked(own2, copies', src', to', at', cur')
      <4>1. src' = src /\ to' = to /\ cur' = cur /\ at'[t] = "delivering" /\ at[t] = "inside"
        BY <2>2, <1>0, <1>1, <1>2 DEF TypeOK
      <4>2. \A f \in Events : own2[f] \in QueuesIn(copies') \cup {Carried(u) : u \in Threads}
                                                               \cup {Nowhere}
        BY <3>5, <3>7, <1>3 DEF Tracked
      <4>3. \A f \in Events : src'[f] = -1 <=> own2[f] = Nowhere
        BY <4>1, <3>7, <1>3, SlotsDiffer DEF Tracked
      <4>4. \A f \in Events, d \in Ctxs : own2[f] = Own(d) => to'[f] = d
        BY <4>1, <3>7, <1>3, SlotsDiffer DEF Tracked
      <4>5. \A u \in Threads : at'[u] = "entering" => own2[cur'[u]] = Carried(u)
        <5>1. \A u \in Threads : at[u] = "entering" => cur[u] \in Events
          BY <1>0 DEF TypeOK
        <5> QED
          BY <5>1, <4>1, <3>7, <1>3, <1>6, SlotsDiffer DEF Tracked
      <4>6. \A f \in Events, u \in Threads :
               own2[f] = Carried(u) => at'[u] = "entering" /\ cur'[u] = f
        BY <4>1, <3>7, <1>3, <1>6, SlotsDiffer DEF Tracked
      <4> QED
        BY <4>2, <4>3, <4>4, <4>5, <4>6 DEF Tracked
    <3> QED
      BY <3>6, <3>7, <3>8 DEF Placed
  <2> QED
    BY <2>1, <2>2
<1> QED
  BY <1>5, <1>7, <1>8, <1>9, <1>10 DEF IInv

(* Line 55: the head of the innermost copy passes into the thread's hands. *)
LEMMA StepPopCopy ==
    ASSUME IInv, NEW t \in Threads, PopCopy(t)
    PROVE  IInv'
<1> DEFINE n == Len(copies[t])
           q == copies[t][n]
           e == q.head
           p == Copy(t, n)
<1>0. TypeOK /\ HoldsOnlyHere /\ NothingStranded /\ HandlesHere /\ Placed
  BY DEF IInv
<1>1. /\ n \in DOMAIN copies[t] /\ q \in QueueHead(Events) /\ at[t] = "delivering"
      /\ ~QueueEmpty(q) /\ copies' = [copies EXCEPT ![t][n] = Pop(next, q)]
      /\ next' = PopNext(next, q) /\ cur' = [cur EXCEPT ![t] = e]
      /\ at' = [at EXCEPT ![t] = "entering"]
      /\ UNCHANGED <<sync, events, eventsto, to, src, here, fuel>>
  <2>1. at[t] = "delivering" /\ copies[t] \in Seq(QueueHead(Events)) /\ copies[t] # <<>>
    BY <1>0 DEF PopCopy, TypeOK
  <2>2. n \in DOMAIN copies[t] /\ q \in QueueHead(Events)
    BY <2>1
  <2> QED
    BY <2>1, <2>2 DEF PopCopy
<1>2. PICK own \in [Events -> Slots], pos \in [Events -> Nat] :
        /\ Linked(QueuesIn(copies), Heads, Tails, next, own, pos)
        /\ Tracked(own, copies, src, to, at, cur)
  BY <1>0 DEF Placed
<1>3. q.head = Heads[p] /\ q.tail = Tails[p]
  BY <1>0, <1>1, HeadsAre
<1>4. /\ QueuesIn(copies) \in SUBSET Slots /\ p \in QueuesIn(copies)
      /\ Carried(t) \in Slots /\ Carried(t) \notin QueuesIn(copies)
      /\ p # Nowhere /\ \A u : p # Carried(u)
  BY <1>0, <1>1, TypesUsed, SlotFacts, SlotsDiffer
<1> DEFINE own2 == [own EXCEPT ![q.head] = Carried(t)]
<1> HIDE DEF n, q, p
<1>5. /\ q.head \in Events /\ own[q.head] = p
      /\ PopNext(next, q) \in Links /\ Pop(next, q) \in QueueHead(Events)
      /\ Linked(QueuesIn(copies), [Heads EXCEPT ![p] = Pop(next, q).head],
                [Tails EXCEPT ![p] = Pop(next, q).tail], PopNext(next, q), own2, pos)
  <2>1. /\ Heads \in Pointers(QueuesIn(copies)) /\ Tails \in Pointers(QueuesIn(copies))
        /\ next \in Links
    BY <1>0, TypesUsed
  <2>2. q \in QueueHead(Events) /\ ~QueueEmpty(q)
    BY <1>1
  <2>3. Linked(QueuesIn(copies), Heads, Tails, next, own, pos)
    BY <1>2
  <2> QED
    BY <2>1, <2>2, <2>3, <1>3, <1>4, PopKeepsLinked
<1>6. /\ e \in Events /\ own[e] = p /\ own2 \in [Events -> Slots] /\ own2[e] = Carried(t)
      /\ \A f \in Events : f # e => own2[f] = own[f]
  BY <1>4, <1>5
<1> HIDE DEF own2, e
<1>7. TypeOK'
  <2>1. copies' \in [Threads -> Seq(QueueHead(Events))]
        /\ \A u \in Threads : copies[u] # <<>> => copies'[u] # <<>>
    <3>1. copies[t] \in Seq(QueueHead(Events))
      BY <1>0 DEF TypeOK
    <3>2. [copies[t] EXCEPT ![n] = Pop(next, q)] \in Seq(QueueHead(Events))
          /\ Len([copies[t] EXCEPT ![n] = Pop(next, q)]) = Len(copies[t])
      BY <3>1, <1>1, <1>5
    <3> QED
      BY <3>1, <3>2, <1>0, <1>1 DEF TypeOK
  <2>2. next' \in [Events -> Events \cup {NULL, NOTINQUEUE}] /\ cur' \in [Threads -> Events \cup {None}]
        /\ at' \in [Threads -> Places] /\ cur'[t] = e /\ e # None
    BY <1>0, <1>1, <1>5, <1>6, CtxAssumption DEF TypeOK, Places, Links
  <2> QED
    BY <2>1, <2>2, <1>0, <1>1 DEF TypeOK
<1>8. HoldsOnlyHere'
  BY <1>0, <1>1 DEF TypeOK, HoldsOnlyHere, Held
<1>9. NothingStranded'
  BY <1>0, <1>1 DEF NothingStranded
<1>10. HandlesHere'
  BY <1>0, <1>1 DEF TypeOK, HandlesHere
<1>11. Placed'
  <2>1. /\ copies'[t][n] = Pop(next, q) /\ DOMAIN copies'[t] = DOMAIN copies[t]
        /\ \A k \in DOMAIN copies[t] : k # n => copies'[t][k] = copies[t][k]
        /\ \A u \in Threads : u # t => copies'[u] = copies[u]
    BY <1>0, <1>1 DEF TypeOK
  <2>2. /\ QueuesIn(copies') = QueuesIn(copies)
        /\ Heads' = [Heads EXCEPT ![p] = Pop(next, q).head]
        /\ Tails' = [Tails EXCEPT ![p] = Pop(next, q).tail]
    <3>1. n \in DOMAIN copies[t] /\ events' = events /\ eventsto' = eventsto
      BY <1>1
    <3>2. /\ QueuesIn(copies') = QueuesIn(copies)
          /\ Heads' = [Heads EXCEPT ![Copy(t, n)] = copies'[t][n].head]
          /\ Tails' = [Tails EXCEPT ![Copy(t, n)] = copies'[t][n].tail]
      BY <2>1, <3>1, SetCopy
    <3> QED
      BY <2>1, <3>2 DEF p
  <2>3. Linked(QueuesIn(copies'), Heads', Tails', next', own2, pos)
    BY <2>2, <1>1, <1>5
  <2>4. Tracked(own2, copies', src', to', at', cur')
    <3>1. /\ src' = src /\ to' = to /\ at[t] = "delivering" /\ at'[t] = "entering" /\ cur'[t] = e
          /\ \A u \in Threads : u # t => at'[u] = at[u] /\ cur'[u] = cur[u]
      BY <1>0, <1>1 DEF TypeOK
    <3>2. \A f \in Events : own2[f] \in QueuesIn(copies') \cup {Carried(u) : u \in Threads}
                                                             \cup {Nowhere}
      BY <2>2, <1>2, <1>6 DEF Tracked
    <3>3. \A f \in Events : src'[f] = -1 <=> own2[f] = Nowhere
      BY <3>1, <1>2, <1>4, <1>6, SlotsDiffer DEF Tracked
    <3>4. \A f \in Events, d \in Ctxs : own2[f] = Own(d) => to'[f] = d
      BY <3>1, <1>2, <1>6, SlotsDiffer DEF Tracked
    <3>5. \A u \in Threads : at'[u] = "entering" => own2[cur'[u]] = Carried(u)
      <4>1. \A u \in Threads : at[u] = "entering" => cur[u] \in Events /\ cur[u] # e
        BY <1>0, <1>2, <1>4, <1>6 DEF Tracked, TypeOK
      <4> QED
        BY <4>1, <3>1, <1>2, <1>6 DEF Tracked
    <3>6. \A f \in Events, u \in Threads :
             own2[f] = Carried(u) => at'[u] = "entering" /\ cur'[u] = f
      BY <3>1, <1>2, <1>6, SlotsDiffer DEF Tracked
    <3> QED
      BY <3>2, <3>3, <3>4, <3>5, <3>6 DEF Tracked
  <2> QED
    BY <2>3, <2>4, <1>6 DEF Placed
<1> QED
  BY <1>7, <1>8, <1>9, <1>10, <1>11 DEF IInv

(* The innermost copy is empty and nn_ctx_leave returns.                   *)
LEMMA StepReturn ==
    ASSUME IInv, NEW t \in Threads, Return(t)
    PROVE  IInv'
<1> DEFINE n == Len(copies[t])
           p == Copy(t, n)
           outer == SubSeq(copies[t], 1, n - 1)
<1>0. TypeOK /\ HoldsOnlyHere /\ NothingStranded /\ HandlesHere /\ Placed
  BY DEF IInv
<1>1. /\ n \in DOMAIN copies[t] /\ at[t] = "delivering" /\ QueueEmpty(copies[t][n])
      /\ copies[t] # <<>> /\ copies' = [copies EXCEPT ![t] = SubSeq(copies[t], 1, Len(copies[t]) - 1)]
      /\ outer \in Seq(QueueHead(Events)) /\ at' = [at EXCEPT ![t] = BackFrom(outer)]
      /\ UNCHANGED <<sync, events, eventsto, next, to, src, here, cur, fuel>>
  <2>1. at[t] = "delivering" /\ copies[t] \in Seq(QueueHead(Events)) /\ copies[t] # <<>>
    BY <1>0 DEF Return, TypeOK
  <2>2. n \in DOMAIN copies[t] /\ outer \in Seq(QueueHead(Events))
    BY <2>1
  <2> QED
    BY <2>1, <2>2 DEF Return, DeliveredAll
<1>2. PICK own \in [Events -> Slots], pos \in [Events -> Nat] :
        /\ Linked(QueuesIn(copies), Heads, Tails, next, own, pos)
        /\ Tracked(own, copies, src, to, at, cur)
  BY <1>0 DEF Placed
<1>3. Heads[p] = NULL /\ p \in QueuesIn(copies) /\ QueuesIn(copies) \in SUBSET Slots
  BY <1>0, <1>1, HeadsAre, TypesUsed, SlotFacts DEF QueueEmpty
<1>4. /\ QueuesIn(copies') = QueuesIn(copies) \ {p}
      /\ \A s \in QueuesIn(copies) \ {p} : Heads'[s] = Heads[s] /\ Tails'[s] = Tails[s]
  <2>1. copies \in CopyMap /\ copies[t] # <<>>
    BY <1>0, <1>1, TypesUsed
  <2>2. /\ copies'[t] = SubSeq(copies[t], 1, n - 1)
        /\ \A u \in Threads : u # t => copies'[u] = copies[u]
    BY <1>0, <1>1 DEF TypeOK
  <2> QED
    BY <2>1, <2>2, <1>1, DropCopy
<1>5. TypeOK'
  BY <1>0, <1>1 DEF TypeOK, Places, BackFrom
<1>6. at'[t] \in {"out", "delivering"} /\ \A u \in Threads : u # t => at'[u] = at[u]
  BY <1>0, <1>1 DEF TypeOK, BackFrom
<1>7. HoldsOnlyHere'
  BY <1>0, <1>1, <1>6 DEF HoldsOnlyHere, Held
<1>8. NothingStranded'
  BY <1>0, <1>1 DEF NothingStranded
<1>9. HandlesHere'
  BY <1>0, <1>1, <1>6 DEF HandlesHere
<1>10. Placed'
  <2>1. /\ Heads \in Pointers(QueuesIn(copies)) /\ Tails \in Pointers(QueuesIn(copies))
        /\ next \in Links
    BY <1>0, TypesUsed
  <2>2. Linked(QueuesIn(copies), Heads, Tails, next, own, pos)
    BY <1>2
  <2>3. QueuesIn(copies') = QueuesIn(copies) \ {p}
    BY <1>4
  <2>4. \A s \in QueuesIn(copies') : Heads'[s] = Heads[s]
    BY <1>4
  <2>5. \A s \in QueuesIn(copies') : Tails'[s] = Tails[s]
    BY <1>4
  <2> HIDE DEF p
  <2>6. /\ \A e \in Events : own[e] # p
        /\ Linked(QueuesIn(copies'), Heads', Tails', next, own, pos)
    <3>1. Heads[p] = NULL /\ p \in QueuesIn(copies) /\ QueuesIn(copies) \in SUBSET Slots
      BY <1>3
    <3>2. \A e \in Events : own[e] # p
      BY <2>2, <3>1 DEF Linked, Within
    <3> QED
      BY <2>1, <2>2, <2>3, <2>4, <2>5, <3>1, <3>2, DropEmpty
  <2>7. Linked(QueuesIn(copies'), Heads', Tails', next', own, pos)
    BY <2>6, <1>1
  <2>8. Tracked(own, copies', src', to', at', cur')
    <3>1. \A e \in Events : own[e] \in QueuesIn(copies') \cup {Carried(u) : u \in Threads}
                                                            \cup {Nowhere}
      BY <2>3, <2>6, <1>2 DEF Tracked
    <3>2. src' = src /\ to' = to /\ cur' = cur /\ at[t] = "delivering"
      BY <1>1
    <3> QED
      BY <3>1, <3>2, <1>2, <1>6 DEF Tracked
  <2> QED
    BY <2>7, <2>8 DEF Placed
<1> QED
  BY <1>5, <1>7, <1>8, <1>9, <1>10 DEF IInv
(* Every step keeps the inductive invariant.                               *)
LEMMA NextIInv ==
    ASSUME IInv, [Next]_vars
    PROVE  IInv'
<1>1. ASSUME NEW t \in Threads, NEW c \in Ctxs, Enter(t, c)
      PROVE  IInv'
  BY <1>1, StepEnter
<1>2. ASSUME NEW t \in Threads, NEW e \in Events, Raise(t, e)
      PROVE  IInv'
  BY <1>2, StepRaise
<1>3. ASSUME NEW t \in Threads, NEW e \in Events, NEW c \in Ctxs, RaiseTo(t, e, c)
      PROVE  IInv'
  BY <1>3, StepRaiseTo
<1>4. ASSUME NEW t \in Threads, ProcessOwn(t)
      PROVE  IInv'
  BY <1>4, StepProcessOwn
<1>5. ASSUME NEW t \in Threads, Leave(t)
      PROVE  IInv'
  BY <1>5, StepLeave
<1>6. ASSUME NEW t \in Threads, PopCopy(t)
      PROVE  IInv'
  BY <1>6, StepPopCopy
<1>7. ASSUME NEW t \in Threads, Return(t)
      PROVE  IInv'
  BY <1>7, StepReturn
<1>8. ASSUME NEW t \in Threads, Deliver(t)
      PROVE  IInv'
  BY <1>8, StepDeliver
<1>9. ASSUME NEW t \in Threads, Handled(t)
      PROVE  IInv'
  BY <1>9, StepHandled
<1>10. ASSUME UNCHANGED vars
       PROVE  IInv'
  <2>1. TypeOK' /\ HoldsOnlyHere' /\ NothingStranded' /\ HandlesHere'
    BY <1>10 DEF vars, IInv, TypeOK, HoldsOnlyHere, Held, NothingStranded, HandlesHere
  <2>2. Placed'
    <3>1. PICK own \in [Events -> Slots], pos \in [Events -> Nat] :
            /\ Linked(QueuesIn(copies), Heads, Tails, next, own, pos)
            /\ Tracked(own, copies, src, to, at, cur)
      BY DEF IInv, Placed
    <3>2. Linked(QueuesIn(copies'), Heads', Tails', next', own, pos)
      BY <1>10, <3>1 DEF vars, Heads, Tails, QueueAt
    <3>3. Tracked(own, copies', src', to', at', cur')
      BY <1>10, <3>1 DEF vars
    <3> QED
      BY <3>2, <3>3 DEF Placed
  <2> QED
    BY <2>1, <2>2 DEF IInv
<1> QED
  BY <1>1, <1>2, <1>3, <1>4, <1>5, <1>6, <1>7, <1>8, <1>9, <1>10 DEF Next, Step, User, Quiet

(* The inductive invariant holds in every behaviour.                       *)
LEMMA IInvHolds == Spec => []IInv
<1>1. Init => IInv
  BY InitIInv
<1>2. IInv /\ [Next]_vars => IInv'
  BY NextIInv
<1> QED
  BY <1>1, <1>2, PTL DEF Spec

(* Type correctness of contexts and events: in particular no pop returns a *)
(* pointer that is not an event, and the loop that delivers always has a   *)
(* copy to read.                                                           *)
THEOREM TypeCorrect == Spec => []TypeOK
BY IInvHolds, PTL DEF IInv

(* A thread holds the mutex of the context it is in and no other, and none *)
(* while it waits for one (nn_ctx_leave unlocks before it enters the next  *)
(* context).                                                               *)
THEOREM OneContext == Spec => []HoldsOnlyHere
BY IInvHolds, PTL DEF IInv

(* When the mutex of a context is free both its queues are empty:          *)
(* nn_ctx_leave leaves nothing behind, whatever the threads interleave.    *)
THEOREM EmptyWhenFree == Spec => []NothingStranded
BY IInvHolds, PTL DEF IInv

(* What the loops pop is raised: the head of a context's own queue was     *)
(* raised to this context, and a thread carries a raised event.            *)
LEMMA DueAreRaised ==
    ASSUME IInv
    PROVE  /\ \A c \in Ctxs : ~QueueEmpty(events[c]) =>
                 LET e == events[c].head IN e \in Events /\ src[e] # -1 /\ to[e] = c
           /\ \A t \in Threads : at[t] = "entering" => cur[t] \in Events /\ src[cur[t]] # -1
<1>0. TypeOK /\ Placed
  BY DEF IInv
<1>1. PICK own \in [Events -> Slots], pos \in [Events -> Nat] :
        /\ Linked(QueuesIn(copies), Heads, Tails, next, own, pos)
        /\ Tracked(own, copies, src, to, at, cur)
  BY <1>0 DEF Placed
<1>2. ASSUME NEW c \in Ctxs, ~QueueEmpty(events[c])
      PROVE  LET e == events[c].head IN e \in Events /\ src[e] # -1 /\ to[e] = c
  <2> DEFINE e == events[c].head
  <2>1. Own(c) \in QueuesIn(copies) /\ Heads[Own(c)] = e
    BY <1>0, HeadsAre, TypesUsed, SlotFacts
  <2>2. e \in Events /\ e # NULL
    BY <1>0, <1>2 DEF TypeOK, QueueHead, QueueEmpty
  <2>3. own[e] = Own(c)
    BY <1>1, <2>1, <2>2 DEF Linked, Ends
  <2>4. src[e] # -1 /\ to[e] = c
    BY <1>1, <2>2, <2>3, SlotsDiffer DEF Tracked
  <2> QED
    BY <2>2, <2>4
<1>3. ASSUME NEW t \in Threads, at[t] = "entering"
      PROVE  cur[t] \in Events /\ src[cur[t]] # -1
  <2>1. cur[t] \in Events
    BY <1>0, <1>3 DEF TypeOK
  <2> QED
    BY <1>1, <1>3, <2>1, SlotsDiffer DEF Tracked
<1> QED
  BY <1>2, <1>3

(* Every step of Ctx is a step of Mailbox or stutters.                     *)
LEMMA StepMails ==
    ASSUME IInv, [Next]_vars
    PROVE  [Mail!MailNext]_(Mail!mailVars)
<1> DEFINE due == [e \in Events |-> IF src[e] = -1 THEN None ELSE to[e]]
<1>0. TypeOK /\ HoldsOnlyHere /\ HandlesHere
  BY DEF IInv
<1>1. ASSUME NEW t \in Threads, NEW c \in Ctxs, Enter(t, c)
      PROVE  Mail!Call(t, c)
  <2>1. \A d \in Ctxs : sync[d] # t
    BY <1>0, <1>1 DEF Enter, HoldsOnlyHere, Held
  <2> QED
    BY <2>1, <1>1 DEF Enter, Mail!Call, Mail!Occupy, Mail!Owns
<1>2. ASSUME NEW t \in Threads, NEW e \in Events, NEW c \in Ctxs, MayRaise(t, e, c), Raised(e, c),
             sync' = sync
      PROVE  Mail!RaiseEvent(t, e, c)
  <2>1. \E d \in Ctxs : sync[d] = t
    BY <1>0, <1>2 DEF MayRaise, Processed, HoldsOnlyHere, TypeOK
  <2>2. due[e] = None
    BY <1>2 DEF MayRaise, Processed
  <2>3. due' = [due EXCEPT ![e] = c]
    <3>1. /\ src'[e] # -1 /\ to'[e] = c
          /\ \A f \in Events : f # e => src'[f] = src[f] /\ to'[f] = to[f]
      BY <1>0, <1>2 DEF Raised, TypeOK
    <3> QED
      BY <3>1
  <2> QED
    BY <2>1, <2>2, <2>3, <1>2 DEF Mail!RaiseEvent, Mail!Owns
<1>3. ASSUME NEW t \in Threads, NEW e \in Events, Raise(t, e)
      PROVE  Mail!MailNext
  <2>1. here[t] \in Ctxs
    BY <1>0 DEF TypeOK
  <2> QED
    BY <2>1, <1>2, <1>3 DEF Raise, Mail!MailNext
<1>4. ASSUME NEW t \in Threads, NEW e \in Events, NEW c \in Ctxs, RaiseTo(t, e, c)
      PROVE  Mail!MailNext
  BY <1>2, <1>4 DEF RaiseTo, Mail!MailNext
<1>5. ASSUME NEW t \in Threads, ProcessOwn(t)
      PROVE  Mail!MailNext
  <2>1. PICK c \in Ctxs : c = here[t] /\ sync[c] = t /\ ~QueueEmpty(events[c])
    BY <1>0, <1>5 DEF ProcessOwn, TypeOK, HoldsOnlyHere, Held
  <2>2. PICK e \in Events : e = events[c].head /\ src[e] # -1 /\ to[e] = c
    BY <2>1, DueAreRaised
  <2>3. src' = [src EXCEPT ![e] = -1] /\ to' = to /\ sync' = sync
    BY <2>1, <2>2, <1>5 DEF ProcessOwn, Process
  <2>4. due[e] = c /\ c # None /\ due' = [due EXCEPT ![e] = None]
    BY <2>1, <2>2, <2>3, <1>0, CtxAssumption DEF TypeOK
  <2>5. Mail!HandleInside(t, e)
    BY <2>1, <2>3, <2>4 DEF Mail!HandleInside, Mail!Owns
  <2> QED
    BY <2>2, <2>5 DEF Mail!MailNext
<1>6. ASSUME NEW t \in Threads, Leave(t)
      PROVE  Mail!MailNext
  <2>1. here[t] \in Ctxs /\ sync[here[t]] = t
    BY <1>0, <1>6 DEF Leave, TypeOK, HoldsOnlyHere, Held
  <2>2. Mail!Vacate(t, here[t])
    BY <2>1, <1>6 DEF Leave, Mail!Vacate, Mail!Owns
  <2> QED
    BY <2>1, <2>2 DEF Mail!MailNext
<1>7. ASSUME NEW t \in Threads, Deliver(t)
      PROVE  Mail!MailNext
  <2>0. at[t] = "entering"
    BY <1>7 DEF Deliver
  <2>1. PICK e \in Events, c \in Ctxs : e = cur[t] /\ c = to[e] /\ src[e] # -1
    BY <2>0, <1>0, DueAreRaised DEF TypeOK
  <2>2. /\ sync[c] = None /\ sync' = [sync EXCEPT ![c] = t]
        /\ src' = [src EXCEPT ![e] = -1] /\ to' = to
    BY <2>1, <1>7 DEF Deliver, MayEnter, Process
  <2>3. \A d \in Ctxs : sync[d] # t
    BY <2>0, <1>0 DEF HoldsOnlyHere, Held
  <2>4. due[e] = c
    BY <2>1
  <2>5. c # None /\ due' = [due EXCEPT ![e] = None]
    BY <2>1, <2>2, <1>0, CtxAssumption DEF TypeOK
  <2>6. Mail!HandleRemote(t, e)
    BY <2>2, <2>3, <2>4, <2>5 DEF Mail!HandleRemote, Mail!Occupy, Mail!Owns
  <2> QED
    BY <2>1, <2>6 DEF Mail!MailNext
<1>8. ASSUME sync' = sync, src' = src, to' = to
      PROVE  UNCHANGED Mail!mailVars
  BY <1>8 DEF Mail!mailVars
<1>9. ASSUME NEW t \in Threads, PopCopy(t) \/ Return(t) \/ Handled(t)
      PROVE  UNCHANGED Mail!mailVars
  BY <1>8, <1>9 DEF PopCopy, Return, Handled
<1>10. ASSUME UNCHANGED vars
       PROVE  UNCHANGED Mail!mailVars
  BY <1>8, <1>10 DEF vars
<1>11. \A t \in Threads, c \in Ctxs : Enter(t, c) => Mail!MailNext
  BY <1>1 DEF Mail!MailNext
<1> QED
  BY <1>3, <1>4, <1>5, <1>6, <1>7, <1>9, <1>10, <1>11 DEF Next, Step, User, Quiet

(* nn_ctx_leave with its copies implements the mailbox: an event that was  *)
(* raised is handled once, in the context it was raised to, by a thread    *)
(* that holds this context alone.                                          *)
THEOREM ImplementsMailbox == Spec => MailSpec
<1>1. Init => Mail!MailInit
  BY DEF Init, Mail!MailInit
<1>2. IInv /\ [Next]_vars => [Mail!MailNext]_(Mail!mailVars)
  BY StepMails
<1> QED
  BY <1>1, <1>2, IInvHolds, PTL DEF Spec, MailSpec, Mail!MailSpec
-----------------------------------------------------------------------------
(* A set of numbers that is not empty has a least element.                 *)
LEMMA LeastNumber ==
    ASSUME NEW T \in SUBSET Nat, T # {}
    PROVE  \E x \in T : \A y \in T : x <= y
<1> DEFINE R == OpToRel(<, Nat)
<1>1. IsWellFoundedOn(R, Nat)
  BY NatLessThanWellFounded
<1>2. \A x, y \in Nat : y < x => <<y, x>> \in R
  BY DEF OpToRel
<1> HIDE DEF R
<1>3. PICK x \in T : \A y \in T : ~(<<y, x>> \in R)
  BY <1>1, WFMin
<1>4. \A y \in T : ~(y < x)
  BY <1>2, <1>3
<1>5. \A y \in T : x <= y
  BY <1>4
<1> QED
  BY <1>5

(* A walk along the links from the head meets exactly the items that own   *)
(* gives to the queue, and ends at the tail. That no item is left out is   *)
(* shown at the least position of one that would be.                       *)
LEMMA ChainIsOwned ==
    ASSUME NEW D \in SUBSET Slots, NEW hd \in Pointers(D), NEW tl \in Pointers(D),
           NEW nx \in Links, NEW own \in [Events -> Slots], NEW pos \in [Events -> Nat],
           Linked(D, hd, tl, nx, own, pos),
           NEW p \in D, NEW q \in QueueHead(Events), q.head = hd[p], q.tail = tl[p]
    PROVE  /\ \A e \in Events : e \in Chain(nx, q) <=> own[e] = p
           /\ WellLinked(nx, q)
<1> DEFINE Closed(S) == /\ q.head \in Events => q.head \in S
                        /\ \A j \in S : nx[j] \in Events => nx[j] \in S
<1>1. /\ DOMAIN nx = Events
      /\ \A e : e \in Chain(nx, q) <=> e \in Events /\ \A S \in SUBSET Events : Closed(S) => e \in S
  BY DEF Links, Chain
<1>2. \A e \in Events : own[e] = p => Within(e, p, hd, tl, nx, own, pos)
  BY DEF Linked
<1>3. Ends(p, hd, tl, nx, own)
  BY DEF Linked
<1>4. ASSUME NEW e \in Events, e \in Chain(nx, q)
      PROVE  own[e] = p
  <2> DEFINE S == {f \in Events : own[f] = p}
  <2>1. q.head \in Events => q.head \in S
    BY <1>3, CtxAssumption DEF Ends
  <2>2. \A j \in S : nx[j] \in Events => nx[j] \in S
    BY <1>2, CtxAssumption DEF Within
  <2>3. S \in SUBSET Events /\ Closed(S)
    BY <2>1, <2>2
  <2> HIDE DEF Closed
  <2>4. e \in S
    BY <2>3, <1>1, <1>4
  <2> QED
    BY <2>4
<1>5. ASSUME NEW e \in Events, own[e] = p, NEW S \in SUBSET Events, Closed(S)
      PROVE  e \in S
  <2> DEFINE Reached(k) == \E f \in S : own[f] = p /\ pos[f] = k
             T == {k \in Nat : pos[q.head] <= k /\ k <= pos[e] /\ ~Reached(k)}
  <2>1. /\ q.head \in S /\ q.head \in Events /\ own[q.head] = p
        /\ pos[q.head] <= pos[e] /\ pos[e] <= pos[tl[p]]
    BY <1>2, <1>3, <1>5 DEF Within, Ends, Pointers
  <2>2. \A f \in Events : pos[f] \in Nat
    OBVIOUS
  <2>3. T = {}
    <3> SUFFICES ASSUME T # {} PROVE FALSE
      OBVIOUS
    <3>1. PICK k \in T : \A y \in T : k <= y
      BY LeastNumber
    <3>2. k \in Nat /\ pos[q.head] <= k /\ k <= pos[e] /\ ~Reached(k)
      OBVIOUS
    <3>3. k # pos[q.head]
      BY <2>1, <3>2
    <3>4. k - 1 \in Nat /\ pos[q.head] <= k - 1 /\ k - 1 < pos[e] /\ ~(k <= k - 1)
      BY <2>1, <2>2, <3>2, <3>3
    <3>5. Reached(k - 1)
      BY <3>1, <3>4, <2>1, <2>2
    <3>6. PICK f \in S : own[f] = p /\ pos[f] = k - 1
      BY <3>5
    <3>7. f # tl[p] /\ Within(f, p, hd, tl, nx, own, pos)
      BY <3>4, <3>6, <2>1, <2>2, <1>2
    <3>8. nx[f] \in Events /\ own[nx[f]] = p /\ pos[nx[f]] = k
      BY <3>4, <3>6, <3>7, <2>2 DEF Within, Links
    <3>9. nx[f] \in S
      BY <3>6, <3>8, <1>5
    <3> QED
      BY <3>2, <3>8, <3>9
  <2>4. Reached(pos[e])
    BY <2>1, <2>2, <2>3
  <2> QED
    BY <2>4, <1>5 DEF Linked
<1>6. \A e \in Events : e \in Chain(nx, q) <=> own[e] = p
  <2> HIDE DEF Closed
  <2> QED
    BY <1>1, <1>4, <1>5
<1>7. WellLinked(nx, q)
  <2>1. CASE q.head = NULL
    BY <2>1, <1>3 DEF WellLinked, Ends
  <2>2. CASE q.head # NULL
    <3>1. q.tail \in Events /\ own[q.tail] = p /\ nx[q.tail] = NULL
      BY <2>2, <1>3 DEF Ends, Pointers
    <3>2. \A i \in Chain(nx, q) : i \in Events /\ own[i] = p
      BY <1>1, <1>6
    <3>3. \A i \in Chain(nx, q) : (nx[i] = NULL <=> i = q.tail) /\ nx[i] # NOTINQUEUE
      BY <3>1, <3>2, <1>2 DEF Within
    <3> QED
      BY <2>2, <3>1, <3>3, <1>6 DEF WellLinked
  <2> QED
    BY <2>1, <2>2
<1> QED
  BY <1>6, <1>7

(* The slots say where an event is: a raised event is in the slot that own *)
(* names and in no other, so EventsConserved follows from the invariant.   *)
LEMMA PlacedConserves ==
    ASSUME IInv
    PROVE  EventsConserved
<1>0. TypeOK /\ Placed
  BY DEF IInv
<1>1. PICK own \in [Events -> Slots], pos \in [Events -> Nat] :
        /\ Linked(QueuesIn(copies), Heads, Tails, next, own, pos)
        /\ Tracked(own, copies, src, to, at, cur)
  BY <1>0 DEF Placed
<1>2. /\ QueuesIn(copies) \in SUBSET Slots /\ next \in Links
      /\ Heads \in Pointers(QueuesIn(copies)) /\ Tails \in Pointers(QueuesIn(copies))
  BY <1>0, TypesUsed, SlotFacts
<1>3. ASSUME NEW c \in Ctxs
      PROVE  /\ \A e \in Events : e \in Chain(next, events[c]) <=> own[e] = Own(c)
             /\ WellLinked(next, events[c])
  <2>1. /\ Own(c) \in QueuesIn(copies) /\ events[c] \in QueueHead(Events)
        /\ events[c].head = Heads[Own(c)] /\ events[c].tail = Tails[Own(c)]
    BY <1>0, TypesUsed, SlotFacts, HeadsAre DEF TypeOK
  <2> QED
    BY <2>1, <1>1, <1>2, ChainIsOwned
<1>4. ASSUME NEW c \in Ctxs
      PROVE  /\ \A e \in Events : e \in Chain(next, eventsto[c]) <=> own[e] = Outgoing(c)
             /\ WellLinked(next, eventsto[c])
  <2>1. /\ Outgoing(c) \in QueuesIn(copies) /\ eventsto[c] \in QueueHead(Events)
        /\ eventsto[c].head = Heads[Outgoing(c)] /\ eventsto[c].tail = Tails[Outgoing(c)]
    BY <1>0, TypesUsed, SlotFacts, HeadsAre DEF TypeOK
  <2> QED
    BY <2>1, <1>1, <1>2, ChainIsOwned
<1>5. ASSUME NEW t \in Threads, NEW n \in DOMAIN copies[t]
      PROVE  /\ \A e \in Events : e \in Chain(next, copies[t][n]) <=> own[e] = Copy(t, n)
             /\ WellLinked(next, copies[t][n])
  <2>1. /\ Copy(t, n) \in QueuesIn(copies)
        /\ copies[t][n].head = Heads[Copy(t, n)] /\ copies[t][n].tail = Tails[Copy(t, n)]
    BY <1>0, TypesUsed, SlotFacts, HeadsAre
  <2>2. copies[t][n] \in QueueHead(Events)
    BY <1>0 DEF TypeOK
  <2> QED
    BY <2>1, <2>2, <1>1, <1>2, ChainIsOwned
<1>6. ASSUME NEW e \in Events
      PROVE  Cardinality(Whereabouts(e)) = IF src[e] = -1 THEN 0 ELSE 1
  <2> DEFINE W == Whereabouts(e)
  <2>1. \A t \in Threads : at[t] = "entering" /\ cur[t] = e <=> own[e] = Carried(t)
    BY <1>1 DEF Tracked
  <2>2. \A w : w \in W <=>
            \/ \E c \in Ctxs : w = <<"events", c>> /\ own[e] = Own(c)
            \/ \E c \in Ctxs : w = <<"eventsto", c>> /\ own[e] = Outgoing(c)
            \/ \E t \in Threads : \E n \in DOMAIN copies[t] :
                  w = <<"copy", t, n>> /\ own[e] = Copy(t, n)
            \/ \E t \in Threads : w = <<"entering", t>> /\ own[e] = Carried(t)
    <3> DEFINE W1 == {<<"events", c>> : c \in {c \in Ctxs : e \in Chain(next, events[c])}}
               W2 == {<<"eventsto", c>> : c \in {c \in Ctxs : e \in Chain(next, eventsto[c])}}
               W3 == UNION {{<<"copy", t, n>> : n \in {n \in DOMAIN copies[t] :
                                e \in Chain(next, copies[t][n])}} : t \in Threads}
               W4 == {<<"entering", t>> : t \in {t \in Threads : at[t] = "entering" /\ cur[t] = e}}
    <3>1. \A w : w \in W1 <=> \E c \in Ctxs : w = <<"events", c>> /\ own[e] = Own(c)
      BY <1>3
    <3>2. \A w : w \in W2 <=> \E c \in Ctxs : w = <<"eventsto", c>> /\ own[e] = Outgoing(c)
      BY <1>4
    <3>3. \A w : w \in W3 <=> \E t \in Threads : \E n \in DOMAIN copies[t] :
                                  w = <<"copy", t, n>> /\ own[e] = Copy(t, n)
      BY <1>5
    <3>4. \A w : w \in W4 <=> \E t \in Threads : w = <<"entering", t>> /\ own[e] = Carried(t)
      BY <2>1
    <3>5. W = W1 \cup W2 \cup W3 \cup W4
      BY DEF Whereabouts
    <3> HIDE DEF W, W1, W2, W3, W4
    <3> QED
      BY <3>1, <3>2, <3>3, <3>4, <3>5
  <2> HIDE DEF W
  <2>3. CASE src[e] = -1
    <3>1. own[e] = Nowhere
      BY <1>1, <2>3 DEF Tracked
    <3>2. W = {}
      BY <2>2, <3>1, SlotsDiffer
    <3> QED
      BY <2>3, <3>2, FS_EmptySet DEF W
  <2>4. CASE src[e] # -1
    <3>1. \E w : W = {w}
      <4>1. own[e] \in QueuesIn(copies) \cup {Carried(t) : t \in Threads} /\ own[e] # Nowhere
        BY <1>1, <2>4 DEF Tracked
      <4>2. CASE \E c \in Ctxs : own[e] = Own(c)
        <5>1. PICK c \in Ctxs : own[e] = Own(c)
          BY <4>2
        <5>2. W = {<<"events", c>>}
          BY <2>2, <5>1, SlotsDiffer
        <5> QED
          BY <5>2
      <4>3. CASE \E c \in Ctxs : own[e] = Outgoing(c)
        <5>1. PICK c \in Ctxs : own[e] = Outgoing(c)
          BY <4>3
        <5>2. W = {<<"eventsto", c>>}
          BY <2>2, <5>1, SlotsDiffer
        <5> QED
          BY <5>2
      <4>4. CASE \E t \in Threads : \E n \in DOMAIN copies[t] : own[e] = Copy(t, n)
        <5>1. PICK t \in Threads : \E n \in DOMAIN copies[t] : own[e] = Copy(t, n)
          BY <4>4
        <5>2. PICK n \in DOMAIN copies[t] : own[e] = Copy(t, n)
          BY <5>1
        <5>3. W = {<<"copy", t, n>>}
          BY <2>2, <5>2, SlotsDiffer
        <5> QED
          BY <5>3
      <4>5. CASE \E t \in Threads : own[e] = Carried(t)
        <5>1. PICK t \in Threads : own[e] = Carried(t)
          BY <4>5
        <5>2. W = {<<"entering", t>>}
          BY <2>2, <5>1, SlotsDiffer
        <5> QED
          BY <5>2
      <4> QED
        BY <4>1, <4>2, <4>3, <4>4, <4>5 DEF QueuesIn, Copy, Slots, Slot
    <3> QED
      BY <2>4, <3>1, FS_Singleton DEF W
  <2> QED
    BY <2>3, <2>4
<1> QED
  BY <1>3, <1>4, <1>5, <1>6 DEF EventsConserved

(* The intrusive queues and the copies of their heads never share, lose or *)
(* double an event: a raised event is in exactly one place, and every      *)
(* chain ends at its tail.                                                 *)
THEOREM EventsAreConserved == Spec => []EventsConserved
BY IInvHolds, PlacedConserves, PTL
=============================================================================
