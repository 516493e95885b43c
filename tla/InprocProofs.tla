---------------------------- MODULE InprocProofs ----------------------------
(***************************************************************************)
(* Proofs about the registry and the endpoints of transports/inproc        *)
(* (module Inproc), for any endpoints, sockets, addresses, protocols and   *)
(* threads, and whichever lines of cinproc.c are read as they are written. *)
(***************************************************************************)
EXTENDS Inproc, SeqLemmas, FiniteSetTheorems

(* No item is twice in a list.                                             *)
Distinct(s) == \A i, k \in 1..Len(s) : s[i] = s[k] => i = k

(* An end that exists: nn_sinproc_init was called and nn_free was not.     *)
Live(x) == end[x] \notin {"NONE", "FREED"}

(* The registry (ins.c) is true: an endpoint is active if and only if a    *)
(* list of it holds it, no address is bound twice, and no connecting       *)
(* endpoint is listed twice.                                               *)
RegistryInv ==
    /\ \A e \in Ep : ep[e] = "ACTIVE" <=> e \in bound \/ Contains(connected, e)
    /\ \A b, c \in bound : SameAddr(b, c) => b = c
    /\ Distinct(connected)

(* The list of an endpoint has its ends as long as they exist.             *)
ListsInv ==
    \A e \in Ep :
        /\ Distinct(sinprocs[e])
        /\ \A x \in Ends : Contains(sinprocs[e], x) <=> x.own = e /\ Live(x)
        /\ ep[e] = "none" => \A x \in Ends : x.own = e => end[x] = "NONE"
        /\ ep[e] = "gone" => sinprocs[e] = <<>>

(* Thread t carries at place i the event for which y will be made.         *)
Asks(t, i, y) == i \in 1..Len(hand[t]) /\ hand[t][i] = Event("CONNECT", y)

(* An end is asked for once, by its partner.                               *)
AsksInv ==
    /\ \A t \in Threads, i \in Nat, y \in Ends : Asks(t, i, y) =>
          y.role = "acc" /\ end[y] = "NONE" /\ end[Partner(y)] # "NONE"
    /\ \A t, u \in Threads, i, k \in Nat, y \in Ends :
          Asks(t, i, y) /\ Asks(u, k, y) => t = u /\ i = k
    /\ \A y \in Ends : y.role = "acc" /\ end[y] # "NONE" => end[Partner(y)] # "NONE"

(* Of a bound and a connected endpoint the one that came last has made a   *)
(* connection, if they are peers; so the other one was there.              *)
Fit(b, c) == SameAddr(b, c) /\ IsPeer(b, c)

(* A binder and a connector: a pipe between them is only made when they    *)
(* fit and both were started, one of them made it, never both, and one did *)
(* if they fit and are both registered.                                    *)
PairInv(b, c) ==
    /\ end[ConnEnd(b, c)] # "NONE" => ep[c] # "none" /\ Fit(b, c)
    /\ end[ConnEnd(c, b)] # "NONE" => ep[b] # "none" /\ Fit(b, c)
    /\ end[ConnEnd(b, c)] = "NONE" \/ end[ConnEnd(c, b)] = "NONE"
    /\ Registered(b, c) /\ Fit(b, c) =>
          end[ConnEnd(b, c)] # "NONE" \/ end[ConnEnd(c, b)] # "NONE"

(* The previous for every pair, when no call was made out of turn.         *)
PairsInv == slips = {} => \A b \in Binder, c \in Connector : PairInv(b, c)

(* The inductive invariant.                                                *)
IInv == TypeOK /\ RegistryInv /\ ListsInv /\ AsksInv /\ PairsInv
-----------------------------------------------------------------------------
(* The function by which Chosen is defined, up to the place n.             *)
Keeps(f, s, S, n) ==
    f = [i \in 0..n |-> IF i = 0 THEN <<>>
                        ELSE IF s[i] \in S THEN Append(f[i - 1], s[i]) ELSE f[i - 1]]

(* There is such a function.                                               *)
LEMMA KeepsExists ==
    ASSUME NEW S, NEW s \in Seq(S), NEW T, NEW n \in Nat
    PROVE  \E f : Keeps(f, s, T, n)
<1> DEFINE Bad == {k \in Nat : ~ \E f : Keeps(f, s, T, k)}
<1> SUFFICES ASSUME Bad # {} PROVE FALSE
  OBVIOUS
<1>1. PICK k \in Bad : \A j \in Bad : k <= j
  <2>1. Bad \in SUBSET Nat
    OBVIOUS
  <2> HIDE DEF Bad
  <2> QED
    BY <2>1, LeastNumber
<1>2. CASE k = 0
  <2> DEFINE f == [i \in 0..0 |-> <<>>]
  <2>1. f = [i \in 0..0 |-> IF i = 0 THEN <<>>
                        ELSE IF s[i] \in T THEN Append(f[i - 1], s[i]) ELSE f[i - 1]]
    OBVIOUS
  <2> HIDE DEF f
  <2>2. Keeps(f, s, T, 0)
    BY <2>1 DEF Keeps
  <2> QED
    BY <1>2, <2>2
<1>3. CASE k # 0
  <2>1. k - 1 \in Nat /\ k \in Nat /\ k - 1 \notin Bad
    BY <1>1, <1>3
  <2>2. PICK f : Keeps(f, s, T, k - 1)
    BY <2>1
  <2> DEFINE g == [i \in 0..k |-> IF i = k THEN IF s[k] \in T THEN Append(f[k - 1], s[k]) ELSE f[k - 1]
                                           ELSE f[i]]
  <2>3. \A i \in 0..k - 1 : g[i] = f[i]
    BY <2>1
  <2>4. \A i \in 0..k - 1 : f[i] = IF i = 0 THEN <<>>
                        ELSE IF s[i] \in T THEN Append(f[i - 1], s[i]) ELSE f[i - 1]
    BY <2>1, <2>2 DEF Keeps
  <2>5. \A i \in 0..k : g[i] = IF i = 0 THEN <<>>
                        ELSE IF s[i] \in T THEN Append(g[i - 1], s[i]) ELSE g[i - 1]
    <3> SUFFICES ASSUME NEW i \in 0..k
                 PROVE  g[i] = IF i = 0 THEN <<>>
                        ELSE IF s[i] \in T THEN Append(g[i - 1], s[i]) ELSE g[i - 1]
      OBVIOUS
    <3>1. CASE i = k
      <4>1. g[k] = IF s[k] \in T THEN Append(f[k - 1], s[k]) ELSE f[k - 1]
        BY <2>1
      <4>2. g[k - 1] = f[k - 1]
        BY <2>1, <2>3
      <4> HIDE DEF g
      <4> QED
        BY <1>3, <3>1, <4>1, <4>2
    <3>2. CASE i # k
      <4>1. i \in 0..k - 1 /\ (i # 0 => i - 1 \in 0..k - 1)
        BY <2>1, <3>2
      <4> HIDE DEF g
      <4> QED
        BY <2>3, <2>4, <4>1
    <3> QED
      BY <3>1, <3>2
  <2>6. DOMAIN g = 0..k /\ g = [i \in 0..k |-> g[i]]
    OBVIOUS
  <2> HIDE DEF g
  <2>7. Keeps(g, s, T, k)
    BY <2>5, <2>6 DEF Keeps
  <2> QED
    BY <1>1, <2>7
<1> QED
  BY <1>2, <1>3

(* What is chosen is its value at the end of the list.                     *)
LEMMA ChosenKeeps ==
    ASSUME NEW S, NEW s \in Seq(S), NEW T
    PROVE  \E f : Keeps(f, s, T, Len(s)) /\ Chosen(s, T) = f[Len(s)]
<1> DEFINE f == CHOOSE g : Keeps(g, s, T, Len(s))
<1>1. Keeps(f, s, T, Len(s))
  <2>1. \E g : Keeps(g, s, T, Len(s))
    BY KeepsExists
  <2> QED
    BY <2>1
<1>2. Chosen(s, T) = f[Len(s)]
  BY DEF Chosen, Keeps
<1> QED
  BY <1>1, <1>2

(* Chosen keeps the members of a set, each as often as it was there.       *)
LEMMA ChosenFacts ==
    ASSUME NEW S, NEW s \in Seq(S), NEW T
    PROVE  /\ Chosen(s, T) \in Seq(S)
           /\ \A y : Contains(Chosen(s, T), y) <=> Contains(s, y) /\ y \in T
           /\ Distinct(s) => Distinct(Chosen(s, T))
<1>1. PICK f : Keeps(f, s, T, Len(s)) /\ Chosen(s, T) = f[Len(s)]
  BY ChosenKeeps
<1>2. \A i \in 0..Len(s) : f[i] = IF i = 0 THEN <<>>
                                 ELSE IF s[i] \in T THEN Append(f[i - 1], s[i]) ELSE f[i - 1]
  BY <1>1 DEF Keeps
<1> DEFINE Good(k) == /\ f[k] \in Seq(S)
                      /\ \A y : Contains(f[k], y) <=> y \in T /\ \E i \in 1..k : s[i] = y
                      /\ Distinct(s) => Distinct(f[k])
           Bad == {k \in 0..Len(s) : ~Good(k)}
<1>3. ASSUME Bad # {} PROVE FALSE
  <2>1. PICK k \in Bad : \A j \in Bad : k <= j
    <3>1. Bad \in SUBSET Nat
      OBVIOUS
    <3> HIDE DEF Bad
    <3> QED
      BY <1>3, <3>1, LeastNumber
  <2>2. k \in 0..Len(s) /\ ~Good(k)
    OBVIOUS
  <2>3. CASE k = 0
    <3>1. f[k] = <<>>
      BY <1>2, <2>2, <2>3
    <3>2. Good(k)
      BY <2>3, <3>1 DEF Contains, Distinct
    <3> QED
      BY <2>2, <3>2
  <2>4. CASE k # 0
    <3>1. k - 1 \in 0..Len(s) /\ k \in 1..Len(s) /\ k \in Nat
      BY <2>2, <2>4
    <3>2. Good(k - 1)
      <4>1. k - 1 \notin Bad
        <5> HIDE DEF Bad
        <5> QED
          BY <2>1, <3>1
      <4> QED
        BY <3>1, <4>1
    <3> DEFINE r == f[k - 1]
    <3>3. r \in Seq(S) /\ s[k] \in S /\ (Distinct(s) => Distinct(r))
          /\ \A y : Contains(r, y) <=> y \in T /\ \E i \in 1..k - 1 : s[i] = y
      BY <3>1, <3>2
    <3> HIDE DEF Good
    <3>4. f[k] = IF s[k] \in T THEN Append(r, s[k]) ELSE r
      BY <1>2, <2>2, <2>4
    <3>5. \A y : (\E i \in 1..k : s[i] = y) <=> s[k] = y \/ \E i \in 1..k - 1 : s[i] = y
      BY <3>1
    <3> HIDE DEF r
    <3>6. CASE s[k] \notin T
      <4>1. f[k] = r
        BY <3>4, <3>6
      <4> QED
        BY <2>2, <3>3, <3>5, <3>6, <4>1 DEF Good
    <3>7. CASE s[k] \in T
      <4> DEFINE a == Append(r, s[k])
      <4>1. /\ a \in Seq(S) /\ Len(a) = Len(r) + 1 /\ Len(r) \in Nat
            /\ \A i \in 1..Len(r) : a[i] = r[i]
            /\ a[Len(r) + 1] = s[k]
        BY <3>3, AppendFacts
      <4>2. f[k] = a
        BY <3>4, <3>7
      <4> HIDE DEF a
      <4>3. \A i \in 1..Len(a) : IF i = Len(r) + 1 THEN a[i] = s[k] ELSE i \in 1..Len(r) /\ a[i] = r[i]
        BY <4>1
      <4>4. ASSUME NEW y PROVE Contains(a, y) <=> Contains(r, y) \/ y = s[k]
        BY <4>1, <4>3 DEF Contains
      <4>5. \A y : Contains(a, y) <=> y \in T /\ \E i \in 1..k : s[i] = y
        BY <3>3, <3>5, <3>7, <4>4
      <4>6. ASSUME Distinct(s) PROVE Distinct(a)
        <5>1. ~Contains(r, s[k])
          <6>1. \A i \in 1..k - 1 : s[i] # s[k]
            BY <3>1, <4>6 DEF Distinct
          <6> QED
            BY <3>3, <6>1
        <5>2. Distinct(r)
          BY <3>3, <4>6
        <5> QED
          BY <4>1, <4>3, <5>1, <5>2 DEF Distinct, Contains
      <4> QED
        BY <2>2, <4>1, <4>2, <4>5, <4>6 DEF Good
    <3> QED
      BY <3>6, <3>7
  <2> QED
    BY <2>3, <2>4
<1>4. Good(Len(s))
  <2>1. Len(s) \in 0..Len(s)
    OBVIOUS
  <2> QED
    BY <1>3, <2>1
<1> QED
  BY <1>1, <1>4 DEF Contains

(* A new item is put at the end of a list.                                 *)
LEMMA AppendDistinct ==
    ASSUME NEW S, NEW s \in Seq(S), Distinct(s), NEW x \in S, ~Contains(s, x)
    PROVE  /\ Append(s, x) \in Seq(S) /\ Distinct(Append(s, x))
           /\ \A y : Contains(Append(s, x), y) <=> Contains(s, y) \/ y = x
<1> DEFINE a == Append(s, x)
<1>1. /\ a \in Seq(S) /\ Len(a) = Len(s) + 1 /\ Len(s) \in Nat
      /\ \A i \in 1..Len(s) : a[i] = s[i]
      /\ a[Len(s) + 1] = x
  BY AppendFacts
<1> HIDE DEF a
<1>2. \A i \in 1..Len(a) : IF i = Len(s) + 1 THEN a[i] = x ELSE i \in 1..Len(s) /\ a[i] = s[i]
  BY <1>1
<1>3. \A y : Contains(a, y) <=> Contains(s, y) \/ y = x
  BY <1>1, <1>2 DEF Contains
<1>4. Distinct(a)
  BY <1>2 DEF Distinct, Contains
<1> QED
  BY <1>1, <1>3, <1>4 DEF a

(* An item that is once in a list is taken out (nn_list_erase).            *)
LEMMA WithoutFacts ==
    ASSUME NEW S, NEW s \in Seq(S), Distinct(s), NEW x
    PROVE  /\ Without(s, x) \in Seq(S)
           /\ Distinct(Without(s, x))
           /\ \A y : Contains(Without(s, x), y) <=> Contains(s, y) /\ y # x
<1>1. CASE ~Contains(s, x)
  <2>1. Without(s, x) = s
    BY <1>1 DEF Without, RemoveFirst, Contains
  <2> QED
    BY <1>1, <2>1
<1>2. CASE Contains(s, x)
  <2>1. PICK p \in 1..Len(s) : s[p] = x /\ RemoveFirst(s, x) = RemoveAt(s, p)
    BY <1>2, RemoveFirstFacts
  <2> DEFINE r == RemoveAt(s, p)
             g(i) == IF i < p THEN i ELSE i + 1
  <2>2. r \in Seq(S) /\ Len(r) = Len(s) - 1
        /\ \A i \in 1..Len(s) - 1 : r[i] = IF i < p THEN s[i] ELSE s[i + 1]
    BY RemoveAtFacts
  <2> HIDE DEF r
  <2>3. \A i \in 1..Len(r) : g(i) \in 1..Len(s) /\ g(i) # p /\ r[i] = s[g(i)]
    BY <2>2
  <2>4. \A i, k \in 1..Len(r) : g(i) = g(k) => i = k
    BY <2>2
  <2>5. Distinct(r)
    BY <2>3, <2>4 DEF Distinct
  <2>6. ASSUME NEW y PROVE Contains(r, y) <=> Contains(s, y) /\ y # x
    <3>1. ASSUME Contains(r, y) PROVE Contains(s, y) /\ y # x
      BY <2>1, <2>3, <3>1 DEF Contains, Distinct
    <3>2. ASSUME Contains(s, y), y # x PROVE Contains(r, y)
      <4>1. PICK i \in 1..Len(s) : s[i] = y
        BY <3>2 DEF Contains
      <4>2. i # p
        BY <2>1, <3>2, <4>1
      <4>3. CASE i < p
        BY <2>2, <4>1, <4>3 DEF Contains
      <4>4. CASE i > p
        <5>1. i - 1 \in 1..Len(r) /\ r[i - 1] = s[(i - 1) + 1] /\ (i - 1) + 1 = i
          BY <2>2, <4>4
        <5> QED
          BY <4>1, <5>1 DEF Contains
      <4> QED
        BY <4>2, <4>3, <4>4
    <3> QED
      BY <3>1, <3>2
  <2> QED
    BY <2>1, <2>2, <2>5, <2>6 DEF r, Without
<1> QED
  BY <1>1, <1>2
-----------------------------------------------------------------------------
(* The two ends of a connection, and the events for an end.                *)
LEMMA EndFacts ==
    /\ \A x \in Ends : /\ Partner(x) \in Ends /\ Partner(Partner(x)) = x
                       /\ x.own \in Ep /\ x.oth \in Ep
                       /\ Partner(x).own = x.oth /\ Partner(x).oth = x.own
                       /\ x.role \in {"conn", "acc"} /\ Partner(x).role # x.role
    /\ \A e, p \in Ep : /\ ConnEnd(e, p) \in Ends
                        /\ ConnEnd(e, p).own = e /\ ConnEnd(e, p).oth = p
                        /\ ConnEnd(e, p).role = "conn"
    /\ \A x \in Ends : x.role = "conn" => x = ConnEnd(x.own, x.oth)
<1>1. ASSUME NEW x \in Ends
      PROVE  /\ Partner(x) \in Ends /\ Partner(Partner(x)) = x
             /\ x.own \in Ep /\ x.oth \in Ep
             /\ Partner(x).own = x.oth /\ Partner(x).oth = x.own
             /\ x.role \in {"conn", "acc"} /\ Partner(x).role # x.role
             /\ x.role = "conn" => x = ConnEnd(x.own, x.oth)
  <2>1. x = [own |-> x.own, oth |-> x.oth, role |-> x.role]
        /\ x.own \in Ep /\ x.oth \in Ep /\ x.role \in {"conn", "acc"}
    BY DEF Ends
  <2>2. Partner(x) = [own |-> x.oth, oth |-> x.own, role |-> IF x.role = "conn" THEN "acc" ELSE "conn"]
    BY DEF Partner
  <2>3. /\ Partner(x) \in Ends /\ Partner(x).own = x.oth /\ Partner(x).oth = x.own
        /\ Partner(x).role = IF x.role = "conn" THEN "acc" ELSE "conn"
    BY <2>1, <2>2 DEF Ends
  <2>4. Partner(Partner(x)) = [own |-> x.own, oth |-> x.oth, role |-> x.role]
    BY <2>1, <2>3 DEF Partner
  <2>5. x.role = "conn" => x = ConnEnd(x.own, x.oth)
    BY <2>1 DEF ConnEnd
  <2> QED
    BY <2>1, <2>3, <2>4, <2>5
<1>2. ASSUME NEW e \in Ep, NEW p \in Ep
      PROVE  /\ ConnEnd(e, p) \in Ends
             /\ ConnEnd(e, p).own = e /\ ConnEnd(e, p).oth = p
             /\ ConnEnd(e, p).role = "conn"
  BY DEF ConnEnd, Ends
<1> QED
  BY <1>1, <1>2

(* The events of the handshake, field by field.                            *)
LEMMA EventFacts ==
    /\ \A type \in Handshake \cup {"DISCONNECT"}, x \in Ends : Event(type, x) \in Events
    /\ \A type, x : Event(type, x).type = type /\ Event(type, x).to = x
    /\ \A v \in Events : v.to \in Ends /\ v.type \in Handshake \cup {"DISCONNECT"}
                         /\ v = Event(v.type, v.to)
<1>1. \A type, x : Event(type, x).type = type /\ Event(type, x).to = x
  BY DEF Event
<1>2. \A type \in Handshake \cup {"DISCONNECT"}, x \in Ends : Event(type, x) \in Events
  BY DEF Event, Events
<1>3. \A v \in Events : v.to \in Ends /\ v.type \in Handshake \cup {"DISCONNECT"}
                         /\ v = Event(v.type, v.to)
  BY DEF Event, Events
<1> QED
  BY <1>1, <1>2, <1>3

(* Init.                                                                   *)
LEMMA InitIInv == Init => IInv
<1> SUFFICES ASSUME Init PROVE IInv
  OBVIOUS
<1>1. \A x \in Ends : end[x] = "NONE"
  BY DEF Init
<1>2. \A e \in Ep : ep[e] = "none" /\ sinprocs[e] = <<>>
  BY DEF Init
<1>3. bound = {} /\ connected = <<>> /\ \A t \in Threads : hand[t] = <<>>
  BY DEF Init
<1>4. (\A S : <<>> \in Seq(S)) /\ Len(<<>>) = 0 /\ (\A x : ~Contains(<<>>, x)) /\ Distinct(<<>>)
  BY DEF Contains, Distinct
<1>5. TypeOK
  <2>1. sinprocs \in [Ep -> Seq(Ends)] /\ hand \in [Threads -> Seq(Events)] /\ connected \in Seq(Connector)
    BY <1>4 DEF Init
  <2>2. end \in [Ends -> EndStates]
    BY DEF Init, EndStates
  <2> QED
    BY <2>1, <2>2 DEF Init, TypeOK
<1>6. RegistryInv
  BY <1>2, <1>3, <1>4 DEF RegistryInv
<1>7. ListsInv
  BY <1>1, <1>2, <1>4 DEF ListsInv, Live
<1>8. AsksInv
  <2>1. \A t \in Threads : \A i, y : ~Asks(t, i, y)
    BY <1>3, <1>4 DEF Asks
  <2> QED
    BY <1>1, <2>1 DEF AsksInv
<1>9. PairsInv
  <2>1. \A b \in Binder, c \in Connector : ConnEnd(b, c) \in Ends /\ ConnEnd(c, b) \in Ends
    BY EndFacts DEF Ep
  <2> QED
    BY <1>1, <1>3, <2>1 DEF PairsInv, PairInv, Registered
<1> QED
  BY <1>5, <1>6, <1>7, <1>8, <1>9 DEF IInv
-----------------------------------------------------------------------------
(* A list whose head is replaced by the list s.                            *)
LEMMA AnswerFacts ==
    ASSUME NEW S, NEW s \in Seq(S), NEW h \in Seq(S), h # <<>>
    PROVE  /\ s \o Tail(h) \in Seq(S)
           /\ Len(s \o Tail(h)) = Len(s) + Len(h) - 1
           /\ \A i \in 1..Len(s \o Tail(h)) :
                 (s \o Tail(h))[i] = IF i <= Len(s) THEN s[i] ELSE h[i - Len(s) + 1]
<1>1. PICK q \in Seq(S) : /\ q = Tail(h) /\ Len(q) = Len(h) - 1
                         /\ \A i \in 1..Len(h) - 1 : q[i] = h[i + 1]
  <2>1. /\ Tail(h) \in Seq(S) /\ Len(Tail(h)) = Len(h) - 1
        /\ \A i \in 1..Len(h) - 1 : Tail(h)[i] = h[i + 1]
    OBVIOUS
  <2> QED
    BY <2>1, Zenon
<1>2. PICK r \in Seq(S) : /\ r = s \o q /\ Len(r) = Len(s) + Len(q)
                         /\ \A i \in 1..Len(s) : r[i] = s[i]
                         /\ \A j \in 1..Len(q) : r[j + Len(s)] = q[j]
  <2>1. /\ s \o q \in Seq(S) /\ Len(s \o q) = Len(s) + Len(q)
        /\ \A i \in 1..Len(s) : (s \o q)[i] = s[i]
        /\ \A i \in 1..Len(q) : (s \o q)[i + Len(s)] = q[i]
    OBVIOUS
  <2> QED
    BY <2>1, Zenon
<1>3. Len(s) \in Nat /\ Len(q) \in Nat /\ Len(h) \in Nat
  OBVIOUS
<1>4. ASSUME NEW i \in 1..Len(r), ~(i <= Len(s)) PROVE r[i] = h[i - Len(s) + 1]
  <2>1. i - Len(s) \in 1..Len(q) /\ (i - Len(s)) + Len(s) = i /\ i - Len(s) \in 1..Len(h) - 1
    BY <1>1, <1>2, <1>3, <1>4
  <2> QED
    BY <1>1, <1>2, <2>1
<1>5. \A i \in 1..Len(r) : i <= Len(s) => i \in 1..Len(s)
  BY <1>3
<1> QED
  BY <1>1, <1>2, <1>3, <1>4, <1>5

(* What a thread carries after it handled the event on top: nothing new is *)
(* asked for unless the answer asks, and what was on top is gone.          *)
Back(t, s, u, i) == IF u = t THEN i - Len(s) + 1 ELSE i

(* When a thread replaces its oldest event by events other than CONNECT,   *)
(* the connections it still asks for are the ones it asked for before,     *)
(* each at the place Back gives, and none is the one it handled.           *)
LEMMA HandledAsks ==
    ASSUME hand \in [Threads -> Seq(Events)],
           NEW t \in Threads, hand[t] # <<>>,
           NEW s \in Seq(Events), \A i \in 1..Len(s) : s[i].type # "CONNECT",
           hand' = Handled(t, s)
    PROVE  /\ hand' \in [Threads -> Seq(Events)]
           /\ \A u \in Threads, i \in Nat, y \in Ends : Asks(u, i, y)' =>
                 /\ Asks(u, Back(t, s, u, i), y) /\ Back(t, s, u, i) \in Nat
                 /\ u = t => Back(t, s, u, i) # 1
<1> DEFINE h == hand[t]
           r == s \o Tail(h)
<1>1. h \in Seq(Events) /\ h # <<>> /\ Len(h) \in Nat \ {0} /\ Len(s) \in Nat
  OBVIOUS
<1>3. /\ r \in Seq(Events) /\ Len(r) = Len(s) + Len(h) - 1
      /\ \A i \in 1..Len(r) : r[i] = IF i <= Len(s) THEN s[i] ELSE h[i - Len(s) + 1]
  BY <1>1, AnswerFacts
<1>4. hand' = [hand EXCEPT ![t] = r]
  BY DEF Handled
<1> HIDE DEF r, h
<1>5. hand' \in [Threads -> Seq(Events)]
  BY <1>3, <1>4
<1>6. ASSUME NEW u \in Threads, NEW i \in Nat, NEW y \in Ends, Asks(u, i, y)'
      PROVE  /\ Asks(u, Back(t, s, u, i), y) /\ Back(t, s, u, i) \in Nat
             /\ u = t => Back(t, s, u, i) # 1
  <2>1. i \in 1..Len(hand'[u]) /\ hand'[u][i] = Event("CONNECT", y)
    BY <1>6 DEF Asks
  <2>2. CASE u # t
    <3>1. hand'[u] = hand[u]
      BY <1>4, <2>2
    <3> QED
      BY <2>1, <2>2, <3>1 DEF Asks, Back
  <2>3. CASE u = t
    <3>1. hand'[u] = r
      BY <1>4, <2>3
    <3>2. ~(i <= Len(s))
      <4>1. ASSUME i <= Len(s) PROVE FALSE
        <5>1. i \in 1..Len(s) /\ r[i] = s[i]
          BY <1>1, <1>3, <2>1, <3>1, <4>1
        <5>2. s[i].type = "CONNECT"
          BY <2>1, <3>1, <5>1, EventFacts
        <5> QED
          BY <5>1, <5>2
      <4> QED
        BY <4>1
    <3>3. h[i - Len(s) + 1] = Event("CONNECT", y)
      BY <1>3, <2>1, <3>1, <3>2
    <3>4. i - Len(s) + 1 \in 1..Len(h) /\ i - Len(s) + 1 \in Nat /\ i - Len(s) + 1 # 1
      BY <1>1, <1>3, <2>1, <3>1, <3>2
    <3> QED
      BY <2>3, <3>3, <3>4 DEF Asks, Back, h
  <2> QED
    BY <2>2, <2>3
<1> QED
  BY <1>5, <1>6

(* What was asked for once is still asked for at most once.                *)
LEMMA HandledOnce ==
    ASSUME hand \in [Threads -> Seq(Events)], AsksInv,
           NEW t \in Threads, hand[t] # <<>>,
           NEW s \in Seq(Events), \A i \in 1..Len(s) : s[i].type # "CONNECT",
           hand' = Handled(t, s)
    PROVE  /\ hand' \in [Threads -> Seq(Events)]
           /\ \A u \in Threads, i \in Nat, y \in Ends : Asks(u, i, y)' =>
                 \E k \in Nat : Asks(u, k, y) /\ (u = t => k # 1)
           /\ \A u, v \in Threads, i, k \in Nat, y \in Ends :
                 Asks(u, i, y)' /\ Asks(v, k, y)' => u = v /\ i = k
<1>1. /\ hand' \in [Threads -> Seq(Events)]
      /\ \A u \in Threads, i \in Nat, y \in Ends : Asks(u, i, y)' =>
                 /\ Asks(u, Back(t, s, u, i), y) /\ Back(t, s, u, i) \in Nat
                 /\ u = t => Back(t, s, u, i) # 1
  BY HandledAsks
<1>2. ASSUME NEW u \in Threads, NEW v \in Threads, NEW i \in Nat, NEW k \in Nat, NEW y \in Ends,
             Asks(u, i, y)', Asks(v, k, y)'
      PROVE  u = v /\ i = k
  <2>1. u = v /\ Back(t, s, u, i) = Back(t, s, v, k)
    BY <1>1, <1>2 DEF AsksInv
  <2>2. Len(s) \in Nat
    OBVIOUS
  <2> QED
    BY <2>1, <2>2 DEF Back
<1>3. ASSUME NEW u \in Threads, NEW i \in Nat, NEW y \in Ends, Asks(u, i, y)'
      PROVE  \E k \in Nat : Asks(u, k, y) /\ (u = t => k # 1)
  BY <1>1, <1>3
<1> QED
  <2> HIDE DEF Asks
  <2> QED
    BY <1>1, <1>2, <1>3, Zenon

(* An end that is asked for by the event on top.                           *)
LEMMA OnTop ==
    ASSUME hand \in [Threads -> Seq(Events)], NEW t \in Threads, hand[t] # <<>>
    PROVE  /\ Head(hand[t]) \in Events /\ Head(hand[t]).to \in Ends
           /\ Head(hand[t]).type = "CONNECT" => Asks(t, 1, Head(hand[t]).to)
<1>1. hand[t] \in Seq(Events) /\ Len(hand[t]) \in Nat \ {0} /\ 1 \in 1..Len(hand[t])
  OBVIOUS
<1>2. Head(hand[t]) = hand[t][1] /\ hand[t][1] \in Events
  BY <1>1
<1>3. hand[t][1] = Event(hand[t][1].type, hand[t][1].to) /\ hand[t][1].to \in Ends
  BY <1>2, EventFacts
<1> QED
  BY <1>1, <1>2, <1>3 DEF Asks
-----------------------------------------------------------------------------
(* Steps after which the same ends have been made as before.               *)
Monotone ==
    /\ \A e \in Ep : ep[e] # "none" => ep'[e] # "none"
    /\ \A b, c : Registered(b, c)' => Registered(b, c)
    /\ UNCHANGED envVars

(* PairsInv survives a step that makes no pipe and frees none, when        *)
(* endpoints only move forward.                                            *)
LEMMA PairsKept ==
    ASSUME PairsInv, Monotone,
           \A b \in Ep, c \in Ep : end'[ConnEnd(b, c)] = "NONE" <=> end[ConnEnd(b, c)] = "NONE"
    PROVE  PairsInv'
<1> SUFFICES ASSUME slips = {}, NEW b \in Binder, NEW c \in Connector PROVE PairInv(b, c)'
  BY DEF PairsInv, Monotone, envVars
<1>1. PairInv(b, c) /\ b \in Ep /\ c \in Ep
  BY DEF PairsInv, Ep
<1>2. Fit(b, c)' <=> Fit(b, c)
  BY DEF Fit, SameAddr, IsPeer, Monotone, envVars
<1> QED
  BY <1>1, <1>2 DEF PairInv, Monotone

(* AsksInv survives a step that makes no pipe and asks for no new one.     *)
LEMMA AsksKept ==
    ASSUME AsksInv,
           \A x \in Ends : end'[x] = "NONE" <=> end[x] = "NONE",
           \A u \in Threads, i \in Nat, y \in Ends : Asks(u, i, y)' => \E k \in Nat : Asks(u, k, y),
           \A u, v \in Threads, i, k \in Nat, y \in Ends :
                 Asks(u, i, y)' /\ Asks(v, k, y)' => u = v /\ i = k
    PROVE  AsksInv'
<1>1. \A y \in Ends : Partner(y) \in Ends
  BY EndFacts
<1>2. ASSUME NEW u \in Threads, NEW i \in Nat, NEW y \in Ends, Asks(u, i, y)'
      PROVE  y.role = "acc" /\ end'[y] = "NONE" /\ end'[Partner(y)] # "NONE"
  <2>1. PICK k \in Nat : Asks(u, k, y)
    BY <1>2
  <2> QED
    BY <1>1, <2>1 DEF AsksInv
<1>3. \A y \in Ends : y.role = "acc" /\ end'[y] # "NONE" => end'[Partner(y)] # "NONE"
  BY <1>1 DEF AsksInv
<1> QED
  BY <1>2, <1>3 DEF AsksInv
-----------------------------------------------------------------------------
(* The events for the partners of a list of ends.                          *)
LEMMA ToPartnersFacts ==
    ASSUME NEW s \in Seq(Ends), NEW type \in Handshake \cup {"DISCONNECT"}
    PROVE  /\ ToPartners(type, s) \in Seq(Events) /\ Len(ToPartners(type, s)) = Len(s)
           /\ \A i \in 1..Len(s) : ToPartners(type, s)[i] = Event(type, Partner(s[i]))
<1> DEFINE r == [i \in 1..Len(s) |-> Event(type, Partner(s[i]))]
<1>1. ToPartners(type, s) = r
  BY DEF ToPartners
<1>2. \A i \in 1..Len(s) : Event(type, Partner(s[i])) \in Events
  <2>1. \A i \in 1..Len(s) : Partner(s[i]) \in Ends
    BY EndFacts
  <2> QED
    BY <2>1, EventFacts
<1>3. r \in Seq(Events) /\ Len(r) = Len(s)
  BY <1>2
<1>4. \A i \in 1..Len(s) : r[i] = Event(type, Partner(s[i]))
  OBVIOUS
<1> HIDE DEF r
<1> QED
  BY <1>1, <1>3, <1>4

(* The parts of AsksInv, after a step.                                     *)
LEMMA AsksParts ==
    ASSUME \A u \in Threads, i \in Nat, y \in Ends : Asks(u, i, y)' =>
              y.role = "acc" /\ end'[y] = "NONE" /\ end'[Partner(y)] # "NONE",
           \A u, v \in Threads, i, k \in Nat, y \in Ends :
              Asks(u, i, y)' /\ Asks(v, k, y)' => u = v /\ i = k,
           \A y \in Ends : y.role = "acc" /\ end'[y] # "NONE" => end'[Partner(y)] # "NONE"
    PROVE  AsksInv'
BY DEF AsksInv

(* An endpoint that starts to be active with the connections it makes: its *)
(* list has them, and their partners are asked for.                        *)
LEMMA Made ==
    ASSUME TypeOK, ListsInv, AsksInv,
           NEW t \in Threads, hand[t] = <<>>, NEW e \in Ep, ep[e] = "none",
           NEW made \in Seq(Ends), Distinct(made),
           \A i \in 1..Len(made) : made[i].own = e /\ made[i].role = "conn",
           ep' = [ep EXCEPT ![e] = "ACTIVE"],
           sinprocs' = [sinprocs EXCEPT ![e] = made],
           end' = [x \in Ends |-> IF Contains(made, x) THEN "CONNECTING" ELSE end[x]],
           hand' = Carry(t, ToPartners("CONNECT", made))
    PROVE  /\ ep' \in [Ep -> {"none", "ACTIVE", "STOPPING", "gone"}]
           /\ sinprocs' \in [Ep -> Seq(Ends)] /\ end' \in [Ends -> EndStates]
           /\ hand' \in [Threads -> Seq(Events)]
           /\ ListsInv' /\ AsksInv'
<1> DEFINE r == ToPartners("CONNECT", made)
<1>1. r \in Seq(Events) /\ Len(r) = Len(made)
      /\ \A i \in 1..Len(made) : r[i] = Event("CONNECT", Partner(made[i]))
  BY ToPartnersFacts DEF Handshake
<1>2. hand' = [hand EXCEPT ![t] = r] /\ hand \in [Threads -> Seq(Events)]
  BY DEF Carry, TypeOK
<1> HIDE DEF r
<1>3. hand' \in [Threads -> Seq(Events)]
  BY <1>1, <1>2
<1>4. ep' \in [Ep -> {"none", "ACTIVE", "STOPPING", "gone"}] /\ sinprocs' \in [Ep -> Seq(Ends)]
  BY DEF TypeOK
<1>5. end' \in [Ends -> EndStates]
  BY DEF TypeOK, EndStates
<1>6. \A x \in Ends : x.own = e => end[x] = "NONE"
  BY DEF ListsInv
<1>7. \A x \in Ends : Contains(made, x) => x.own = e /\ x.role = "conn"
  BY DEF Contains
<1>8. ListsInv'
  <2> SUFFICES ASSUME NEW f \in Ep
               PROVE  (/\ Distinct(sinprocs[f])
                       /\ \A x \in Ends : Contains(sinprocs[f], x) <=> x.own = f /\ Live(x)
                       /\ ep[f] = "none" => \A x \in Ends : x.own = f => end[x] = "NONE"
                       /\ ep[f] = "gone" => sinprocs[f] = <<>>)'
    BY DEF ListsInv
  <2>1. CASE f = e
    <3>1. sinprocs'[e] = made /\ ep'[e] = "ACTIVE"
      BY DEF TypeOK
    <3>2. \A x \in Ends : Contains(made, x) <=> x.own = e /\ end'[x] \notin {"NONE", "FREED"}
      BY <1>6, <1>7
    <3> QED
      BY <2>1, <3>1, <3>2 DEF Live
  <2>2. CASE f # e
    <3>1. sinprocs'[f] = sinprocs[f] /\ ep'[f] = ep[f]
      BY <2>2 DEF TypeOK
    <3>2. \A x \in Ends : x.own = f => end'[x] = end[x]
      BY <1>7, <2>2
    <3> QED
      BY <3>1, <3>2 DEF Live, ListsInv
  <2> QED
    BY <2>1, <2>2
<1>9. ASSUME NEW u \in Threads, NEW i \in Nat, NEW y \in Ends, Asks(u, i, y)'
      PROVE  \/ u # t /\ Asks(u, i, y)
             \/ u = t /\ i \in 1..Len(made) /\ y = Partner(made[i])
  <2>1. i \in 1..Len(hand'[u]) /\ hand'[u][i] = Event("CONNECT", y)
    BY <1>9 DEF Asks
  <2>2. CASE u # t
    <3>1. hand'[u] = hand[u]
      BY <1>2, <2>2
    <3> QED
      BY <2>1, <2>2, <3>1 DEF Asks
  <2>3. CASE u = t
    <3>1. hand'[u] = r
      BY <1>2, <2>3
    <3>2. i \in 1..Len(made) /\ Event("CONNECT", Partner(made[i])) = Event("CONNECT", y)
      BY <1>1, <2>1, <3>1
    <3> QED
      BY <2>3, <3>2, EventFacts
  <2> QED
    BY <2>2, <2>3
<1>10. \A i \in 1..Len(made) : LET y == Partner(made[i])
                               IN  /\ y.role = "acc" /\ Partner(y) = made[i] /\ made[i] \in Ends
                                   /\ end[made[i]] = "NONE" /\ end'[made[i]] = "CONNECTING"
  <2> SUFFICES ASSUME NEW i \in 1..Len(made)
               PROVE  /\ Partner(made[i]).role = "acc" /\ Partner(Partner(made[i])) = made[i]
                      /\ made[i] \in Ends
                      /\ end[made[i]] = "NONE" /\ end'[made[i]] = "CONNECTING"
    OBVIOUS
  <2>1. made[i] \in Ends /\ made[i].own = e /\ made[i].role = "conn" /\ Contains(made, made[i])
    BY DEF Contains
  <2>2. Partner(made[i]) \in Ends /\ Partner(made[i]).role \in {"conn", "acc"}
        /\ Partner(made[i]).role # "conn" /\ Partner(Partner(made[i])) = made[i]
    BY <2>1, EndFacts
  <2> QED
    BY <1>6, <2>1, <2>2
<1>11. \A y \in Ends : Partner(y) \in Ends
  BY EndFacts
<1>12. \A y \in Ends : end'[y] = "NONE" => end[y] = "NONE"
  OBVIOUS
<1>13. \A y \in Ends : y.role = "acc" => end'[y] = end[y]
  BY <1>7
<1>14. ASSUME NEW u \in Threads, NEW i \in Nat, NEW y \in Ends, Asks(u, i, y)'
       PROVE  y.role = "acc" /\ end'[y] = "NONE" /\ end'[Partner(y)] # "NONE"
  <2>1. CASE u # t /\ Asks(u, i, y)
    BY <1>11, <1>12, <1>13, <2>1 DEF AsksInv
  <2>2. CASE u = t /\ i \in 1..Len(made) /\ y = Partner(made[i])
    <3>1. y.role = "acc" /\ end[Partner(y)] = "NONE" /\ end'[Partner(y)] = "CONNECTING"
      BY <1>10, <2>2
    <3>2. end[y] = "NONE"
      BY <3>1 DEF AsksInv
    <3> QED
      BY <1>13, <3>1, <3>2
  <2> QED
    BY <1>9, <1>14, <2>1, <2>2
<1>15. ASSUME NEW u \in Threads, NEW v \in Threads, NEW i \in Nat, NEW k \in Nat, NEW y \in Ends,
              Asks(u, i, y)', Asks(v, k, y)'
       PROVE  u = v /\ i = k
  <2>1. \/ u # t /\ Asks(u, i, y)
        \/ u = t /\ i \in 1..Len(made) /\ y = Partner(made[i])
    BY <1>9, <1>15
  <2>2. \/ v # t /\ Asks(v, k, y)
        \/ v = t /\ k \in 1..Len(made) /\ y = Partner(made[k])
    BY <1>9, <1>15
  <2>3. ASSUME NEW w \in Threads, NEW j \in Nat, Asks(w, j, y),
               NEW m \in 1..Len(made), y = Partner(made[m])
        PROVE  FALSE
    BY <1>10, <2>3 DEF AsksInv
  <2>4. CASE (u # t /\ Asks(u, i, y)) /\ (v # t /\ Asks(v, k, y))
    BY <2>4 DEF AsksInv
  <2>5. CASE (u = t /\ i \in 1..Len(made) /\ y = Partner(made[i]))
             /\ (v = t /\ k \in 1..Len(made) /\ y = Partner(made[k]))
    <3>1. Partner(Partner(made[i])) = made[i] /\ Partner(Partner(made[k])) = made[k]
      BY <1>10, <2>5
    <3>2. made[i] = made[k]
      BY <2>5, <3>1
    <3> QED
      BY <2>5, <3>2 DEF Distinct
  <2> QED
    BY <2>1, <2>2, <2>3, <2>4, <2>5
<1>16. ASSUME NEW y \in Ends, y.role = "acc", end'[y] # "NONE" PROVE end'[Partner(y)] # "NONE"
  <2>1. end[Partner(y)] # "NONE" /\ Partner(y) \in Ends
    BY <1>11, <1>13, <1>16 DEF AsksInv
  <2> QED
    BY <1>12, <2>1
<1>17. AsksInv'
  <2>1. \A u \in Threads, i \in Nat, y \in Ends : Asks(u, i, y)' =>
              y.role = "acc" /\ end'[y] = "NONE" /\ end'[Partner(y)] # "NONE"
    BY <1>14, Zenon
  <2>2. \A u, v \in Threads, i, k \in Nat, y \in Ends :
              Asks(u, i, y)' /\ Asks(v, k, y)' => u = v /\ i = k
    BY <1>15, Zenon
  <2>3. \A y \in Ends : y.role = "acc" /\ end'[y] # "NONE" => end'[Partner(y)] # "NONE"
    BY <1>16, Zenon
  <2> QED
    BY <2>1, <2>2, <2>3, AsksParts, Zenon
<1> QED
  BY <1>3, <1>4, <1>5, <1>8, <1>17
-----------------------------------------------------------------------------
(* One lemma per action: it keeps the invariant.                           *)
LEMMA ConnEndsFacts ==
    ASSUME NEW e \in Ep, NEW w \in Seq(Connector), Distinct(w)
    PROVE  /\ ConnEnds(e, w) \in Seq(Ends) /\ Distinct(ConnEnds(e, w))
           /\ \A i \in 1..Len(ConnEnds(e, w)) :
                 ConnEnds(e, w)[i].own = e /\ ConnEnds(e, w)[i].role = "conn"
           /\ \A c \in Connector : Contains(w, c) => Contains(ConnEnds(e, w), ConnEnd(e, c))
           /\ \A x : Contains(ConnEnds(e, w), x) => \E c \in Connector : Contains(w, c) /\ x = ConnEnd(e, c)
<1> DEFINE r == [i \in 1..Len(w) |-> ConnEnd(e, w[i])]
<1>1. ConnEnds(e, w) = r
  BY DEF ConnEnds
<1>2. \A i \in 1..Len(w) : /\ w[i] \in Connector /\ ConnEnd(e, w[i]) \in Ends /\ ConnEnd(e, w[i]).own = e
                           /\ ConnEnd(e, w[i]).oth = w[i] /\ ConnEnd(e, w[i]).role = "conn"
  BY EndFacts DEF Ep
<1>3. r \in Seq(Ends) /\ Len(r) = Len(w) /\ \A i \in 1..Len(w) : r[i] = ConnEnd(e, w[i])
  BY <1>2
<1> HIDE DEF r
<1>4. Distinct(r)
  <2> SUFFICES ASSUME NEW i \in 1..Len(w), NEW k \in 1..Len(w), r[i] = r[k] PROVE i = k
    BY <1>3 DEF Distinct
  <2>1. w[i] = w[k]
    BY <1>2, <1>3
  <2> QED
    BY <2>1 DEF Distinct
<1>5. \A i \in 1..Len(r) : r[i].own = e /\ r[i].role = "conn"
  BY <1>2, <1>3
<1>6. ASSUME NEW c \in Connector, Contains(w, c) PROVE Contains(r, ConnEnd(e, c))
  BY <1>3, <1>6 DEF Contains
<1>7. ASSUME NEW x, Contains(r, x) PROVE \E c \in Connector : Contains(w, c) /\ x = ConnEnd(e, c)
  BY <1>2, <1>3, <1>7 DEF Contains
<1> QED
  BY <1>1, <1>3, <1>4, <1>5, <1>6, <1>7

(* nn_binproc_create, nn_ins_bind: an address in use is refused.           *)
LEMMA BindRefusedStep ==
    ASSUME IInv, NEW t \in Threads, NEW e \in Ep, BindRefused(t, e), UNCHANGED envVars
    PROVE  IInv'
<1> USE DEF IInv
<1>1. /\ ep[e] = "none" /\ ep' = [ep EXCEPT ![e] = "gone"]
      /\ UNCHANGED <<bound, connected, sinprocs, end, hand, inprogress, abort>>
  BY DEF BindRefused
<1>2. ep'[e] = "gone" /\ \A f \in Ep : f # e => ep'[f] = ep[f]
  BY <1>1 DEF TypeOK
<1>3. TypeOK'
  BY <1>1 DEF TypeOK, envVars, Sockets
<1>4. RegistryInv'
  BY <1>1, <1>2 DEF RegistryInv
<1>5. sinprocs[e] = <<>>
  <2>1. \A x \in Ends : ~Contains(sinprocs[e], x)
    BY <1>1 DEF ListsInv, Live
  <2>2. sinprocs[e] \in Seq(Ends)
    BY DEF TypeOK
  <2> QED
    BY <2>1, <2>2 DEF Contains
<1>6. ListsInv'
  BY <1>1, <1>2, <1>5 DEF ListsInv, Live
<1>7. AsksInv'
  BY <1>1 DEF AsksInv, Asks
<1>8. PairsInv'
  <2>1. Monotone
    BY <1>1, <1>2 DEF Monotone, Registered
  <2> QED
    BY <1>1, <2>1, PairsKept
<1> QED
  BY <1>3, <1>4, <1>6, <1>7, <1>8

(* nn_ins_bind: the endpoint is registered and connects to every           *)
(* connecting endpoint it fits.                                            *)
LEMMA BindStep ==
    ASSUME IInv, NEW t \in Threads, NEW e \in Ep, Bind(t, e), UNCHANGED envVars
    PROVE  IInv'
<1> DEFINE w == Waiting(e)
           made == ConnEnds(e, w)
<1>1. /\ e \in Binder /\ ep[e] = "none" /\ hand[t] = <<>> /\ ~AddrInUse(e)
      /\ ep' = [ep EXCEPT ![e] = "ACTIVE"]
      /\ bound' = bound \cup {e}
      /\ sinprocs' = [sinprocs EXCEPT ![e] = made]
      /\ end' = [x \in Ends |-> IF Contains(made, x) THEN "CONNECTING" ELSE end[x]]
      /\ hand' = Carry(t, ToPartners("CONNECT", made))
      /\ connected' = connected /\ inprogress' = inprogress
  BY DEF Bind, Calls
<1>2. /\ w \in Seq(Connector) /\ Distinct(w)
      /\ \A c \in Connector : Contains(w, c) <=> Contains(connected, c) /\ Fit(e, c)
  <2>1. connected \in Seq(Connector) /\ Distinct(connected)
    BY DEF IInv, TypeOK, RegistryInv
  <2> QED
    BY <2>1, ChosenFacts DEF Waiting, Fit
<1> HIDE DEF w
<1>3. /\ made \in Seq(Ends) /\ Distinct(made)
      /\ \A i \in 1..Len(made) : made[i].own = e /\ made[i].role = "conn"
      /\ \A c \in Connector : Contains(w, c) => Contains(made, ConnEnd(e, c))
      /\ \A x : Contains(made, x) => \E c \in Connector : Contains(w, c) /\ x = ConnEnd(e, c)
  BY <1>2, ConnEndsFacts
<1> HIDE DEF made
<1>4. /\ ep' \in [Ep -> {"none", "ACTIVE", "STOPPING", "gone"}]
      /\ sinprocs' \in [Ep -> Seq(Ends)] /\ end' \in [Ends -> EndStates]
      /\ hand' \in [Threads -> Seq(Events)]
      /\ ListsInv' /\ AsksInv'
  BY <1>1, <1>3, Made DEF IInv
<1>5. TypeOK'
  BY <1>1, <1>4 DEF TypeOK, IInv, Sockets
<1>6. ep'[e] = "ACTIVE" /\ \A f \in Ep : f # e => ep'[f] = ep[f]
  BY <1>1 DEF TypeOK, IInv
<1>7. RegistryInv'
  <2>1. \A f \in Ep : f # e => (f \in bound' <=> f \in bound)
    BY <1>1
  <2>2. \A b, c \in bound' : SameAddr(b, c) => b = c
    BY <1>1 DEF AddrInUse, SameAddr, RegistryInv, IInv
  <2> QED
    BY <1>1, <1>6, <2>1, <2>2 DEF RegistryInv, IInv
<1>8. \A x \in Ends : Contains(made, x) => x.own = e /\ Contains(connected, x.oth) /\ Fit(e, x.oth)
                                           /\ x.oth \in Connector
  <2> SUFFICES ASSUME NEW x \in Ends, Contains(made, x)
               PROVE  x.own = e /\ Contains(connected, x.oth) /\ Fit(e, x.oth) /\ x.oth \in Connector
    OBVIOUS
  <2>1. PICK c \in Connector : Contains(w, c) /\ x = ConnEnd(e, c)
    BY <1>3
  <2>2. x.own = e /\ x.oth = c
    BY <2>1, EndFacts DEF Ep
  <2> QED
    BY <1>2, <2>1, <2>2
<1>9. PairsInv'
  <2> SUFFICES ASSUME slips = {}, NEW b \in Binder, NEW c \in Connector PROVE PairInv(b, c)'
    BY DEF PairsInv, envVars
  <2> DEFINE x == ConnEnd(b, c)
             y == ConnEnd(c, b)
  <2>1. PairInv(b, c) /\ b \in Ep /\ c \in Ep /\ c # e
    BY <1>1, InprocAssumption DEF PairsInv, Ep, IInv
  <2>2. x \in Ends /\ y \in Ends /\ x.own = b /\ x.oth = c /\ y.own = c /\ y.oth = b
    BY <2>1, EndFacts
  <2>3. Fit(b, c)' <=> Fit(b, c)
    BY DEF Fit, SameAddr, IsPeer, envVars
  <2>4. Registered(b, c)' <=> (b \in bound \/ b = e) /\ Contains(connected, c)
    BY <1>1 DEF Registered
  <2>5. (end[x] # "NONE" => ep[c] # "none" /\ Fit(b, c)) /\ (end[y] # "NONE" => ep[b] # "none" /\ Fit(b, c))
        /\ (end[x] = "NONE" \/ end[y] = "NONE")
        /\ (Registered(b, c) /\ Fit(b, c) => end[x] # "NONE" \/ end[y] # "NONE")
    BY <2>1 DEF PairInv
  <2> HIDE DEF x, y
  <2>6. end'[y] = end[y]
    BY <1>1, <1>8, <2>1, <2>2
  <2>7. end'[x] = IF Contains(made, x) THEN "CONNECTING" ELSE end[x]
    BY <1>1, <2>2
  <2>8. CASE Contains(made, x)
    <3>1. b = e /\ Contains(connected, c) /\ Fit(b, c)
      BY <1>8, <2>2, <2>8
    <3>2. ep'[c] # "none"
      BY <1>6, <2>1, <3>1 DEF RegistryInv, IInv
    <3>3. end'[y] = "NONE"
      BY <1>1, <2>5, <2>6, <3>1
    <3>4. end'[x] # "NONE"
      BY <2>7, <2>8
    <3> QED
      BY <2>3, <3>1, <3>2, <3>3, <3>4 DEF PairInv, x, y
  <2>9. CASE ~Contains(made, x)
    <3>1. end'[x] = end[x] /\ end'[y] = end[y]
      BY <2>6, <2>7, <2>9
    <3>2. ep'[c] = ep[c] /\ (ep[b] # "none" => ep'[b] # "none")
      BY <1>6, <2>1
    <3>3. Registered(b, c)' /\ Fit(b, c) => Registered(b, c)
      <4>1. b = e /\ Contains(connected, c) /\ Fit(b, c) => Contains(made, x)
        BY <1>2, <1>3 DEF x
      <4> QED
        BY <2>4, <2>9, <4>1 DEF Registered
    <3> QED
      BY <2>3, <2>5, <3>1, <3>2, <3>3 DEF PairInv, x, y
  <2> QED
    BY <2>8, <2>9
<1> QED
  BY <1>4, <1>5, <1>7, <1>9 DEF IInv

(* A connected endpoint comes last in the list of the registry.            *)
LEMMA ConnectedRegistry ==
    ASSUME TypeOK, RegistryInv, NEW e \in Connector, ep[e] = "none",
           ep' = [ep EXCEPT ![e] = "ACTIVE"],
           connected' = Append(connected, e), bound' = bound
    PROVE  /\ RegistryInv' /\ connected' \in Seq(Connector)
           /\ ep' \in [Ep -> {"none", "ACTIVE", "STOPPING", "gone"}]
           /\ ep'[e] = "ACTIVE" /\ \A f \in Ep : f # e => ep'[f] = ep[f]
           /\ \A c : Contains(connected', c) <=> Contains(connected, c) \/ c = e
<1> DEFINE a == Append(connected, e)
<1>1. connected \in Seq(Connector) /\ e \in Ep /\ Len(connected) \in Nat
  BY DEF TypeOK, Ep
<1>2. ~Contains(connected, e)
  BY <1>1 DEF RegistryInv
<1>3. a \in Seq(Connector) /\ Distinct(a) /\ \A c : Contains(a, c) <=> Contains(connected, c) \/ c = e
  BY <1>1, <1>2, AppendDistinct DEF RegistryInv
<1>4. connected' = a
  OBVIOUS
<1> HIDE DEF a
<1>5. ep'[e] = "ACTIVE" /\ \A f \in Ep : f # e => ep'[f] = ep[f]
  BY <1>1 DEF TypeOK
<1>6. ep' \in [Ep -> {"none", "ACTIVE", "STOPPING", "gone"}]
  BY DEF TypeOK
<1>7. RegistryInv'
  <2>1. \A f \in Ep : ep'[f] = "ACTIVE" <=> f \in bound \/ Contains(a, f)
    BY <1>3, <1>5 DEF RegistryInv
  <2> QED
    BY <1>3, <1>4, <2>1 DEF RegistryInv, SameAddr
<1> QED
  BY <1>3, <1>4, <1>5, <1>6, <1>7

(* The count of connections in progress stays a natural number.            *)
LEMMA CountFacts ==
    ASSUME inprogress \in [Sockets -> Nat], NEW e \in Ep
    PROVE  LessInProgress(e) \in [Sockets -> Nat] /\ MoreInProgress(e) \in [Sockets -> Nat]
<1>1. Socket[e] \in Sockets /\ inprogress[Socket[e]] \in Nat
  BY DEF Sockets
<1>2. inprogress[Socket[e]] >= 1 => inprogress[Socket[e]] - 1 \in Nat
  BY <1>1
<1> QED
  BY <1>1, <1>2 DEF LessInProgress, MoreInProgress

(* nn_ins_connect without a bound endpoint of that address, or with one    *)
(* that does not fit: the endpoint is listed and waits.                    *)
LEMMA ConnectAloneStep ==
    ASSUME IInv, NEW t \in Threads, NEW e \in Ep, ConnectAlone(t, e), UNCHANGED envVars
    PROVE  IInv'
<1>1. /\ e \in Connector /\ ep[e] = "none" /\ Listening(e) = {}
      /\ ep' = [ep EXCEPT ![e] = "ACTIVE"]
      /\ connected' = Append(connected, e)
      /\ inprogress' = MoreInProgress(e)
      /\ UNCHANGED <<bound, sinprocs, end, hand, abort>>
  BY DEF ConnectAlone
<1>2. /\ RegistryInv' /\ connected' \in Seq(Connector)
      /\ ep' \in [Ep -> {"none", "ACTIVE", "STOPPING", "gone"}]
      /\ ep'[e] = "ACTIVE" /\ \A f \in Ep : f # e => ep'[f] = ep[f]
      /\ \A c : Contains(connected', c) <=> Contains(connected, c) \/ c = e
  BY <1>1, ConnectedRegistry DEF IInv
<1>3. inprogress' \in [Sockets -> Nat]
  BY <1>1, CountFacts DEF IInv, TypeOK
<1>4. TypeOK'
  BY <1>1, <1>2, <1>3 DEF TypeOK, IInv, Sockets
<1>5. ListsInv'
  <2>1. \A f \in Ep : ep'[f] \in {"none", "gone"} => ep'[f] = ep[f]
    BY <1>2
  <2>2. \A y : Live(y)' <=> Live(y)
    BY <1>1 DEF Live
  <2>3. sinprocs' = sinprocs /\ end' = end
    BY <1>1
  <2> QED
    BY <2>1, <2>2, <2>3 DEF ListsInv, IInv
<1>6. AsksInv'
  BY <1>1 DEF AsksInv, Asks, IInv
<1>7. PairsInv'
  <2> SUFFICES ASSUME slips = {}, NEW b \in Binder, NEW c \in Connector PROVE PairInv(b, c)'
    BY DEF PairsInv, envVars
  <2>1. PairInv(b, c) /\ b \in Ep /\ c \in Ep
    BY DEF PairsInv, Ep, IInv
  <2>2. Fit(b, c)' <=> Fit(b, c)
    BY DEF Fit, SameAddr, IsPeer, envVars
  <2>3. Registered(b, c)' /\ Fit(b, c) => Registered(b, c)
    <3>1. ~(b \in bound /\ Fit(b, e))
      BY <1>1 DEF Listening, Fit, SameAddr, IsPeer
    <3> QED
      BY <1>1, <1>2, <3>1 DEF Registered
  <2>4. (ep[b] # "none" => ep'[b] # "none") /\ (ep[c] # "none" => ep'[c] # "none")
    BY <1>2, <2>1
  <2> QED
    BY <1>1, <2>1, <2>2, <2>3, <2>4 DEF PairInv
<1> QED
  BY <1>2, <1>4, <1>5, <1>6, <1>7 DEF IInv

(* nn_ins_connect with a bound endpoint that fits: the connection is asked *)
(* for.                                                                    *)
LEMMA ConnectStep ==
    ASSUME IInv, NEW t \in Threads, NEW e \in Ep, Connect(t, e), UNCHANGED envVars
    PROVE  IInv'
<1>1. PICK l \in Listening(e) :
          LET x == ConnEnd(e, Target(e, l))
          IN  /\ sinprocs' = [sinprocs EXCEPT ![e] = <<x>>]
              /\ end' = [end EXCEPT ![x] = "CONNECTING"]
              /\ hand' = Carry(t, <<Event("CONNECT", Partner(x))>>)
  BY DEF Connect
<1>2. /\ e \in Connector /\ ep[e] = "none" /\ hand[t] = <<>>
      /\ ep' = [ep EXCEPT ![e] = "ACTIVE"]
      /\ connected' = Append(connected, e)
      /\ UNCHANGED <<bound, inprogress>>
  BY DEF Connect, Calls
<1>3. l \in bound /\ l \in Binder /\ l \in Ep /\ SameAddr(e, l) /\ IsPeer(e, l)
  BY DEF Listening, IInv, TypeOK, Ep
<1> DEFINE g == Target(e, l)
           x == ConnEnd(e, g)
           made == <<x>>
<1>4. g \in Ep /\ (slips = {} => g = l)
  BY <1>3 DEF Target
<1> HIDE DEF g
<1>5. x \in Ends /\ x.own = e /\ x.oth = g /\ x.role = "conn"
  BY <1>4, EndFacts
<1>6. /\ sinprocs' = [sinprocs EXCEPT ![e] = <<x>>]
      /\ end' = [end EXCEPT ![x] = "CONNECTING"]
      /\ hand' = Carry(t, <<Event("CONNECT", Partner(x))>>)
  BY <1>1 DEF g
<1> HIDE DEF x
<1>7. /\ made \in Seq(Ends) /\ Len(made) = 1 /\ made[1] = x /\ DOMAIN made = 1..1
  BY <1>5
<1>8. ToPartners("CONNECT", made) = <<Event("CONNECT", Partner(x))>>
  BY <1>7 DEF ToPartners
<1>9. \A y : Contains(made, y) <=> y = x
  BY <1>7 DEF Contains
<1>10. Distinct(made) /\ \A i \in 1..Len(made) : made[i].own = e /\ made[i].role = "conn"
  BY <1>5, <1>7 DEF Distinct
<1> HIDE DEF made
<1>11. end' = [y \in Ends |-> IF Contains(made, y) THEN "CONNECTING" ELSE end[y]]
  <2>1. end \in [Ends -> EndStates]
    BY DEF IInv, TypeOK
  <2> QED
    BY <1>5, <1>6, <1>9, <2>1
<1>12. sinprocs' = [sinprocs EXCEPT ![e] = made]
       /\ hand' = Carry(t, ToPartners("CONNECT", made))
  BY <1>6, <1>8 DEF made
<1>13. /\ sinprocs' \in [Ep -> Seq(Ends)] /\ end' \in [Ends -> EndStates]
       /\ hand' \in [Threads -> Seq(Events)]
       /\ ListsInv' /\ AsksInv'
  BY <1>2, <1>7, <1>10, <1>11, <1>12, Made DEF IInv
<1>14. /\ RegistryInv' /\ connected' \in Seq(Connector)
       /\ ep' \in [Ep -> {"none", "ACTIVE", "STOPPING", "gone"}]
       /\ ep'[e] = "ACTIVE" /\ \A f \in Ep : f # e => ep'[f] = ep[f]
       /\ \A c : Contains(connected', c) <=> Contains(connected, c) \/ c = e
  BY <1>2, ConnectedRegistry DEF IInv
<1>15. TypeOK'
  BY <1>2, <1>13, <1>14 DEF TypeOK, IInv, Sockets
<1>16. PairsInv'
  <2> SUFFICES ASSUME slips = {}, NEW b \in Binder, NEW c \in Connector PROVE PairInv(b, c)'
    BY DEF PairsInv, envVars
  <2> DEFINE v == ConnEnd(b, c)
             y == ConnEnd(c, b)
  <2>1. PairInv(b, c) /\ b \in Ep /\ c \in Ep /\ b # e /\ g = l
    BY <1>2, <1>4, InprocAssumption DEF PairsInv, Ep, IInv
  <2>2. v \in Ends /\ y \in Ends /\ v.own = b /\ v.oth = c /\ y.own = c /\ y.oth = b
    BY <2>1, EndFacts
  <2>3. Fit(b, c)' <=> Fit(b, c)
    BY DEF Fit, SameAddr, IsPeer, envVars
  <2>4. Registered(b, c)' <=> b \in bound /\ (Contains(connected, c) \/ c = e)
    BY <1>2, <1>14 DEF Registered
  <2>5. (end[v] # "NONE" => ep[c] # "none" /\ Fit(b, c)) /\ (end[y] # "NONE" => ep[b] # "none" /\ Fit(b, c))
        /\ (end[v] = "NONE" \/ end[y] = "NONE")
        /\ (Registered(b, c) /\ Fit(b, c) => end[v] # "NONE" \/ end[y] # "NONE")
    BY <2>1 DEF PairInv
  <2>6. y = x <=> c = e /\ b = l
    BY <1>5, <2>1, <2>2 DEF x
  <2> HIDE DEF v, y
  <2>7. end'[v] = end[v]
    BY <1>5, <1>9, <1>11, <2>1, <2>2
  <2>8. end'[y] = IF y = x THEN "CONNECTING" ELSE end[y]
    BY <1>9, <1>11, <2>2
  <2>9. (ep[b] # "none" => ep'[b] # "none") /\ (ep[c] # "none" => ep'[c] # "none")
    BY <1>14, <2>1
  <2>10. CASE y = x
    <3>1. c = e /\ b = l /\ Fit(b, c)
      BY <1>3, <2>6, <2>10 DEF Fit, SameAddr, IsPeer
    <3>2. ep[b] = "ACTIVE"
      BY <1>3, <3>1 DEF RegistryInv, IInv
    <3>3. end'[v] = "NONE"
      BY <1>2, <2>5, <2>7, <3>1
    <3>4. end'[y] # "NONE" /\ ep'[b] # "none"
      BY <2>8, <2>9, <2>10, <3>2
    <3> QED
      BY <2>3, <3>1, <3>3, <3>4 DEF PairInv, v, y
  <2>11. CASE y # x
    <3>1. end'[v] = end[v] /\ end'[y] = end[y]
      BY <2>7, <2>8, <2>11
    <3>2. Registered(b, c)' /\ Fit(b, c) => Registered(b, c)
      <4>1. c = e /\ b \in bound /\ Fit(b, c) => b = l
        BY <1>3 DEF Fit, SameAddr, RegistryInv, IInv
      <4> QED
        BY <2>4, <2>6, <2>11, <4>1 DEF Registered
    <3> QED
      BY <2>3, <2>5, <2>9, <3>1, <3>2 DEF PairInv, v, y
  <2> QED
    BY <2>10, <2>11
<1> QED
  BY <1>13, <1>14, <1>15, <1>16 DEF IInv

(* Stop: no end is made, the ends that were DISCONNECTED are freed.        *)
LEMMA StopStep ==
    ASSUME IInv, NEW t \in Threads, NEW e \in Ep, Stop(t, e), UNCHANGED envVars
    PROVE  IInv'
<1> DEFINE l == Left(e)
           told == ToPartners("DISCONNECT", Told(e))
<1>1. /\ ep[e] = "ACTIVE" /\ hand[t] = <<>>
      /\ bound' = bound \ {e} /\ connected' = Without(connected, e)
      /\ end' = [x \in Ends |-> IF Contains(sinprocs[e], x) THEN AfterStop(end[x]) ELSE end[x]]
      /\ sinprocs' = [sinprocs EXCEPT ![e] = l]
      /\ ep' = [ep EXCEPT ![e] = IF l = <<>> THEN "gone" ELSE "STOPPING"]
      /\ hand' = Carry(t, told)
      /\ inprogress' = inprogress
  BY DEF Stop, Calls, Unregistered
<1>2. sinprocs[e] \in Seq(Ends) /\ Distinct(sinprocs[e])
      /\ \A x \in Ends : Contains(sinprocs[e], x) <=> x.own = e /\ Live(x)
  BY DEF IInv, TypeOK, ListsInv
<1>3. /\ l \in Seq(Ends) /\ Distinct(l)
      /\ \A x \in Ends : Contains(l, x) <=> x.own = e /\ Live(x) /\ end[x] # "DISCONNECTED"
  BY <1>2, ChosenFacts DEF Left
<1>4. Told(e) \in Seq(Ends)
  BY <1>2, ChosenFacts DEF Told
<1>5. told \in Seq(Events) /\ Len(told) = Len(Told(e))
      /\ \A i \in 1..Len(Told(e)) : told[i] = Event("DISCONNECT", Partner(Told(e)[i]))
  BY <1>4, ToPartnersFacts
<1>6. \A i \in 1..Len(told) : told[i].type # "CONNECT"
  BY <1>5, EventFacts
<1> HIDE DEF l, told
<1>7. /\ hand' \in [Threads -> Seq(Events)]
      /\ hand'[t] = told /\ \A u \in Threads : u # t => hand'[u] = hand[u]
  BY <1>1, <1>5 DEF Carry, IInv, TypeOK
<1>8. \A x \in Ends : end'[x] = IF x.own = e /\ Live(x) THEN AfterStop(end[x]) ELSE end[x]
  BY <1>1, <1>2
<1>9. \A x \in Ends : end[x] \in EndStates
  BY DEF IInv, TypeOK
<1>10. \A st \in EndStates : /\ AfterStop(st) \in EndStates
                             /\ st # "NONE" => AfterStop(st) # "NONE"
                             /\ AfterStop(st) = "FREED" <=> st \in {"DISCONNECTED", "FREED"}
  BY DEF AfterStop, EndStates
<1>11. \A x \in Ends : /\ end'[x] = "NONE" <=> end[x] = "NONE"
                       /\ end'[x] \in EndStates
                       /\ x.own # e => end'[x] = end[x]
                       /\ x.own = e => (Live(x)' <=> Live(x) /\ end[x] # "DISCONNECTED")
  <2> SUFFICES ASSUME NEW x \in Ends
               PROVE  /\ end'[x] = "NONE" <=> end[x] = "NONE"
                      /\ end'[x] \in EndStates
                      /\ x.own # e => end'[x] = end[x]
                      /\ x.own = e => (end'[x] \notin {"NONE", "FREED"} <=> Live(x) /\ end[x] # "DISCONNECTED")
    BY DEF Live
  <2>1. end[x] \in EndStates /\ end'[x] = IF x.own = e /\ Live(x) THEN AfterStop(end[x]) ELSE end[x]
    BY <1>8, <1>9
  <2>2. CASE x.own = e /\ Live(x)
    <3>1. end'[x] = AfterStop(end[x]) /\ end[x] \notin {"NONE", "FREED"}
      BY <2>1, <2>2 DEF Live
    <3> QED
      BY <1>10, <2>1, <2>2, <3>1
  <2>3. CASE ~(x.own = e /\ Live(x))
    BY <2>1, <2>3 DEF Live
  <2> QED
    BY <2>2, <2>3
<1>12. end' \in [Ends -> EndStates]
  <2>1. end' = [x \in Ends |-> end'[x]]
    BY <1>1
  <2> QED
    BY <1>11, <2>1
<1>13. /\ ep' \in [Ep -> {"none", "ACTIVE", "STOPPING", "gone"}]
       /\ ep'[e] = (IF l = <<>> THEN "gone" ELSE "STOPPING")
       /\ \A f \in Ep : f # e => ep'[f] = ep[f]
  BY <1>1 DEF IInv, TypeOK
<1>14. /\ connected' \in Seq(Connector) /\ Distinct(connected')
       /\ \A y : Contains(connected', y) <=> Contains(connected, y) /\ y # e
  BY <1>1, WithoutFacts DEF IInv, TypeOK, RegistryInv
<1>15. TypeOK'
  <2>1. sinprocs' \in [Ep -> Seq(Ends)] /\ bound' \subseteq Binder
    BY <1>1, <1>3 DEF IInv, TypeOK
  <2> QED
    BY <1>1, <1>7, <1>12, <1>13, <1>14, <2>1 DEF TypeOK, IInv, Sockets
<1>16. RegistryInv'
  BY <1>1, <1>13, <1>14 DEF RegistryInv, IInv, SameAddr
<1>17. ListsInv'
  <2> SUFFICES ASSUME NEW f \in Ep
               PROVE  (/\ Distinct(sinprocs[f])
                       /\ \A x \in Ends : Contains(sinprocs[f], x) <=> x.own = f /\ Live(x)
                       /\ ep[f] = "none" => \A x \in Ends : x.own = f => end[x] = "NONE"
                       /\ ep[f] = "gone" => sinprocs[f] = <<>>)'
    BY DEF ListsInv
  <2>1. CASE f = e
    <3>1. sinprocs'[e] = l
      BY <1>1 DEF IInv, TypeOK
    <3> QED
      BY <1>3, <1>11, <1>13, <2>1, <3>1
  <2>2. CASE f # e
    <3>1. sinprocs'[f] = sinprocs[f] /\ ep'[f] = ep[f]
      BY <1>1, <1>13, <2>2 DEF IInv, TypeOK
    <3>2. \A x \in Ends : x.own = f => end'[x] = end[x]
      BY <1>11, <2>2
    <3> QED
      BY <3>1, <3>2 DEF Live, ListsInv, IInv
  <2> QED
    BY <2>1, <2>2
<1>18. ASSUME NEW u \in Threads, NEW i \in Nat, NEW y \in Ends, Asks(u, i, y)' PROVE Asks(u, i, y)
  <2>1. i \in 1..Len(hand'[u]) /\ hand'[u][i] = Event("CONNECT", y)
    BY <1>18 DEF Asks
  <2>2. u # t
    <3>1. u = t => hand'[u][i].type # "CONNECT"
      BY <1>6, <1>7, <2>1
    <3> QED
      BY <2>1, <3>1, EventFacts
  <2> QED
    BY <1>7, <2>1, <2>2 DEF Asks
<1>19. AsksInv'
  <2>1. \A u \in Threads, i \in Nat, y \in Ends : Asks(u, i, y)' => \E k \in Nat : Asks(u, k, y)
    BY <1>18, Zenon
  <2>2. \A u, v \in Threads, i, k \in Nat, y \in Ends :
                 Asks(u, i, y)' /\ Asks(v, k, y)' => u = v /\ i = k
    <3>1. \A u, v \in Threads, i, k \in Nat, y \in Ends :
                 Asks(u, i, y) /\ Asks(v, k, y) => u = v /\ i = k
      BY DEF AsksInv, IInv
    <3>2. ASSUME NEW u \in Threads, NEW v \in Threads, NEW i \in Nat, NEW k \in Nat, NEW y \in Ends,
                 Asks(u, i, y)', Asks(v, k, y)'
          PROVE  u = v /\ i = k
      <4>1. Asks(u, i, y) /\ Asks(v, k, y)
        BY <1>18, <3>2
      <4> QED
        BY <3>1, <4>1
    <3> QED
      BY <3>2, Zenon
  <2>3. \A x \in Ends : end'[x] = "NONE" <=> end[x] = "NONE"
    BY <1>11
  <2> QED
    BY <2>1, <2>2, <2>3, AsksKept, Zenon DEF IInv
<1>20. PairsInv'
  <2>1. Monotone
    BY <1>1, <1>13, <1>14 DEF Monotone, Registered
  <2>2. \A b \in Ep, c \in Ep : end'[ConnEnd(b, c)] = "NONE" <=> end[ConnEnd(b, c)] = "NONE"
    BY <1>11, EndFacts
  <2> QED
    BY <2>1, <2>2, PairsKept DEF IInv
<1> QED
  BY <1>15, <1>16, <1>17, <1>19, <1>20 DEF IInv
-----------------------------------------------------------------------------
(* The parts of the invariant that an event under way can disturb: it is   *)
(* handled, its answer asks for nothing, and no end is made.               *)
LEMMA HandledStep ==
    ASSUME IInv, NEW t \in Threads, hand[t] # <<>>,
           NEW s \in Seq(Events), \A i \in 1..Len(s) : s[i].type # "CONNECT",
           hand' = Handled(t, s),
           \A x \in Ends : end'[x] = "NONE" <=> end[x] = "NONE",
           UNCHANGED <<envVars, bound, connected>>,
           \A e \in Ep : /\ ep'[e] = "none" <=> ep[e] = "none"
                         /\ ep'[e] = "ACTIVE" <=> ep[e] = "ACTIVE"
    PROVE  hand' \in [Threads -> Seq(Events)] /\ RegistryInv' /\ AsksInv' /\ PairsInv'
<1>1. /\ hand' \in [Threads -> Seq(Events)]
      /\ \A u \in Threads, i \in Nat, y \in Ends : Asks(u, i, y)' =>
                 \E k \in Nat : Asks(u, k, y) /\ (u = t => k # 1)
      /\ \A u, v \in Threads, i, k \in Nat, y \in Ends :
                 Asks(u, i, y)' /\ Asks(v, k, y)' => u = v /\ i = k
  <2>1. hand \in [Threads -> Seq(Events)] /\ AsksInv
    BY DEF IInv, TypeOK
  <2> QED
    BY <2>1, HandledOnce
<1>2. AsksInv'
  <2>1. \A u \in Threads, i \in Nat, y \in Ends : Asks(u, i, y)' => \E k \in Nat : Asks(u, k, y)
    BY <1>1, Zenon
  <2> QED
    BY <1>1, <2>1, AsksKept, Zenon DEF IInv
<1>3. RegistryInv'
  BY DEF RegistryInv, IInv, SameAddr
<1>4. PairsInv'
  <2>1. Monotone
    BY DEF Monotone, Registered
  <2>2. \A b \in Ep, c \in Ep : end'[ConnEnd(b, c)] = "NONE" <=> end[ConnEnd(b, c)] = "NONE"
    BY EndFacts
  <2> QED
    BY <2>1, <2>2, PairsKept DEF IInv
<1> QED
  BY <1>1, <1>2, <1>3, <1>4

(* Nothing but the event is taken.                                         *)
LEMMA DroppedStep ==
    ASSUME IInv, NEW t \in Threads, hand[t] # <<>>, hand' = Handled(t, <<>>),
           UNCHANGED <<envVars, ep, bound, connected, sinprocs, end, inprogress>>
    PROVE  IInv'
<1>1. <<>> \in Seq(Events) /\ \A i \in 1..Len(<<>>) : <<>>[i].type # "CONNECT"
  OBVIOUS
<1>2. hand' \in [Threads -> Seq(Events)] /\ RegistryInv' /\ AsksInv' /\ PairsInv'
  <2> DEFINE s == <<>>
  <2>1. s \in Seq(Events) /\ (\A i \in 1..Len(s) : s[i].type # "CONNECT") /\ hand' = Handled(t, s)
    BY <1>1
  <2> HIDE DEF s
  <2> QED
    BY <2>1, HandledStep
<1>3. TypeOK'
  BY <1>2 DEF TypeOK, IInv, Sockets
<1>4. ListsInv'
  BY DEF ListsInv, IInv, Live
<1> QED
  BY <1>2, <1>3, <1>4 DEF IInv

(* The end x goes to the state st; it exists before and after.             *)
LEMMA MovedStep ==
    ASSUME IInv, NEW t \in Threads, hand[t] # <<>>,
           NEW s \in Seq(Events), \A i \in 1..Len(s) : s[i].type # "CONNECT",
           hand' = Handled(t, s),
           NEW x \in Ends, NEW st \in EndStates \ {"NONE", "FREED"}, Live(x),
           end' = [end EXCEPT ![x] = st],
           UNCHANGED <<envVars, ep, bound, connected, sinprocs>>,
           inprogress' \in [Sockets -> Nat]
    PROVE  IInv'
<1>1. \A y \in Ends : /\ end'[y] = "NONE" <=> end[y] = "NONE"
                      /\ Live(y)' <=> Live(y)
  BY DEF IInv, TypeOK, Live
<1>2. hand' \in [Threads -> Seq(Events)] /\ RegistryInv' /\ AsksInv' /\ PairsInv'
  BY <1>1, HandledStep
<1>3. TypeOK'
  BY <1>2 DEF TypeOK, IInv, Sockets, envVars
<1>4. ListsInv'
  BY <1>1 DEF ListsInv, IInv
<1> QED
  BY <1>2, <1>3, <1>4 DEF IInv

(* The end x is freed by its owner.                                        *)
LEMMA ReleasedStep ==
    ASSUME IInv, NEW t \in Threads, hand[t] # <<>>,
           NEW s \in Seq(Events), \A i \in 1..Len(s) : s[i].type # "CONNECT",
           hand' = Handled(t, s),
           NEW x \in Ends, Live(x), Release(x),
           UNCHANGED <<envVars, bound, connected, inprogress>>
    PROVE  IInv'
<1> DEFINE e == x.own
           l == Without(sinprocs[e], x)
<1>1. e \in Ep /\ sinprocs[e] \in Seq(Ends) /\ Distinct(sinprocs[e])
      /\ \A y \in Ends : Contains(sinprocs[e], y) <=> y.own = e /\ Live(y)
  BY EndFacts DEF IInv, TypeOK, ListsInv
<1>2. l \in Seq(Ends) /\ Distinct(l) /\ \A y : Contains(l, y) <=> Contains(sinprocs[e], y) /\ y # x
  BY <1>1, WithoutFacts
<1>3. /\ end' = [end EXCEPT ![x] = "FREED"]
      /\ sinprocs' = [sinprocs EXCEPT ![e] = l]
      /\ ep' = [ep EXCEPT ![e] = IF LastOne(e, l) THEN "gone" ELSE @]
  BY DEF Release
<1> HIDE DEF l
<1>4. /\ ep' \in [Ep -> {"none", "ACTIVE", "STOPPING", "gone"}]
      /\ ep'[e] = (IF LastOne(e, l) THEN "gone" ELSE ep[e])
      /\ \A f \in Ep : f # e => ep'[f] = ep[f]
  BY <1>1, <1>3 DEF IInv, TypeOK
<1>5. \A f \in Ep : /\ ep'[f] = "none" <=> ep[f] = "none"
                    /\ ep'[f] = "ACTIVE" <=> ep[f] = "ACTIVE"
  BY <1>4 DEF LastOne
<1>6. end' \in [Ends -> EndStates] /\ end'[x] = "FREED" /\ \A y \in Ends : y # x => end'[y] = end[y]
  BY <1>3 DEF IInv, TypeOK, EndStates
<1>7. \A y \in Ends : end'[y] = "NONE" <=> end[y] = "NONE"
  BY <1>6 DEF Live
<1>8. hand' \in [Threads -> Seq(Events)] /\ RegistryInv' /\ AsksInv' /\ PairsInv'
  BY <1>5, <1>7, HandledStep
<1>9. TypeOK'
  <2>1. sinprocs' \in [Ep -> Seq(Ends)]
    BY <1>2, <1>3 DEF IInv, TypeOK
  <2> QED
    BY <1>4, <1>6, <1>8, <2>1 DEF IInv, TypeOK, Sockets
<1>10. ep[e] \notin {"none", "gone"}
  <2>1. ep[e] # "none"
    BY <1>1 DEF ListsInv, Live, IInv
  <2>2. ASSUME ep[e] = "gone" PROVE FALSE
    <3>1. sinprocs[e] = <<>> /\ Contains(sinprocs[e], x)
      BY <1>1, <2>2 DEF ListsInv, IInv
    <3> QED
      BY <3>1 DEF Contains
  <2> QED
    BY <2>1, <2>2
<1>11. ListsInv'
  <2> SUFFICES ASSUME NEW f \in Ep
               PROVE  (/\ Distinct(sinprocs[f])
                       /\ \A y \in Ends : Contains(sinprocs[f], y) <=> y.own = f /\ Live(y)
                       /\ ep[f] = "none" => \A y \in Ends : y.own = f => end[y] = "NONE"
                       /\ ep[f] = "gone" => sinprocs[f] = <<>>)'
    BY DEF ListsInv
  <2>1. CASE f = e
    <3>1. sinprocs'[e] = l
      BY <1>1, <1>3 DEF IInv, TypeOK
    <3>2. ep'[e] = "gone" => l = <<>>
      BY <1>4, <1>10 DEF LastOne
    <3>3. \A y \in Ends : Contains(l, y) <=> y.own = e /\ end'[y] \notin {"NONE", "FREED"}
      BY <1>1, <1>2, <1>6 DEF Live
    <3>4. ep'[e] # "none"
      BY <1>1, <1>5, <1>10
    <3> QED
      BY <1>2, <2>1, <3>1, <3>2, <3>3, <3>4 DEF Live
  <2>2. CASE f # e
    <3>1. sinprocs'[f] = sinprocs[f] /\ ep'[f] = ep[f]
      BY <1>3, <1>4, <2>2 DEF IInv, TypeOK
    <3>2. \A y \in Ends : y.own = f => end'[y] = end[y]
      BY <1>6, <2>2
    <3> QED
      BY <3>1, <3>2 DEF Live, ListsInv, IInv
  <2> QED
    BY <2>1, <2>2
<1> QED
  BY <1>8, <1>9, <1>11 DEF IInv

(* The partner of an end that was made is made too.                        *)
LEMMA AcceptStep ==
    ASSUME IInv, NEW t \in Threads, hand[t] # <<>>,
           NEW x \in Ends, Asks(t, 1, x), Accept(t, x), UNCHANGED envVars
    PROVE  IInv'
<1> DEFINE e == x.own
           s == <<Event("READY", Partner(x))>>
           l == Append(sinprocs[e], x)
<1>1. e \in Ep /\ Partner(x) \in Ends /\ Partner(x) # x /\ sinprocs[e] \in Seq(Ends) /\ Distinct(sinprocs[e])
      /\ \A y \in Ends : Contains(sinprocs[e], y) <=> y.own = e /\ Live(y)
  <2>1. Partner(x) # x
    BY EndFacts
  <2> QED
    BY <2>1, EndFacts DEF IInv, TypeOK, ListsInv
<1>2. /\ ep[e] = "ACTIVE" /\ end' = [end EXCEPT ![x] = "READY"]
      /\ sinprocs' = [sinprocs EXCEPT ![e] = l] /\ hand' = Handled(t, s)
      /\ UNCHANGED <<ep, bound, connected>>
      /\ inprogress' = LessInProgress(e) \/ inprogress' = inprogress
  BY <1>1 DEF Accept
<1>3. x.role = "acc" /\ end[x] = "NONE" /\ end[Partner(x)] # "NONE"
  BY <1>1 DEF IInv, AsksInv
<1>4. s \in Seq(Events) /\ Len(s) = 1 /\ s[1].type = "READY"
  <2>1. Event("READY", Partner(x)) \in Events /\ Event("READY", Partner(x)).type = "READY"
    BY <1>1, EventFacts DEF Handshake
  <2> QED
    BY <2>1
<1> HIDE DEF s
<1>5. /\ hand' \in [Threads -> Seq(Events)]
      /\ \A u \in Threads, i \in Nat, y \in Ends : Asks(u, i, y)' =>
                 \E k \in Nat : Asks(u, k, y) /\ (u = t => k # 1)
      /\ \A u, v \in Threads, i, k \in Nat, y \in Ends :
                 Asks(u, i, y)' /\ Asks(v, k, y)' => u = v /\ i = k
  <2>1. hand \in [Threads -> Seq(Events)] /\ AsksInv
    BY DEF IInv, TypeOK
  <2>2. \A i \in 1..Len(s) : s[i].type # "CONNECT"
    BY <1>4
  <2> QED
    BY <1>2, <1>4, <2>1, <2>2, HandledOnce
<1>6. /\ end' \in [Ends -> EndStates] /\ end'[x] = "READY"
      /\ \A y \in Ends : y # x => end'[y] = end[y]
  BY <1>2 DEF IInv, TypeOK, EndStates
<1>7. ASSUME NEW u \in Threads, NEW i \in Nat, NEW y \in Ends, Asks(u, i, y)'
      PROVE  y.role = "acc" /\ end'[y] = "NONE" /\ end'[Partner(y)] # "NONE"
  <2>1. PICK k \in Nat : Asks(u, k, y) /\ (u = t => k # 1)
    BY <1>5, <1>7
  <2>2. y # x
    <3>1. ASSUME y = x PROVE FALSE
      <4>1. u = t /\ k = 1
        BY <2>1, <3>1 DEF IInv, AsksInv
      <4> QED
        BY <2>1, <4>1
    <3> QED
      BY <3>1
  <2>3. y.role = "acc" /\ end[y] = "NONE" /\ end[Partner(y)] # "NONE" /\ Partner(y) \in Ends
    BY <2>1, EndFacts DEF IInv, AsksInv
  <2> QED
    BY <1>6, <2>2, <2>3
<1>8. ASSUME NEW y \in Ends, y.role = "acc", end'[y] # "NONE" PROVE end'[Partner(y)] # "NONE"
  <2>1. CASE y = x
    BY <1>1, <1>3, <1>6, <2>1
  <2>2. CASE y # x
    <3>1. end[Partner(y)] # "NONE" /\ Partner(y) \in Ends
      BY <1>6, <1>8, <2>2, EndFacts DEF IInv, AsksInv
    <3> QED
      BY <1>6, <3>1
  <2> QED
    BY <2>1, <2>2
<1>9. AsksInv'
  <2>1. \A u \in Threads, i \in Nat, y \in Ends : Asks(u, i, y)' =>
              y.role = "acc" /\ end'[y] = "NONE" /\ end'[Partner(y)] # "NONE"
    BY <1>7, Zenon
  <2>2. \A y \in Ends : y.role = "acc" /\ end'[y] # "NONE" => end'[Partner(y)] # "NONE"
    BY <1>8, Zenon
  <2>3. \A u, v \in Threads, i, k \in Nat, y \in Ends :
                 Asks(u, i, y)' /\ Asks(v, k, y)' => u = v /\ i = k
    BY <1>5, Zenon
  <2> QED
    BY <2>1, <2>2, <2>3, AsksParts, Zenon
<1>10. inprogress' \in [Sockets -> Nat]
  <2>1. inprogress \in [Sockets -> Nat] /\ Sockets' = Sockets
    BY DEF IInv, TypeOK, Sockets
  <2> QED
    BY <1>1, <1>2, <2>1, CountFacts
<1>11. ~Contains(sinprocs[e], x)
  BY <1>1, <1>3 DEF Live
<1>12. l \in Seq(Ends) /\ Distinct(l) /\ \A y : Contains(l, y) <=> Contains(sinprocs[e], y) \/ y = x
  BY <1>1, <1>11, AppendDistinct
<1> HIDE DEF l
<1>13. TypeOK'
  <2>1. sinprocs' \in [Ep -> Seq(Ends)]
    BY <1>2, <1>12 DEF IInv, TypeOK
  <2> QED
    BY <1>2, <1>5, <1>6, <1>10, <2>1 DEF IInv, TypeOK, Sockets
<1>14. RegistryInv'
  BY <1>2 DEF IInv, RegistryInv, SameAddr
<1>15. ListsInv'
  <2> SUFFICES ASSUME NEW f \in Ep
               PROVE  (/\ Distinct(sinprocs[f])
                       /\ \A y \in Ends : Contains(sinprocs[f], y) <=> y.own = f /\ Live(y)
                       /\ ep[f] = "none" => \A y \in Ends : y.own = f => end[y] = "NONE"
                       /\ ep[f] = "gone" => sinprocs[f] = <<>>)'
    BY DEF ListsInv
  <2>1. CASE f = e
    <3>1. sinprocs'[e] = l
      BY <1>1, <1>2 DEF IInv, TypeOK
    <3>2. \A y \in Ends : Contains(l, y) <=> y.own = e /\ end'[y] \notin {"NONE", "FREED"}
      BY <1>1, <1>6, <1>12 DEF Live
    <3> QED
      BY <1>2, <1>12, <2>1, <3>1, <3>2 DEF Live
  <2>2. CASE f # e
    <3>1. sinprocs'[f] = sinprocs[f] /\ ep'[f] = ep[f]
      BY <1>2, <2>2 DEF IInv, TypeOK
    <3>2. \A y \in Ends : y.own = f => end'[y] = end[y]
      BY <1>6, <2>2
    <3> QED
      BY <3>1, <3>2 DEF Live, ListsInv, IInv
  <2> QED
    BY <2>1, <2>2
<1>16. PairsInv'
  <2>1. Monotone
    BY <1>2 DEF Monotone, Registered
  <2>2. \A b \in Ep, c \in Ep : end'[ConnEnd(b, c)] = "NONE" <=> end[ConnEnd(b, c)] = "NONE"
    BY <1>3, <1>6, EndFacts
  <2> QED
    BY <2>1, <2>2, PairsKept DEF IInv
<1> QED
  BY <1>9, <1>13, <1>14, <1>15, <1>16 DEF IInv

(* A list of one event that asks for nothing.                              *)
LEMMA OneEvent ==
    ASSUME NEW x \in Ends, NEW type \in {"READY", "ACCEPTED", "DISCONNECT"}
    PROVE  /\ <<Event(type, Partner(x))>> \in Seq(Events)
           /\ \A i \in 1..Len(<<Event(type, Partner(x))>>) :
                 <<Event(type, Partner(x))>>[i].type # "CONNECT"
<1>1. Event(type, Partner(x)) \in Events /\ Event(type, Partner(x)).type = type
  BY EndFacts, EventFacts DEF Handshake
<1> QED
  BY <1>1

(* The DISCONNECT event stops a pipe.                                      *)
LEMMA DisconnectedStep ==
    ASSUME IInv, NEW t \in Threads, hand[t] # <<>>,
           NEW x \in Ends, Disconnected(t, x), UNCHANGED envVars
    PROVE  IInv'
<1> DEFINE s == <<Event("DISCONNECT", Partner(x))>>
<1>1. s \in Seq(Events) /\ (\A i \in 1..Len(s) : s[i].type # "CONNECT") /\ hand' = Handled(t, s)
  BY OneEvent DEF Disconnected, Answer
<1>2. end[x] = "ACTIVE" /\ Live(x) /\ UNCHANGED <<bound, connected>>
  BY DEF Disconnected, Live
<1> HIDE DEF s
<1>3. CASE x.own \in Binder
  <2>1. Release(x) /\ UNCHANGED inprogress
    BY <1>3 DEF Disconnected
  <2> QED
    BY <1>1, <1>2, <2>1, ReleasedStep
<1>4. CASE x.own \notin Binder
  <2>1. /\ end' = [end EXCEPT ![x] = "DISCONNECTED"]
        /\ inprogress' = MoreInProgress(x.own)
        /\ UNCHANGED <<sinprocs, ep>>
    BY <1>4 DEF Disconnected
  <2>2. inprogress' \in [Sockets -> Nat]
    <3>1. inprogress \in [Sockets -> Nat] /\ x.own \in Ep
      BY EndFacts DEF IInv, TypeOK
    <3> QED
      BY <2>1, <3>1, CountFacts
  <2>3. "DISCONNECTED" \in EndStates \ {"NONE", "FREED"}
    BY DEF EndStates
  <2> QED
    BY <1>1, <1>2, <2>1, <2>2, <2>3, MovedStep
<1> QED
  BY <1>3, <1>4

(* Handling the oldest event a thread carries, whichever it is.            *)
LEMMA DeliverStep ==
    ASSUME IInv, NEW t \in Threads, Deliver(t), UNCHANGED envVars
    PROVE  IInv'
<1> DEFINE x == Head(hand[t]).to
           type == Head(hand[t]).type
<1>1. hand[t] # <<>> /\ IF InFreed(x, type) THEN Stray(t) ELSE Handle(t, x, type)
  BY DEF Deliver
<1>2. x \in Ends /\ type \in Handshake \cup {"DISCONNECT"} /\ (type = "CONNECT" => Asks(t, 1, x))
  <2>1. hand \in [Threads -> Seq(Events)]
    BY DEF IInv, TypeOK
  <2>2. Head(hand[t]) \in Events /\ x \in Ends /\ (type = "CONNECT" => Asks(t, 1, x))
    BY <1>1, <2>1, OnTop
  <2> QED
    BY <2>2, EventFacts
<1> HIDE DEF x, type
<1>3. inprogress \in [Sockets -> Nat]
  BY DEF IInv, TypeOK
<1>4. CASE Stray(t) \/ TooLate(t, x) \/ Ignored(t, x) \/ BadAction(t, x, type)
  <2>1. hand' = Handled(t, <<>>) /\ UNCHANGED <<envVars, ep, bound, connected, sinprocs, end, inprogress>>
    BY <1>4 DEF Stray, TooLate, Ignored, BadAction
  <2> QED
    BY <1>1, <2>1, DroppedStep
<1>5. CASE type = "CONNECT" /\ Accept(t, x)
  BY <1>1, <1>2, <1>5, AcceptStep
<1>6. CASE Ready(t, x)
  <2> DEFINE s == <<Event("ACCEPTED", Partner(x))>>
  <2>1. s \in Seq(Events) /\ (\A i \in 1..Len(s) : s[i].type # "CONNECT")
    BY <1>2, OneEvent
  <2>2. /\ hand' = Handled(t, s) /\ Live(x) /\ end' = [end EXCEPT ![x] = "ACTIVE"]
        /\ UNCHANGED <<envVars, ep, bound, connected, sinprocs, inprogress>>
    BY <1>6 DEF Ready, Live
  <2> HIDE DEF s
  <2>3. "ACTIVE" \in EndStates \ {"NONE", "FREED"} /\ inprogress' \in [Sockets -> Nat]
    BY <1>3, <2>2 DEF EndStates, Sockets
  <2> QED
    BY <1>1, <1>2, <2>1, <2>2, <2>3, MovedStep
<1>7. CASE Accepted(t, x)
  <2> DEFINE s == <<>>
  <2>1. s \in Seq(Events) /\ (\A i \in 1..Len(s) : s[i].type # "CONNECT")
    OBVIOUS
  <2>2. /\ hand' = Handled(t, s) /\ Live(x) /\ end' = [end EXCEPT ![x] = "ACTIVE"]
        /\ UNCHANGED <<envVars, ep, bound, connected, sinprocs, inprogress>>
    BY <1>7 DEF Accepted, Live
  <2> HIDE DEF s
  <2>3. "ACTIVE" \in EndStates \ {"NONE", "FREED"} /\ inprogress' \in [Sockets -> Nat]
    BY <1>3, <2>2 DEF EndStates, Sockets
  <2> QED
    BY <1>1, <1>2, <2>1, <2>2, <2>3, MovedStep
<1>8. CASE Disconnected(t, x)
  BY <1>1, <1>2, <1>8, DisconnectedStep
<1>9. CASE PeerStopped(t, x)
  <2> DEFINE s == <<>>
  <2>1. s \in Seq(Events) /\ (\A i \in 1..Len(s) : s[i].type # "CONNECT")
    OBVIOUS
  <2>2. /\ hand' = Handled(t, s) /\ Live(x) /\ Release(x)
        /\ UNCHANGED <<envVars, bound, connected, inprogress>>
    BY <1>9 DEF PeerStopped, Live
  <2> HIDE DEF s
  <2> QED
    BY <1>1, <1>2, <2>1, <2>2, ReleasedStep
<1> QED
  <2>1. type \in {"CONNECT", "READY", "ACCEPTED", "DISCONNECT"}
    BY <1>2 DEF Handshake
  <2>2. CASE InFreed(x, type)
    BY <1>1, <1>4, <2>2
  <2>3. CASE ~InFreed(x, type)
    <3>1. Handle(t, x, type)
      BY <1>1, <2>3
    <3> QED
      BY <1>4, <1>5, <1>6, <1>7, <1>8, <1>9, <2>1, <3>1 DEF Handle
  <2> QED
    BY <2>2, <2>3

(* Every step keeps the inductive invariant.                               *)
LEMMA NextIInv == IInv /\ [Next]_vars => IInv'
<1> SUFFICES ASSUME IInv, [Next]_vars PROVE IInv'
  OBVIOUS
<1>1. ASSUME NEW t \in Threads, NEW e \in Ep, UNCHANGED envVars,
             BindRefused(t, e) \/ Bind(t, e) \/ ConnectAlone(t, e) \/ Connect(t, e) \/ Stop(t, e)
      PROVE  IInv'
  BY <1>1, BindRefusedStep, BindStep, ConnectAloneStep, ConnectStep, StopStep
<1>2. ASSUME NEW t \in Threads, UNCHANGED envVars, Deliver(t) PROVE IInv'
  BY <1>2, DeliverStep
<1>3. CASE UNCHANGED vars
  <2>1. TypeOK'
    BY <1>3 DEF IInv, TypeOK, vars, envVars, Sockets
  <2>2. RegistryInv' /\ ListsInv'
    BY <1>3 DEF IInv, RegistryInv, ListsInv, Live, SameAddr, vars, envVars
  <2>3. AsksInv'
    BY <1>3 DEF IInv, AsksInv, Asks, vars, envVars
  <2>4. PairsInv'
    BY <1>3 DEF IInv, PairsInv, PairInv, Registered, Fit, SameAddr, IsPeer, vars, envVars
  <2> QED
    BY <2>1, <2>2, <2>3, <2>4 DEF IInv
<1> QED
  BY <1>1, <1>2, <1>3 DEF Next, Step, Finished
-----------------------------------------------------------------------------
(* The two ends of a connection.  What they know of each other is in their *)
(* states and in the events that threads carry.                            *)
Carried(type, x) == \E t \in Threads : Contains(hand[t], Event(type, x))

Forming == {"CONNECTING", "READY", "ACTIVE"}
Over    == {"STOPPING_PEER", "DISCONNECTED", "FREED"}

(* While a connection is made (sinproc.c:148-180, 288-331) the event that  *)
(* takes it further is under way, and an end that is not made yet has a    *)
(* partner that waits for it.                                              *)
HandshakeInv(x) ==
    /\ end[x] = "CONNECTING" => Carried("CONNECT", Partner(x)) \/ Carried("READY", x)
    /\ end[x] = "READY" => \/ Carried("ACCEPTED", x)
                           \/ Carried("READY", Partner(x)) /\ end[Partner(x)] = "CONNECTING"
    /\ end[x] = "NONE" /\ end[Partner(x)] # "NONE" => end[Partner(x)] = "CONNECTING"
    /\ Carried("READY", x) => end[x] # "NONE" /\ end[Partner(x)] # "NONE"
    /\ Carried("ACCEPTED", x) => end[x] # "NONE"

(* When it ends (sinproc.c:190-202, 374-384), an end that waits for its    *)
(* peer's DISCONNECT has told it, or will be answered; who was told, or    *)
(* is through with it, has a partner that is over too.                     *)
FarewellInv(x) ==
    /\ end[Partner(x)] = "STOPPING_PEER" =>
          \/ Carried("DISCONNECT", x)
          \/ end[x] \in {"DISCONNECTED", "FREED"} /\ Carried("DISCONNECT", Partner(x))
    /\ Carried("DISCONNECT", x) => end[Partner(x)] \in Over
    /\ end[x] \in {"DISCONNECTED", "FREED"} => end[Partner(x)] \in Over

(* Only the end of an active endpoint is being made or used, and one is    *)
(* over only if an endpoint of the two was told to stop.                   *)
OwnersInv(x) ==
    /\ end[x] \in Forming => ep[x.own] = "ACTIVE"
    /\ end[x] \in Over => ep[x.own] \in {"STOPPING", "gone"} \/ ep[x.oth] \in {"STOPPING", "gone"}

AgreeInv == Alive => \A x \in Ends : HandshakeInv(x) /\ FarewellInv(x) /\ OwnersInv(x)

(* One thread makes calls, so that a call finds no event under way, and    *)
(* cinproc.c does what binproc.c does.                                     *)
Solo == Cardinality(callers) <= 1 /\ slips = {}

(* Each event then finds its end in the state it is for.                   *)
ArrivesInv(x) ==
    /\ Carried("CONNECT", x) => ep[x.own] = "ACTIVE"
    /\ Carried("READY", x) => end[x] = "CONNECTING" /\ end[Partner(x)] = "READY"
    /\ Carried("ACCEPTED", x) => end[x] = "READY" /\ end[Partner(x)] = "ACTIVE"
    /\ Carried("DISCONNECT", x) => \/ end[x] = "ACTIVE" /\ end[Partner(x)] = "STOPPING_PEER"
                                   \/ end[x] = "STOPPING_PEER"

(* The one thread carries no event twice, and either makes connections or  *)
(* ends them.                                                              *)
CarriersInv ==
    /\ callers \subseteq Threads
    /\ \A t \in Threads : t \notin callers => hand[t] = <<>>
    /\ \A t \in Threads : Distinct(hand[t])
    /\ \A type \in Handshake, x, y \in Ends : ~(Carried(type, x) /\ Carried("DISCONNECT", y))

(* A connection is between a bound and a connected endpoint.               *)
SidesInv ==
    \A x \in Ends : x.role = "conn" /\ end[x] # "NONE" =>
        \/ x.own \in Binder /\ x.oth \in Connector
        \/ x.own \in Connector /\ x.oth \in Binder

(* NN_STAT_INPROGRESS_CONNECTIONS of a socket counts at least its active   *)
(* connecting endpoints without a connection.                              *)
Served(c)   == \E x \in Ends : x.own = c /\ end[x] \in Forming
Unserved(s) == {c \in Connector : Socket[c] = s /\ ep[c] = "ACTIVE" /\ ~Served(c)}
CountInv    == \A s \in Sockets : Cardinality(Unserved(s)) <= inprogress[s]

SoloInv ==
    Solo => Alive /\ (\A x \in Ends : ArrivesInv(x)) /\ CarriersInv /\ SidesInv /\ CountInv
-----------------------------------------------------------------------------
(* What is carried after a call, and after an event was handled.           *)
LEMMA Given ==
    ASSUME hand \in [Threads -> Seq(Events)], NEW t \in Threads, hand[t] = <<>>,
           NEW s \in Seq(Events), hand' = Carry(t, s)
    PROVE  \A k, y : Carried(k, y)' <=> Carried(k, y) \/ Contains(s, Event(k, y))
<1> SUFFICES ASSUME NEW k, NEW y
             PROVE  Carried(k, y)' <=> Carried(k, y) \/ Contains(s, Event(k, y))
  OBVIOUS
<1>1. hand'[t] = s /\ \A u \in Threads : u # t => hand'[u] = hand[u]
  BY DEF Carry
<1>2. ~Contains(hand[t], Event(k, y))
  BY DEF Contains
<1> QED
  BY <1>1, <1>2 DEF Carried

LEMMA Received ==
    ASSUME hand \in [Threads -> Seq(Events)], NEW t \in Threads, hand[t] # <<>>,
           NEW s \in Seq(Events), hand' = Handled(t, s)
    PROVE  \A k, y : /\ Carried(k, y)' => Carried(k, y) \/ Contains(s, Event(k, y))
                     /\ Contains(s, Event(k, y)) => Carried(k, y)'
                     /\ Carried(k, y) /\ Event(k, y) # Head(hand[t]) => Carried(k, y)'
<1> DEFINE h == hand[t]
           r == s \o Tail(h)
<1>1. h \in Seq(Events) /\ h # <<>> /\ Len(h) \in Nat \ {0} /\ Len(s) \in Nat /\ Head(h) = h[1]
  OBVIOUS
<1>2. /\ r \in Seq(Events) /\ Len(r) = Len(s) + Len(h) - 1
      /\ \A i \in 1..Len(r) : r[i] = IF i <= Len(s) THEN s[i] ELSE h[i - Len(s) + 1]
  BY <1>1, AnswerFacts
<1>3. hand'[t] = r /\ \A u \in Threads : u # t => hand'[u] = hand[u]
  BY DEF Handled
<1> HIDE DEF r
<1> SUFFICES ASSUME NEW k, NEW y
             PROVE  /\ Carried(k, y)' => Carried(k, y) \/ Contains(s, Event(k, y))
                    /\ Contains(s, Event(k, y)) => Carried(k, y)'
                    /\ Carried(k, y) /\ Event(k, y) # Head(h) => Carried(k, y)'
  OBVIOUS
<1> DEFINE v == Event(k, y)
<1> HIDE DEF h, v
<1>4. Contains(r, v) => Contains(s, v) \/ Contains(h, v)
  <2> SUFFICES ASSUME NEW i \in 1..Len(r), r[i] = v PROVE Contains(s, v) \/ Contains(h, v)
    BY DEF Contains
  <2>1. CASE i <= Len(s)
    BY <1>1, <1>2, <2>1 DEF Contains
  <2>2. CASE ~(i <= Len(s))
    <3>1. i - Len(s) + 1 \in 1..Len(h) /\ h[i - Len(s) + 1] = v
      BY <1>1, <1>2, <2>2
    <3> QED
      BY <3>1 DEF Contains
  <2> QED
    BY <2>1, <2>2
<1>5. Contains(s, v) => Contains(r, v)
  <2> SUFFICES ASSUME NEW i \in 1..Len(s), s[i] = v PROVE Contains(r, v)
    BY DEF Contains
  <2>1. i \in 1..Len(r) /\ r[i] = v
    BY <1>1, <1>2
  <2> QED
    BY <2>1 DEF Contains
<1>6. Contains(h, v) /\ v # Head(h) => Contains(r, v)
  <2> SUFFICES ASSUME NEW i \in 1..Len(h), h[i] = v, v # h[1] PROVE Contains(r, v)
    BY <1>1 DEF Contains
  <2>1. i # 1
    OBVIOUS
  <2> DEFINE j == i + Len(s) - 1
  <2>2. j \in 1..Len(r) /\ ~(j <= Len(s)) /\ j - Len(s) + 1 = i
    BY <1>1, <1>2, <2>1
  <2>3. r[j] = v
    BY <1>2, <2>2
  <2> QED
    BY <2>2, <2>3 DEF Contains
<1> QED
  BY <1>3, <1>4, <1>5, <1>6 DEF Carried, h, v

(* Lists of one event and of none.                                         *)
LEMMA ShortFacts ==
    /\ \A v \in Events : <<v>> \in Seq(Events) /\ \A w : Contains(<<v>>, w) <=> w \in {v}
    /\ <<>> \in Seq(Events) /\ \A w : ~Contains(<<>>, w)
<1>1. ASSUME NEW v \in Events PROVE <<v>> \in Seq(Events) /\ \A w : Contains(<<v>>, w) <=> w \in {v}
  <2>1. Len(<<v>>) = 1 /\ <<v>>[1] = v /\ <<v>> \in Seq(Events)
    OBVIOUS
  <2>2. 1..1 = {1}
    OBVIOUS
  <2> QED
    BY <2>1, <2>2 DEF Contains
<1>2. <<>> \in Seq(Events) /\ \A w : ~Contains(<<>>, w)
  BY DEF Contains
<1> QED
  BY <1>1, <1>2

(* Endpoints do not become active, and those that were told to stop stop.  *)
Owners ==
    \A e \in Ep : /\ ep'[e] = "ACTIVE" <=> ep[e] = "ACTIVE"
                  /\ ep[e] \in {"STOPPING", "gone"} => ep'[e] \in {"STOPPING", "gone"}

(* The event of that type for x was handled: x goes to st, S is answered.  *)
Turn(type, x, st, S) ==
    /\ \A y \in Ends : end'[y] = IF y = x THEN st ELSE end[y]
    /\ Owners
    /\ Carried(type, x)
    /\ \A k, y : Carried(k, y)' => Carried(k, y) \/ Event(k, y) \in S
    /\ \A k, y : Event(k, y) \in S => Carried(k, y)'
    /\ \A k, y : Carried(k, y) /\ ~(k = type /\ y = x) => Carried(k, y)'

(* The invariant of all ends.                                              *)
Agreed == \A x \in Ends : HandshakeInv(x) /\ FarewellInv(x) /\ OwnersInv(x)

LEMMA TurnFacts ==
    ASSUME TypeOK, NEW t \in Threads, hand[t] # <<>>,
           NEW x \in Ends, NEW type, Head(hand[t]) = Event(type, x),
           NEW s \in Seq(Events), NEW S, \A w : Contains(s, w) <=> w \in S,
           hand' = Handled(t, s),
           NEW st, end' = [end EXCEPT ![x] = st], Owners
    PROVE  Turn(type, x, st, S)
<1>1. hand \in [Threads -> Seq(Events)] /\ end \in [Ends -> EndStates]
  BY DEF TypeOK
<1>2. \A k, y : /\ Carried(k, y)' => Carried(k, y) \/ Contains(s, Event(k, y))
                /\ Contains(s, Event(k, y)) => Carried(k, y)'
                /\ Carried(k, y) /\ Event(k, y) # Head(hand[t]) => Carried(k, y)'
  BY <1>1, Received
<1>3. Carried(type, x)
  <2>1. hand[t] \in Seq(Events) /\ Len(hand[t]) \in Nat \ {0} /\ Head(hand[t]) = hand[t][1]
    BY <1>1
  <2> QED
    BY <2>1 DEF Carried, Contains
<1>4. \A k, y : Event(k, y) = Event(type, x) => k = type /\ y = x
  BY EventFacts
<1>5. \A y \in Ends : end'[y] = IF y = x THEN st ELSE end[y]
  BY <1>1
<1> QED
  BY <1>2, <1>3, <1>4, <1>5 DEF Turn
-----------------------------------------------------------------------------
(* The event of a handshake that is accepted.                              *)
LEMMA AcceptAgreed ==
    ASSUME Agreed, NEW x \in Ends, ep[x.own] = "ACTIVE",
           end[x] = "NONE", end[Partner(x)] # "NONE",
           Turn("CONNECT", x, "READY", {Event("READY", Partner(x))})
    PROVE  Agreed'
<1> DEFINE p == Partner(x)
<1>1. /\ p \in Ends /\ Partner(p) = x /\ p # x /\ p.own = x.oth /\ p.oth = x.own
      /\ x.own \in Ep /\ x.oth \in Ep
  BY EndFacts
<1>2. /\ \A y \in Ends : end'[y] = IF y = x THEN "READY" ELSE end[y]
      /\ \A k, y : Carried(k, y)' => Carried(k, y) \/ (k = "READY" /\ y = p)
      /\ Carried("READY", p)'
      /\ \A k, y : Carried(k, y) /\ ~(k = "CONNECT" /\ y = x) => Carried(k, y)'
      /\ Owners
  BY EventFacts DEF Turn
<1>3. end[p] = "CONNECTING"
  BY <1>1 DEF Agreed, HandshakeInv
<1> HIDE DEF p
<1> SUFFICES ASSUME NEW y \in Ends PROVE HandshakeInv(y)' /\ FarewellInv(y)' /\ OwnersInv(y)'
  BY DEF Agreed
<1>4. /\ Partner(y) \in Ends /\ Partner(Partner(y)) = y /\ Partner(y) # y
      /\ y.own \in Ep /\ y.oth \in Ep /\ (y = p <=> Partner(y) = x) /\ (y = x <=> Partner(y) = p)
  BY <1>1, EndFacts DEF p
<1>5. HandshakeInv(y) /\ FarewellInv(y) /\ OwnersInv(y)
  BY DEF Agreed
<1>6. HandshakeInv(y)'
  BY <1>1, <1>2, <1>3, <1>4, <1>5 DEF HandshakeInv
<1>7. FarewellInv(y)'
  BY <1>1, <1>2, <1>3, <1>4, <1>5 DEF FarewellInv, Over
<1>8. OwnersInv(y)'
  BY <1>1, <1>2, <1>4, <1>5 DEF OwnersInv, Forming, Over, Owners
<1> QED
  BY <1>6, <1>7, <1>8

(* The peer has accepted.                                                  *)
LEMMA ReadyAgreed ==
    ASSUME Agreed, NEW x \in Ends, end[x] = "CONNECTING",
           Turn("READY", x, "ACTIVE", {Event("ACCEPTED", Partner(x))})
    PROVE  Agreed'
<1> DEFINE p == Partner(x)
<1>1. /\ p \in Ends /\ Partner(p) = x /\ p # x /\ p.own = x.oth /\ p.oth = x.own
      /\ x.own \in Ep /\ x.oth \in Ep
  BY EndFacts
<1>2. /\ \A y \in Ends : end'[y] = IF y = x THEN "ACTIVE" ELSE end[y]
      /\ \A k, y : Carried(k, y)' => Carried(k, y) \/ (k = "ACCEPTED" /\ y = p)
      /\ Carried("ACCEPTED", p)' /\ Carried("READY", x)
      /\ \A k, y : Carried(k, y) /\ ~(k = "READY" /\ y = x) => Carried(k, y)'
      /\ Owners
  BY EventFacts DEF Turn
<1>3. end[p] # "NONE" /\ (OwnersInv(x) => ep[x.own] = "ACTIVE") /\ OwnersInv(x)
  BY <1>1, <1>2 DEF Agreed, HandshakeInv, OwnersInv, Forming
<1> HIDE DEF p
<1> SUFFICES ASSUME NEW y \in Ends PROVE HandshakeInv(y)' /\ FarewellInv(y)' /\ OwnersInv(y)'
  BY DEF Agreed
<1>4. /\ Partner(y) \in Ends /\ Partner(Partner(y)) = y /\ Partner(y) # y
      /\ y.own \in Ep /\ y.oth \in Ep /\ (y = p <=> Partner(y) = x) /\ (y = x <=> Partner(y) = p)
  BY <1>1, EndFacts DEF p
<1>5. HandshakeInv(y) /\ FarewellInv(y) /\ OwnersInv(y)
  BY DEF Agreed
<1>6. HandshakeInv(y)'
  BY <1>1, <1>2, <1>3, <1>4, <1>5 DEF HandshakeInv
<1>7. FarewellInv(y)'
  BY <1>1, <1>2, <1>4, <1>5 DEF FarewellInv, Over
<1>8. OwnersInv(y)'
  BY <1>1, <1>2, <1>3, <1>4, <1>5 DEF OwnersInv, Forming, Over, Owners
<1> QED
  BY <1>6, <1>7, <1>8

(* The connector has heard of it.                                          *)
LEMMA AcceptedAgreed ==
    ASSUME Agreed, NEW x \in Ends, end[x] = "READY",
           Turn("ACCEPTED", x, "ACTIVE", {})
    PROVE  Agreed'
<1>1. /\ Partner(x) \in Ends /\ x.own \in Ep /\ x.oth \in Ep
  BY EndFacts
<1>2. /\ \A y \in Ends : end'[y] = IF y = x THEN "ACTIVE" ELSE end[y]
      /\ \A k, y : Carried(k, y)' => Carried(k, y)
      /\ \A k, y : Carried(k, y) /\ ~(k = "ACCEPTED" /\ y = x) => Carried(k, y)'
      /\ Owners
  BY DEF Turn
<1> SUFFICES ASSUME NEW y \in Ends PROVE HandshakeInv(y)' /\ FarewellInv(y)' /\ OwnersInv(y)'
  BY DEF Agreed
<1>4. /\ Partner(y) \in Ends /\ Partner(Partner(y)) = y /\ Partner(y) # y
      /\ y.own \in Ep /\ y.oth \in Ep
  BY EndFacts
<1>5. HandshakeInv(y) /\ FarewellInv(y) /\ OwnersInv(y) /\ HandshakeInv(Partner(y))
  BY <1>4 DEF Agreed
<1>6. HandshakeInv(y)'
  BY <1>1, <1>2, <1>4, <1>5 DEF HandshakeInv
<1>7. FarewellInv(y)'
  BY <1>1, <1>2, <1>4, <1>5 DEF FarewellInv, Over
<1>8. OwnersInv(y)'
  BY <1>1, <1>2, <1>4, <1>5 DEF OwnersInv, Forming, Over, Owners
<1> QED
  BY <1>6, <1>7, <1>8

(* An end that is stopping ignores the handshake.                          *)
LEMMA IgnoredAgreed ==
    ASSUME Agreed, NEW x \in Ends, NEW type \in {"READY", "ACCEPTED"},
           end[x] = "STOPPING_PEER", Turn(type, x, end[x], {})
    PROVE  Agreed'
<1>1. /\ Partner(x) \in Ends /\ x.own \in Ep /\ x.oth \in Ep
  BY EndFacts
<1>2. /\ \A y \in Ends : end'[y] = end[y]
      /\ \A k, y : Carried(k, y)' => Carried(k, y)
      /\ \A k, y : Carried(k, y) /\ ~(k = type /\ y = x) => Carried(k, y)'
      /\ Owners
  BY DEF Turn
<1> SUFFICES ASSUME NEW y \in Ends PROVE HandshakeInv(y)' /\ FarewellInv(y)' /\ OwnersInv(y)'
  BY DEF Agreed
<1>4. /\ Partner(y) \in Ends /\ Partner(Partner(y)) = y /\ Partner(y) # y
      /\ y.own \in Ep /\ y.oth \in Ep
  BY EndFacts
<1>5. HandshakeInv(y) /\ FarewellInv(y) /\ OwnersInv(y)
  BY DEF Agreed
<1>6. HandshakeInv(y)'
  BY <1>1, <1>2, <1>4, <1>5 DEF HandshakeInv
<1>7. FarewellInv(y)'
  BY <1>1, <1>2, <1>4, <1>5 DEF FarewellInv, Over
<1>8. OwnersInv(y)'
  BY <1>1, <1>2, <1>4, <1>5 DEF OwnersInv, Forming, Over, Owners
<1> QED
  BY <1>6, <1>7, <1>8

(* An active end hears that its peer stops, and answers.                   *)
LEMMA DisconnectedAgreed ==
    ASSUME Agreed, NEW x \in Ends, NEW st \in {"DISCONNECTED", "FREED"}, end[x] = "ACTIVE",
           Turn("DISCONNECT", x, st, {Event("DISCONNECT", Partner(x))})
    PROVE  Agreed'
<1> DEFINE p == Partner(x)
<1>1. /\ p \in Ends /\ Partner(p) = x /\ p # x /\ p.own = x.oth /\ p.oth = x.own
      /\ x.own \in Ep /\ x.oth \in Ep
  BY EndFacts
<1>2. /\ \A y \in Ends : end'[y] = IF y = x THEN st ELSE end[y]
      /\ \A k, y : Carried(k, y)' => Carried(k, y) \/ (k = "DISCONNECT" /\ y = p)
      /\ Carried("DISCONNECT", p)' /\ Carried("DISCONNECT", x)
      /\ \A k, y : Carried(k, y) /\ ~(k = "DISCONNECT" /\ y = x) => Carried(k, y)'
      /\ Owners
  BY EventFacts DEF Turn
<1>3. end[p] \in Over /\ OwnersInv(p)
  BY <1>1, <1>2 DEF Agreed, FarewellInv
<1> HIDE DEF p
<1> SUFFICES ASSUME NEW y \in Ends PROVE HandshakeInv(y)' /\ FarewellInv(y)' /\ OwnersInv(y)'
  BY DEF Agreed
<1>4. /\ Partner(y) \in Ends /\ Partner(Partner(y)) = y /\ Partner(y) # y
      /\ y.own \in Ep /\ y.oth \in Ep /\ (y = p <=> Partner(y) = x) /\ (y = x <=> Partner(y) = p)
  BY <1>1, EndFacts DEF p
<1>5. HandshakeInv(y) /\ FarewellInv(y) /\ OwnersInv(y)
  BY DEF Agreed
<1>6. HandshakeInv(y)'
  BY <1>1, <1>2, <1>3, <1>4, <1>5 DEF HandshakeInv, Over
<1>7. FarewellInv(y)'
  BY <1>1, <1>2, <1>3, <1>4, <1>5 DEF FarewellInv, Over
<1>8. OwnersInv(y)'
  BY <1>1, <1>2, <1>3, <1>4, <1>5 DEF OwnersInv, Forming, Over, Owners
<1> QED
  BY <1>6, <1>7, <1>8

(* A stopping end hears from its peer and is freed.                        *)
LEMMA PeerStoppedAgreed ==
    ASSUME Agreed, NEW x \in Ends, end[x] = "STOPPING_PEER",
           Turn("DISCONNECT", x, "FREED", {})
    PROVE  Agreed'
<1> DEFINE p == Partner(x)
<1>1. /\ p \in Ends /\ Partner(p) = x /\ p # x /\ p.own = x.oth /\ p.oth = x.own
      /\ x.own \in Ep /\ x.oth \in Ep
  BY EndFacts
<1>2. /\ \A y \in Ends : end'[y] = IF y = x THEN "FREED" ELSE end[y]
      /\ \A k, y : Carried(k, y)' => Carried(k, y)
      /\ Carried("DISCONNECT", x)
      /\ \A k, y : Carried(k, y) /\ ~(k = "DISCONNECT" /\ y = x) => Carried(k, y)'
      /\ Owners
  BY DEF Turn
<1>3. /\ end[p] \in Over /\ OwnersInv(x)
      /\ end[p] = "STOPPING_PEER" => Carried("DISCONNECT", p)
  BY <1>1, <1>2 DEF Agreed, FarewellInv
<1> HIDE DEF p
<1> SUFFICES ASSUME NEW y \in Ends PROVE HandshakeInv(y)' /\ FarewellInv(y)' /\ OwnersInv(y)'
  BY DEF Agreed
<1>4. /\ Partner(y) \in Ends /\ Partner(Partner(y)) = y /\ Partner(y) # y
      /\ y.own \in Ep /\ y.oth \in Ep /\ (y = p <=> Partner(y) = x) /\ (y = x <=> Partner(y) = p)
  BY <1>1, EndFacts DEF p
<1>5. HandshakeInv(y) /\ FarewellInv(y) /\ OwnersInv(y)
  BY DEF Agreed
<1>6. HandshakeInv(y)'
  BY <1>1, <1>2, <1>3, <1>4, <1>5 DEF HandshakeInv, Over
<1>7. FarewellInv(y)'
  BY <1>1, <1>2, <1>3, <1>4, <1>5 DEF FarewellInv, Over
<1>8. OwnersInv(y)'
  BY <1>1, <1>2, <1>3, <1>4, <1>5 DEF OwnersInv, Forming, Over, Owners
<1> QED
  BY <1>6, <1>7, <1>8
-----------------------------------------------------------------------------
(* An endpoint starts and makes the connections of M, their partners are   *)
(* asked to accept.                                                        *)
LEMMA MadeAgreed ==
    ASSUME Agreed, ListsInv, ep \in [Ep -> {"none", "ACTIVE", "STOPPING", "gone"}],
           NEW e \in Ep, ep[e] = "none", ep' = [ep EXCEPT ![e] = "ACTIVE"],
           NEW M, \A x \in M : x \in Ends /\ x.own = e,
           \A y \in Ends : end'[y] = IF y \in M THEN "CONNECTING" ELSE end[y],
           \A k, y : Carried(k, y)' <=> Carried(k, y) \/ (k = "CONNECT" /\ \E x \in M : y = Partner(x))
    PROVE  Agreed'
<1>1. ep'[e] = "ACTIVE" /\ \A f \in Ep : f # e => ep'[f] = ep[f]
  OBVIOUS
<1>2. \A x \in M : end[x] = "NONE"
  BY DEF ListsInv
<1> SUFFICES ASSUME NEW y \in Ends PROVE HandshakeInv(y)' /\ FarewellInv(y)' /\ OwnersInv(y)'
  BY DEF Agreed
<1>4. /\ Partner(y) \in Ends /\ Partner(Partner(y)) = y /\ Partner(y) # y
      /\ y.own \in Ep /\ y.oth \in Ep
  BY EndFacts
<1>5. HandshakeInv(y) /\ FarewellInv(y) /\ OwnersInv(y)
  BY DEF Agreed
<1>6. HandshakeInv(y)'
  <2>1. y \in M => Carried("CONNECT", Partner(y))'
    OBVIOUS
  <2>2. \A k, z : Carried(k, z) => Carried(k, z)'
    OBVIOUS
  <2>3. \A z : (Carried("READY", z)' => Carried("READY", z)) /\ (Carried("ACCEPTED", z)' => Carried("ACCEPTED", z))
    OBVIOUS
  <2>4. /\ end'[y] = IF y \in M THEN "CONNECTING" ELSE end[y]
        /\ end'[Partner(y)] = IF Partner(y) \in M THEN "CONNECTING" ELSE end[Partner(y)]
    BY <1>4
  <2> QED
    BY <1>2, <1>5, <2>1, <2>2, <2>3, <2>4 DEF HandshakeInv
<1>7. FarewellInv(y)'
  <2>1. \A z : Carried("DISCONNECT", z)' <=> Carried("DISCONNECT", z)
    OBVIOUS
  <2> QED
    BY <1>2, <1>4, <1>5, <2>1 DEF FarewellInv, Over
<1>8. OwnersInv(y)'
  BY <1>1, <1>2, <1>4, <1>5 DEF OwnersInv, Forming, Over
<1> QED
  BY <1>6, <1>7, <1>8

(* A refused endpoint has made none.                                       *)
LEMMA BindRefusedAgreed ==
    ASSUME IInv, Agreed, NEW t \in Threads, NEW e \in Ep, BindRefused(t, e)
    PROVE  Agreed'
<1>1. /\ ep[e] = "none" /\ ep' = [ep EXCEPT ![e] = "gone"] /\ end' = end /\ hand' = hand
      /\ ep \in [Ep -> {"none", "ACTIVE", "STOPPING", "gone"}]
  BY DEF BindRefused, IInv, TypeOK
<1>2. ep'[e] = "gone" /\ \A f \in Ep : f # e => ep'[f] = ep[f]
  BY <1>1
<1>3. \A k, y : Carried(k, y)' <=> Carried(k, y)
  BY <1>1 DEF Carried
<1> SUFFICES ASSUME NEW y \in Ends PROVE HandshakeInv(y)' /\ FarewellInv(y)' /\ OwnersInv(y)'
  BY DEF Agreed
<1>4. y.own \in Ep /\ y.oth \in Ep /\ (y.own = e => end[y] = "NONE")
  BY <1>1, EndFacts DEF IInv, ListsInv
<1>5. HandshakeInv(y) /\ FarewellInv(y) /\ OwnersInv(y)
  BY DEF Agreed
<1>6. HandshakeInv(y)' /\ FarewellInv(y)'
  BY <1>1, <1>3, <1>5 DEF HandshakeInv, FarewellInv
<1>7. OwnersInv(y)'
  BY <1>1, <1>2, <1>4, <1>5 DEF OwnersInv, Forming, Over
<1> QED
  BY <1>6, <1>7

(* What a call that makes the connections of the list made leaves behind.  *)
LEMMA CarriedForMade ==
    ASSUME hand \in [Threads -> Seq(Events)], NEW t \in Threads, hand[t] = <<>>,
           NEW made \in Seq(Ends), NEW type \in Handshake \cup {"DISCONNECT"},
           hand' = Carry(t, ToPartners(type, made))
    PROVE  \A k, y : Carried(k, y)' <=>
                        Carried(k, y) \/ (k = type /\ \E x \in Ends : Contains(made, x) /\ y = Partner(x))
<1> DEFINE r == ToPartners(type, made)
<1>1. /\ r \in Seq(Events) /\ Len(r) = Len(made)
      /\ \A i \in 1..Len(made) : r[i] = Event(type, Partner(made[i])) /\ made[i] \in Ends
  BY ToPartnersFacts
<1>2. hand' = Carry(t, r)
  OBVIOUS
<1> HIDE DEF r
<1>3. \A k, y : Carried(k, y)' <=> Carried(k, y) \/ Contains(r, Event(k, y))
  BY <1>1, <1>2, Given
<1>4. ASSUME NEW k, NEW y
      PROVE  Contains(r, Event(k, y)) <=> k = type /\ \E x \in Ends : Contains(made, x) /\ y = Partner(x)
  <2>1. ASSUME NEW i \in 1..Len(made), r[i] = Event(k, y)
        PROVE  k = type /\ \E x \in Ends : Contains(made, x) /\ y = Partner(x)
    <3>1. Event(k, y) = Event(type, Partner(made[i]))
      BY <1>1, <2>1
    <3>2. k = type /\ y = Partner(made[i])
      BY <3>1, EventFacts
    <3> QED
      BY <1>1, <3>2 DEF Contains
  <2>2. ASSUME k = type, NEW i \in 1..Len(made), y = Partner(made[i]) PROVE Contains(r, Event(k, y))
    BY <1>1, <2>2 DEF Contains
  <2> QED
    BY <1>1, <2>1, <2>2 DEF Contains
<1> QED
  BY <1>3, <1>4

LEMMA BindAgreed ==
    ASSUME IInv, Agreed, NEW t \in Threads, NEW e \in Ep, Bind(t, e)
    PROVE  Agreed'
<1> DEFINE w == Waiting(e)
           made == ConnEnds(e, w)
           M == {x \in Ends : Contains(made, x)}
<1>1. /\ ep[e] = "none" /\ hand[t] = <<>>
      /\ ep' = [ep EXCEPT ![e] = "ACTIVE"]
      /\ end' = [x \in Ends |-> IF Contains(made, x) THEN "CONNECTING" ELSE end[x]]
      /\ hand' = Carry(t, ToPartners("CONNECT", made))
  BY DEF Bind, Calls
<1>2. w \in Seq(Connector) /\ Distinct(w)
  <2>1. connected \in Seq(Connector) /\ Distinct(connected)
    BY DEF IInv, TypeOK, RegistryInv
  <2> QED
    BY <2>1, ChosenFacts DEF Waiting
<1> HIDE DEF w
<1>3. made \in Seq(Ends) /\ \A i \in 1..Len(made) : made[i].own = e
  BY <1>2, ConnEndsFacts
<1> HIDE DEF made
<1>4. hand \in [Threads -> Seq(Events)] /\ ep \in [Ep -> {"none", "ACTIVE", "STOPPING", "gone"}] /\ ListsInv
  BY DEF IInv, TypeOK
<1>5. \A k, y : Carried(k, y)' <=>
                   Carried(k, y) \/ (k = "CONNECT" /\ \E x \in Ends : Contains(made, x) /\ y = Partner(x))
  BY <1>1, <1>3, <1>4, CarriedForMade DEF Handshake
<1>6. \A k, y : Carried(k, y)' <=> Carried(k, y) \/ (k = "CONNECT" /\ \E x \in M : y = Partner(x))
  BY <1>5
<1>7. \A x \in M : x \in Ends /\ x.own = e
  BY <1>3 DEF Contains
<1>8. \A y \in Ends : end'[y] = IF y \in M THEN "CONNECTING" ELSE end[y]
  BY <1>1
<1> HIDE DEF M
<1> QED
  BY <1>1, <1>4, <1>6, <1>7, <1>8, MadeAgreed

LEMMA ConnectAloneAgreed ==
    ASSUME IInv, Agreed, NEW t \in Threads, NEW e \in Ep, ConnectAlone(t, e)
    PROVE  Agreed'
<1>1. /\ ep[e] = "none" /\ ep' = [ep EXCEPT ![e] = "ACTIVE"] /\ end' = end /\ hand' = hand
      /\ ep \in [Ep -> {"none", "ACTIVE", "STOPPING", "gone"}] /\ ListsInv
  BY DEF ConnectAlone, IInv, TypeOK
<1>2. \A k, y : Carried(k, y)' <=> Carried(k, y)
  BY <1>1 DEF Carried
<1> QED
  <2> DEFINE M == {}
  <2>1. /\ \A x \in M : x \in Ends /\ x.own = e
        /\ \A y \in Ends : end'[y] = IF y \in M THEN "CONNECTING" ELSE end[y]
        /\ \A k, y : Carried(k, y)' <=> Carried(k, y) \/ (k = "CONNECT" /\ \E x \in M : y = Partner(x))
    BY <1>1, <1>2
  <2> HIDE DEF M
  <2> QED
    BY <1>1, <2>1, MadeAgreed

LEMMA ConnectAgreed ==
    ASSUME IInv, Agreed, NEW t \in Threads, NEW e \in Ep, Connect(t, e)
    PROVE  Agreed'
<1>1. PICK l \in Listening(e) :
          LET x == ConnEnd(e, Target(e, l))
          IN  /\ end' = [end EXCEPT ![x] = "CONNECTING"]
              /\ hand' = Carry(t, <<Event("CONNECT", Partner(x))>>)
  BY DEF Connect
<1>2. /\ ep[e] = "none" /\ hand[t] = <<>> /\ ep' = [ep EXCEPT ![e] = "ACTIVE"]
  BY DEF Connect, Calls
<1>3. /\ hand \in [Threads -> Seq(Events)] /\ ep \in [Ep -> {"none", "ACTIVE", "STOPPING", "gone"}]
      /\ end \in [Ends -> EndStates] /\ ListsInv
  BY DEF IInv, TypeOK
<1>4. Target(e, l) \in Ep
  BY DEF Target, Listening, IInv, TypeOK, Ep
<1> DEFINE x == ConnEnd(e, Target(e, l))
           v == Event("CONNECT", Partner(x))
           M == {x}
<1>5. x \in Ends /\ x.own = e /\ Partner(x) \in Ends
  BY <1>4, EndFacts
<1>6. v \in Events
  BY <1>5, EventFacts DEF Handshake
<1>7. end' = [end EXCEPT ![x] = "CONNECTING"] /\ hand' = Carry(t, <<v>>)
  BY <1>1
<1>8. \A k, y : Event(k, y) \in {v} <=> k = "CONNECT" /\ y = Partner(x)
  BY EventFacts
<1> HIDE DEF x, v
<1>9. <<v>> \in Seq(Events) /\ \A u : Contains(<<v>>, u) <=> u \in {v}
  BY <1>6, ShortFacts
<1>10. \A k, y : Carried(k, y)' <=> Carried(k, y) \/ Contains(<<v>>, Event(k, y))
  <2> DEFINE s == <<v>>
  <2>1. s \in Seq(Events) /\ hand' = Carry(t, s)
    BY <1>7, <1>9
  <2> HIDE DEF s
  <2>2. \A k, y : Carried(k, y)' <=> Carried(k, y) \/ Contains(s, Event(k, y))
    BY <1>2, <1>3, <2>1, Given
  <2> QED
    BY <2>2 DEF s
<1>11. \A k, y : Carried(k, y)' <=> Carried(k, y) \/ (k = "CONNECT" /\ \E z \in M : y = Partner(z))
  BY <1>8, <1>9, <1>10
<1>12. /\ \A z \in M : z \in Ends /\ z.own = e
       /\ \A y \in Ends : end'[y] = IF y \in M THEN "CONNECTING" ELSE end[y]
  BY <1>3, <1>5, <1>7
<1> HIDE DEF M
<1> QED
  BY <1>2, <1>3, <1>11, <1>12, MadeAgreed
(* The ends that a call of nn_ep_stop reaches, and what they become.       *)
LEMMA StopEnds ==
    ASSUME IInv, NEW t \in Threads, NEW e \in Ep, Stop(t, e)
    PROVE  /\ hand[t] = <<>> /\ Told(e) \in Seq(Ends) /\ Distinct(Told(e))
           /\ \A x \in Ends : Contains(Told(e), x) <=> x.own = e /\ end[x] \in Forming
           /\ hand' = Carry(t, ToPartners("DISCONNECT", Told(e)))
           /\ \A x \in Ends : end'[x] = IF x.own # e THEN end[x]
                                        ELSE IF end[x] \in Forming THEN "STOPPING_PEER"
                                        ELSE IF end[x] = "DISCONNECTED" THEN "FREED" ELSE end[x]
           /\ ep[e] = "ACTIVE" /\ ep'[e] \in {"STOPPING", "gone"} /\ \A f \in Ep : f # e => ep'[f] = ep[f]
<1>1. /\ ep[e] = "ACTIVE" /\ hand[t] = <<>>
      /\ end' = [x \in Ends |-> IF Contains(sinprocs[e], x) THEN AfterStop(end[x]) ELSE end[x]]
      /\ ep' = [ep EXCEPT ![e] = IF Left(e) = <<>> THEN "gone" ELSE "STOPPING"]
      /\ hand' = Carry(t, ToPartners("DISCONNECT", Told(e)))
  BY DEF Stop, Calls
<1>2. sinprocs[e] \in Seq(Ends) /\ Distinct(sinprocs[e])
      /\ \A x \in Ends : Contains(sinprocs[e], x) <=> x.own = e /\ Live(x)
  BY DEF IInv, TypeOK, ListsInv
<1>3. Told(e) \in Seq(Ends) /\ Distinct(Told(e))
      /\ \A x \in Ends : Contains(Told(e), x) <=> x.own = e /\ end[x] \in Forming
  <2> DEFINE T == {x \in Ends : end[x] \in {"CONNECTING", "READY", "ACTIVE"}}
  <2>1. Told(e) = Chosen(sinprocs[e], T)
    BY DEF Told
  <2>2. \A x \in Ends : x \in T <=> end[x] \in Forming
    BY DEF Forming
  <2> HIDE DEF T
  <2>3. /\ Chosen(sinprocs[e], T) \in Seq(Ends) /\ Distinct(Chosen(sinprocs[e], T))
        /\ \A x : Contains(Chosen(sinprocs[e], T), x) <=> Contains(sinprocs[e], x) /\ x \in T
    BY <1>2, ChosenFacts
  <2> QED
    BY <1>2, <2>1, <2>2, <2>3 DEF Live, Forming
<1>4. ASSUME NEW x \in Ends
      PROVE  end'[x] = IF x.own # e THEN end[x]
                       ELSE IF end[x] \in Forming THEN "STOPPING_PEER"
                       ELSE IF end[x] = "DISCONNECTED" THEN "FREED" ELSE end[x]
  <2>1. end'[x] = IF x.own = e /\ Live(x) THEN AfterStop(end[x]) ELSE end[x]
    BY <1>1, <1>2
  <2>2. end[x] \in EndStates
    BY DEF IInv, TypeOK
  <2>3. end[x] \in Forming => AfterStop(end[x]) = "STOPPING_PEER"
    BY DEF AfterStop, Forming
  <2>4. end[x] = "DISCONNECTED" => AfterStop(end[x]) = "FREED"
    BY DEF AfterStop
  <2>5. end[x] = "STOPPING_PEER" => AfterStop(end[x]) = end[x]
    BY DEF AfterStop
  <2> QED
    BY <2>1, <2>2, <2>3, <2>4, <2>5 DEF Live, Forming, EndStates
<1>5. ep'[e] \in {"STOPPING", "gone"} /\ \A f \in Ep : f # e => ep'[f] = ep[f]
  BY <1>1 DEF IInv, TypeOK
<1> QED
  BY <1>1, <1>3, <1>4, <1>5

LEMMA StopAgreed ==
    ASSUME IInv, Agreed, NEW t \in Threads, NEW e \in Ep, Stop(t, e), Alive'
    PROVE  Agreed'
<1>1. /\ hand[t] = <<>> /\ Told(e) \in Seq(Ends)
      /\ \A x \in Ends : Contains(Told(e), x) <=> x.own = e /\ end[x] \in Forming
      /\ hand' = Carry(t, ToPartners("DISCONNECT", Told(e)))
  BY StopEnds
<1>2. /\ \A x \in Ends : end'[x] = IF x.own # e THEN end[x]
                                   ELSE IF end[x] \in Forming THEN "STOPPING_PEER"
                                   ELSE IF end[x] = "DISCONNECTED" THEN "FREED" ELSE end[x]
      /\ ep'[e] \in {"STOPPING", "gone"} /\ \A f \in Ep : f # e => ep'[f] = ep[f]
  BY StopEnds
<1>3. hand \in [Threads -> Seq(Events)]
  BY DEF IInv, TypeOK
<1>4. \A k, y : Carried(k, y)' <=>
         Carried(k, y) \/ (k = "DISCONNECT" /\ \E x \in Ends : Contains(Told(e), x) /\ y = Partner(x))
  BY <1>1, <1>3, CarriedForMade
<1>5. \A x \in Ends : x.own = e => end[x] # "CONNECTING"
  <2>1. \A i \in DOMAIN Told(e) : end[Told(e)[i]] # "CONNECTING"
    BY DEF Stop, Alive, Failed
  <2>2. \A x \in Ends : Contains(Told(e), x) => end[x] # "CONNECTING"
    BY <1>1, <2>1 DEF Contains
  <2> QED
    BY <1>1, <2>2 DEF Forming
<1> SUFFICES ASSUME NEW y \in Ends PROVE HandshakeInv(y)' /\ FarewellInv(y)' /\ OwnersInv(y)'
  BY DEF Agreed
<1>6. /\ Partner(y) \in Ends /\ Partner(Partner(y)) = y
      /\ y.own \in Ep /\ y.oth \in Ep
  BY EndFacts
<1>7. HandshakeInv(y) /\ FarewellInv(y) /\ OwnersInv(y)
  BY DEF Agreed
<1>8. /\ \A k, z : Carried(k, z) => Carried(k, z)'
      /\ \A k, z : k # "DISCONNECT" => (Carried(k, z)' <=> Carried(k, z))
      /\ Carried("DISCONNECT", y)' => Carried("DISCONNECT", y) \/ (Partner(y).own = e /\ end[Partner(y)] \in Forming)
      /\ Partner(y).own = e /\ end[Partner(y)] \in Forming => Carried("DISCONNECT", y)'
  <2>1. Carried("DISCONNECT", y)' => Carried("DISCONNECT", y) \/ (Partner(y).own = e /\ end[Partner(y)] \in Forming)
    <3>1. \A x \in Ends : y = Partner(x) => x = Partner(y)
      BY EndFacts
    <3> QED
      BY <1>1, <1>4, <3>1
  <2>2. Partner(y).own = e /\ end[Partner(y)] \in Forming => Carried("DISCONNECT", y)'
    BY <1>1, <1>4, <1>6
  <2> QED
    BY <1>4, <2>1, <2>2
<1>9. HandshakeInv(y)'
  BY <1>2, <1>5, <1>6, <1>7, <1>8 DEF HandshakeInv, Forming
<1>10. FarewellInv(y)'
  BY <1>2, <1>6, <1>7, <1>8 DEF FarewellInv, Over, Forming
<1>11. OwnersInv(y)'
  BY <1>2, <1>6, <1>7 DEF OwnersInv, Over, Forming
<1> QED
  BY <1>9, <1>10, <1>11

(* What an endpoint becomes when one of its ends is freed.                 *)
LEMMA ReleasedOwners ==
    ASSUME TypeOK, NEW x \in Ends, Release(x)
    PROVE  Owners /\ end' = [end EXCEPT ![x] = "FREED"]
<1> DEFINE l == Without(sinprocs[x.own], x)
<1>1. ep' = [ep EXCEPT ![x.own] = IF LastOne(x.own, l) THEN "gone" ELSE ep[x.own]]
  BY DEF Release
<1> HIDE DEF l
<1>2. x.own \in Ep /\ ep \in [Ep -> {"none", "ACTIVE", "STOPPING", "gone"}]
  BY EndFacts DEF TypeOK
<1>3. LastOne(x.own, l) => ep[x.own] = "STOPPING"
  BY DEF LastOne
<1>4. \A f \in Ep : ep'[f] = IF f = x.own /\ LastOne(x.own, l) THEN "gone" ELSE ep[f]
  BY <1>1, <1>2
<1>5. Owners
  BY <1>2, <1>3, <1>4 DEF Owners
<1> QED
  BY <1>5 DEF Release

(* The cases of handling the oldest event a thread carries, when no        *)
(* assertion fails.                                                        *)
LEMMA DeliverCases ==
    ASSUME IInv, NEW t \in Threads, Deliver(t), Alive'
    PROVE  \E x \in Ends, type \in Handshake \cup {"DISCONNECT"} :
        /\ hand[t] # <<>> /\ Head(hand[t]) = Event(type, x)
        /\ \/ type = "CONNECT" /\ Accept(t, x) /\ Asks(t, 1, x)
              /\ Turn(type, x, "READY", {Event("READY", Partner(x))})
           \/ type = "READY" /\ Ready(t, x)
              /\ Turn(type, x, "ACTIVE", {Event("ACCEPTED", Partner(x))})
           \/ type = "ACCEPTED" /\ Accepted(t, x) /\ Turn(type, x, "ACTIVE", {})
           \/ type \in {"READY", "ACCEPTED"} /\ Ignored(t, x) /\ Turn(type, x, end[x], {})
           \/ type = "DISCONNECT" /\ Disconnected(t, x)
              /\ \E st \in {"DISCONNECTED", "FREED"} :
                    Turn(type, x, st, {Event("DISCONNECT", Partner(x))})
           \/ type = "DISCONNECT" /\ PeerStopped(t, x) /\ Turn(type, x, "FREED", {})
<1> DEFINE x == Head(hand[t]).to
           type == Head(hand[t]).type
<1>1. hand[t] # <<>> /\ IF InFreed(x, type) THEN Stray(t) ELSE Handle(t, x, type)
  BY DEF Deliver
<1>2. TypeOK /\ hand \in [Threads -> Seq(Events)] /\ end \in [Ends -> EndStates]
  BY DEF IInv, TypeOK
<1>3. /\ x \in Ends /\ type \in Handshake \cup {"DISCONNECT"} /\ Head(hand[t]) = Event(type, x)
      /\ type = "CONNECT" => Asks(t, 1, x)
  <2>1. Head(hand[t]) \in Events /\ (type = "CONNECT" => Asks(t, 1, x))
    BY <1>1, <1>2, OnTop
  <2> QED
    BY <2>1, EventFacts
<1> HIDE DEF x, type
<1>4. ~Stray(t) /\ ~TooLate(t, x) /\ ~BadAction(t, x, type)
  BY DEF Alive, Stray, TooLate, BadAction
<1>5. type \in {"CONNECT", "READY", "ACCEPTED", "DISCONNECT"} /\ Handle(t, x, type)
  BY <1>1, <1>3, <1>4 DEF Handshake
<1>6. /\ \A k \in Handshake \cup {"DISCONNECT"} :
            LET v == Event(k, Partner(x))
            IN  <<v>> \in Seq(Events) /\ \A w : Contains(<<v>>, w) <=> w \in {v}
      /\ <<>> \in Seq(Events) /\ \A w : Contains(<<>>, w) <=> w \in {}
  <2>1. \A k \in Handshake \cup {"DISCONNECT"} : Event(k, Partner(x)) \in Events
    BY <1>3, EndFacts, EventFacts
  <2> QED
    BY <2>1, ShortFacts
<1>7. ASSUME NEW k \in Handshake \cup {"DISCONNECT"}, NEW st,
             hand' = Handled(t, <<Event(k, Partner(x))>>), end' = [end EXCEPT ![x] = st], Owners
      PROVE  Turn(type, x, st, {Event(k, Partner(x))})
  <2> DEFINE s == <<Event(k, Partner(x))>>
             S == {Event(k, Partner(x))}
  <2>1. s \in Seq(Events) /\ (\A w : Contains(s, w) <=> w \in S) /\ hand' = Handled(t, s)
    BY <1>6, <1>7
  <2> HIDE DEF s, S
  <2>2. Turn(type, x, st, S)
    BY <1>1, <1>2, <1>3, <1>7, <2>1, TurnFacts
  <2> QED
    BY <2>2 DEF S
<1>8. ASSUME NEW st, hand' = Handled(t, <<>>), end' = [end EXCEPT ![x] = st], Owners
      PROVE  Turn(type, x, st, {})
  <2> DEFINE s == <<>>
             S == {}
  <2>1. s \in Seq(Events) /\ (\A w : Contains(s, w) <=> w \in S) /\ hand' = Handled(t, s)
    BY <1>6, <1>8
  <2> HIDE DEF s, S
  <2>2. Turn(type, x, st, S)
    BY <1>1, <1>2, <1>3, <1>8, <2>1, TurnFacts
  <2> QED
    BY <2>2 DEF S
<1>9. ep' = ep => Owners
  BY DEF Owners
<1>10. CASE type = "CONNECT"
  <2>1. Accept(t, x)
    BY <1>4, <1>5, <1>10 DEF Handle
  <2>2. hand' = Handled(t, <<Event("READY", Partner(x))>>) /\ end' = [end EXCEPT ![x] = "READY"] /\ ep' = ep
    BY <2>1 DEF Accept
  <2>3. Turn(type, x, "READY", {Event("READY", Partner(x))})
    BY <1>7, <1>9, <2>2 DEF Handshake
  <2> QED
    BY <1>1, <1>3, <1>10, <2>1, <2>3
<1>11. CASE Ignored(t, x) /\ type \in {"READY", "ACCEPTED"}
  <2>1. hand' = Handled(t, <<>>) /\ end' = end /\ ep' = ep
    BY <1>11 DEF Ignored
  <2>2. end' = [end EXCEPT ![x] = end[x]]
    BY <1>2, <2>1
  <2>3. Turn(type, x, end[x], {})
    BY <1>8, <1>9, <2>1, <2>2
  <2> QED
    BY <1>1, <1>3, <1>11, <2>3
<1>12. CASE type = "READY" /\ ~Ignored(t, x)
  <2>1. Ready(t, x)
    BY <1>4, <1>5, <1>12 DEF Handle
  <2>2. hand' = Handled(t, <<Event("ACCEPTED", Partner(x))>>) /\ end' = [end EXCEPT ![x] = "ACTIVE"] /\ ep' = ep
    BY <2>1 DEF Ready
  <2>3. Turn(type, x, "ACTIVE", {Event("ACCEPTED", Partner(x))})
    BY <1>7, <1>9, <2>2 DEF Handshake
  <2> QED
    BY <1>1, <1>3, <1>12, <2>1, <2>3
<1>13. CASE type = "ACCEPTED" /\ ~Ignored(t, x)
  <2>1. Accepted(t, x)
    BY <1>4, <1>5, <1>13 DEF Handle
  <2>2. hand' = Handled(t, <<>>) /\ end' = [end EXCEPT ![x] = "ACTIVE"] /\ ep' = ep
    BY <2>1 DEF Accepted
  <2>3. Turn(type, x, "ACTIVE", {})
    BY <1>8, <1>9, <2>2
  <2> QED
    BY <1>1, <1>3, <1>13, <2>1, <2>3
<1>14. CASE type = "DISCONNECT" /\ PeerStopped(t, x)
  <2>1. hand' = Handled(t, <<>>) /\ Release(x)
    BY <1>14 DEF PeerStopped
  <2>2. Turn(type, x, "FREED", {})
    BY <1>2, <1>3, <1>8, <2>1, ReleasedOwners
  <2> QED
    BY <1>1, <1>3, <1>14, <2>2
<1>15. CASE type = "DISCONNECT" /\ ~PeerStopped(t, x)
  <2>1. Disconnected(t, x)
    BY <1>4, <1>5, <1>15 DEF Handle
  <2>2. hand' = Handled(t, <<Event("DISCONNECT", Partner(x))>>)
    BY <2>1 DEF Disconnected, Answer
  <2>3. PICK st \in {"DISCONNECTED", "FREED"} : Owners /\ end' = [end EXCEPT ![x] = st]
    <3>1. CASE x.own \in Binder
      BY <1>2, <1>3, <2>1, <3>1, ReleasedOwners DEF Disconnected
    <3>2. CASE x.own \notin Binder
      BY <1>9, <2>1, <3>2 DEF Disconnected
    <3> QED
      BY <3>1, <3>2
  <2>4. Turn(type, x, st, {Event("DISCONNECT", Partner(x))})
    BY <1>7, <2>2, <2>3
  <2> QED
    BY <1>1, <1>3, <1>15, <2>1, <2>4
<1> QED
  BY <1>5, <1>10, <1>11, <1>12, <1>13, <1>14, <1>15

LEMMA DeliverAgreed ==
    ASSUME IInv, Agreed, NEW t \in Threads, Deliver(t), Alive'
    PROVE  Agreed'
<1>1. PICK x \in Ends, type \in Handshake \cup {"DISCONNECT"} :
        /\ hand[t] # <<>> /\ Head(hand[t]) = Event(type, x)
        /\ \/ type = "CONNECT" /\ Accept(t, x) /\ Asks(t, 1, x)
              /\ Turn(type, x, "READY", {Event("READY", Partner(x))})
           \/ type = "READY" /\ Ready(t, x)
              /\ Turn(type, x, "ACTIVE", {Event("ACCEPTED", Partner(x))})
           \/ type = "ACCEPTED" /\ Accepted(t, x) /\ Turn(type, x, "ACTIVE", {})
           \/ type \in {"READY", "ACCEPTED"} /\ Ignored(t, x) /\ Turn(type, x, end[x], {})
           \/ type = "DISCONNECT" /\ Disconnected(t, x)
              /\ \E st \in {"DISCONNECTED", "FREED"} :
                    Turn(type, x, st, {Event("DISCONNECT", Partner(x))})
           \/ type = "DISCONNECT" /\ PeerStopped(t, x) /\ Turn(type, x, "FREED", {})
  BY DeliverCases
<1>2. CASE type = "CONNECT" /\ Accept(t, x) /\ Asks(t, 1, x)
           /\ Turn(type, x, "READY", {Event("READY", Partner(x))})
  <2>1. end[x] = "NONE" /\ end[Partner(x)] # "NONE" /\ ep[x.own] = "ACTIVE"
    BY <1>2 DEF IInv, AsksInv, Accept
  <2> QED
    BY <1>2, <2>1, AcceptAgreed
<1>3. CASE type = "READY" /\ Ready(t, x) /\ Turn(type, x, "ACTIVE", {Event("ACCEPTED", Partner(x))})
  BY <1>3, ReadyAgreed DEF Ready
<1>4. CASE type = "ACCEPTED" /\ Accepted(t, x) /\ Turn(type, x, "ACTIVE", {})
  BY <1>4, AcceptedAgreed DEF Accepted
<1>5. CASE type \in {"READY", "ACCEPTED"} /\ Ignored(t, x) /\ Turn(type, x, end[x], {})
  BY <1>5, IgnoredAgreed DEF Ignored
<1>6. CASE type = "DISCONNECT" /\ Disconnected(t, x)
              /\ \E st \in {"DISCONNECTED", "FREED"} :
                    Turn(type, x, st, {Event("DISCONNECT", Partner(x))})
  BY <1>6, DisconnectedAgreed DEF Disconnected
<1>7. CASE type = "DISCONNECT" /\ PeerStopped(t, x) /\ Turn(type, x, "FREED", {})
  BY <1>7, PeerStoppedAgreed DEF PeerStopped
<1> QED
  BY <1>1, <1>2, <1>3, <1>4, <1>5, <1>6, <1>7

(* Agreement is kept, as long as no assertion fails.                       *)
LEMMA InitAgree == Init => AgreeInv
<1> SUFFICES ASSUME Init, NEW x \in Ends PROVE HandshakeInv(x) /\ FarewellInv(x) /\ OwnersInv(x)
  BY DEF AgreeInv
<1>1. end[x] = "NONE" /\ end[Partner(x)] = "NONE"
  BY EndFacts DEF Init
<1>2. \A k, y : ~Carried(k, y)
  BY DEF Init, Carried, Contains
<1> QED
  BY <1>1, <1>2 DEF HandshakeInv, FarewellInv, OwnersInv, Forming, Over

LEMMA NextAgree == IInv /\ AgreeInv /\ [Next]_vars => AgreeInv'
<1> SUFFICES ASSUME IInv, AgreeInv, [Next]_vars, Alive' PROVE Agreed'
  BY DEF AgreeInv, Agreed
<1>1. CASE UNCHANGED vars
  <2>1. abort' = abort /\ end' = end /\ hand' = hand /\ ep' = ep
    BY <1>1 DEF vars
  <2>2. Agreed
    BY <2>1 DEF AgreeInv, Agreed, Alive
  <2>3. \A k, y : Carried(k, y)' <=> Carried(k, y)
    BY <2>1 DEF Carried
  <2> QED
    BY <2>1, <2>2, <2>3 DEF Agreed, HandshakeInv, FarewellInv, OwnersInv
<1>2. ASSUME NEW t \in Threads, NEW e \in Ep,
             BindRefused(t, e) \/ Bind(t, e) \/ ConnectAlone(t, e) \/ Connect(t, e) \/ Stop(t, e)
      PROVE  Agreed'
  <2>1. Alive
    BY <1>2 DEF BindRefused, Bind, ConnectAlone, Connect, Stop, Calls
  <2>2. Agreed
    BY <2>1 DEF AgreeInv, Agreed
  <2> QED
    BY <1>2, <2>2, BindRefusedAgreed, BindAgreed, ConnectAloneAgreed, ConnectAgreed, StopAgreed
<1>3. ASSUME NEW t \in Threads, Deliver(t) PROVE Agreed'
  <2>1. Agreed
    BY <1>3 DEF Deliver, AgreeInv, Agreed
  <2> QED
    BY <1>3, <2>1, DeliverAgreed
<1> QED
  BY <1>1, <1>2, <1>3 DEF Next, Step, Finished

(* When nothing is under way, an end that was made is active, with an      *)
(* active partner and owners, or it is over and so is an owner.            *)
LEMMA Settled ==
    ASSUME IInv, Agreed, \A k, y : ~Carried(k, y), NEW x \in Ends, end[x] # "NONE"
    PROVE  IF ep[x.own] = "ACTIVE" /\ ep[x.oth] = "ACTIVE"
           THEN end[x] = "ACTIVE" /\ end[Partner(x)] = "ACTIVE"
           ELSE end[x] \in {"DISCONNECTED", "FREED"}
<1> DEFINE p == Partner(x)
<1>1. p \in Ends /\ Partner(p) = x /\ p.own = x.oth /\ p.oth = x.own
  BY EndFacts
<1>2. end[x] \in EndStates /\ end[p] \in EndStates
  BY <1>1 DEF IInv, TypeOK
<1> HIDE DEF p
<1>3. /\ HandshakeInv(x) /\ FarewellInv(x) /\ OwnersInv(x)
      /\ HandshakeInv(p) /\ FarewellInv(p) /\ OwnersInv(p)
  BY <1>1 DEF Agreed
<1>4. end[x] \notin {"CONNECTING", "READY", "STOPPING_PEER"} /\ end[p] \notin {"CONNECTING", "READY", "STOPPING_PEER"}
  BY <1>1, <1>3 DEF HandshakeInv, FarewellInv, p
<1>5. end[p] # "NONE"
  BY <1>1, <1>3, <1>4 DEF HandshakeInv
<1>6. /\ end[x] \in {"ACTIVE", "DISCONNECTED", "FREED"} /\ end[p] \in {"ACTIVE", "DISCONNECTED", "FREED"}
  BY <1>2, <1>4, <1>5 DEF EndStates
<1>7. CASE ep[x.own] = "ACTIVE" /\ ep[x.oth] = "ACTIVE"
  BY <1>1, <1>3, <1>6, <1>7 DEF OwnersInv, Over, p
<1>8. CASE ~(ep[x.own] = "ACTIVE" /\ ep[x.oth] = "ACTIVE")
  <2>1. end[x] # "ACTIVE"
    <3>1. ASSUME end[x] = "ACTIVE" PROVE FALSE
      <4>1. end[p] # "ACTIVE"
        BY <1>1, <1>3, <1>8, <3>1 DEF OwnersInv, Forming
      <4>2. end[x] \in Over
        BY <1>1, <1>3, <1>6, <4>1 DEF FarewellInv
      <4> QED
        BY <3>1, <4>2 DEF Over
    <3> QED
      BY <3>1
  <2> QED
    BY <1>6, <1>8, <2>1
<1> QED
  BY <1>7, <1>8
-----------------------------------------------------------------------------
(* With one caller, a call finds no event under way.                       *)
LEMMA OneCaller ==
    ASSUME Solo, CarriersInv, NEW t \in callers
    PROVE  \A u \in Threads : u # t => hand[u] = <<>>
<1>1. IsFiniteSet(callers)
  BY InprocAssumption, FS_Subset DEF CarriersInv
<1>2. ASSUME NEW u \in callers, u # t PROVE FALSE
  <2>1. IsFiniteSet({t}) /\ Cardinality({t}) = 1
    BY FS_Singleton
  <2>2. Cardinality(callers) \in Nat
    BY <1>1, FS_CardinalityType
  <2>3. {t} \in SUBSET callers /\ {t} # callers
    BY <1>2
  <2>4. 1 <= Cardinality(callers) /\ (Cardinality(callers) = 1 => callers = {t})
    BY <1>1, <2>1, <2>3, FS_Subset
  <2> QED
    BY <2>2, <2>3, <2>4 DEF Solo
<1> QED
  BY <1>2 DEF CarriersInv

LEMMA Quiet ==
    ASSUME Solo, CarriersInv, NEW t \in Threads, Calls(t)
    PROVE  /\ \A u \in Threads : hand[u] = <<>>
           /\ \A k, y : ~Carried(k, y)
<1>1. \A u \in Threads : hand[u] = <<>>
  BY OneCaller DEF Calls
<1>2. \A k, y : ~Carried(k, y)
  BY <1>1 DEF Carried, Contains
<1> QED
  BY <1>1, <1>2

(* Ends stop without a word of theirs on the way, when there is no         *)
(* handshake on the way at all.                                            *)
LEMMA StopsClean ==
    ASSUME NEW S \in SUBSET Ends, \A y \in Ends, k \in Handshake : ~Carried(k, y)
    PROVE  StopAsserts(S) = {}
<1>1. \A x \in S : ~UnderWay(Partner(x))
  BY EndFacts DEF UnderWay, Carried
<1> QED
  BY <1>1 DEF StopAsserts, Failed

(* A list that its owner carries after a call.                             *)
LEMMA CalledCarriers ==
    ASSUME TypeOK, Solo, CarriersInv, NEW t \in Threads, Calls(t),
           NEW made \in Seq(Ends), Distinct(made), NEW type \in Handshake \cup {"DISCONNECT"},
           hand' = Carry(t, ToPartners(type, made)), UNCHANGED envVars
    PROVE  /\ CarriersInv'
           /\ \A k, y : Carried(k, y)' <=> k = type /\ \E x \in Ends : Contains(made, x) /\ y = Partner(x)
<1> DEFINE r == ToPartners(type, made)
<1>1. /\ \A u \in Threads : hand[u] = <<>>
      /\ \A k, y : ~Carried(k, y)
  BY Quiet
<1>2. /\ r \in Seq(Events) /\ Len(r) = Len(made)
      /\ \A i \in 1..Len(made) : r[i] = Event(type, Partner(made[i])) /\ made[i] \in Ends
  BY ToPartnersFacts
<1>3. hand \in [Threads -> Seq(Events)] /\ hand[t] = <<>> /\ t \in callers
  BY <1>1 DEF TypeOK, Calls
<1>4. \A k, y : Carried(k, y)' <=> k = type /\ \E x \in Ends : Contains(made, x) /\ y = Partner(x)
  BY <1>1, <1>3, CarriedForMade
<1>5. hand'[t] = r /\ \A u \in Threads : u # t => hand'[u] = <<>>
  BY <1>1, <1>3 DEF Carry
<1> HIDE DEF r
<1>6. Distinct(r)
  <2> SUFFICES ASSUME NEW i \in 1..Len(made), NEW k \in 1..Len(made), r[i] = r[k] PROVE i = k
    BY <1>2 DEF Distinct
  <2>1. Partner(made[i]) = Partner(made[k])
    BY <1>2, EventFacts
  <2>2. made[i] = made[k]
    BY <1>2, <2>1, EndFacts
  <2> QED
    BY <2>2 DEF Distinct
<1>7. Distinct(<<>>)
  BY DEF Distinct
<1>8. CarriersInv'
  <2>1. callers' = callers
    BY DEF envVars
  <2>2. \A u \in Threads : Distinct(hand'[u])
    BY <1>5, <1>6, <1>7
  <2>3. \A u \in Threads : u \notin callers => hand'[u] = <<>>
    BY <1>3, <1>5
  <2>4. \A k \in Handshake, x, y \in Ends : ~(Carried(k, x)' /\ Carried("DISCONNECT", y)')
    <3>1. "DISCONNECT" \notin Handshake
      BY DEF Handshake
    <3> QED
      BY <1>4, <3>1
  <2> QED
    BY <2>1, <2>2, <2>3, <2>4 DEF CarriersInv
<1> QED
  BY <1>4, <1>8

(* No call changes who is connected with whom but for the ends it makes.   *)
LEMMA CountsKept ==
    ASSUME CountInv, inprogress \in [Sockets -> Nat], inprogress' = inprogress,
           \A c \in Connector : ep'[c] = "ACTIVE" /\ ~Served(c)' => ep[c] = "ACTIVE" /\ ~Served(c)
    PROVE  CountInv'
<1> SUFFICES ASSUME NEW s \in Sockets PROVE Cardinality(Unserved(s)') <= inprogress'[s]
  BY DEF CountInv, Sockets
<1>1. Unserved(s)' \in SUBSET Unserved(s)
  BY DEF Unserved
<1>2. IsFiniteSet(Unserved(s))
  <2>1. Unserved(s) \subseteq Connector
    BY DEF Unserved
  <2>2. Unserved(s) \in SUBSET Ep
    BY <2>1 DEF Ep
  <2> QED
    BY <2>2, InprocAssumption, FS_Subset
<1>3. Cardinality(Unserved(s)') <= Cardinality(Unserved(s))
      /\ Cardinality(Unserved(s)') \in Nat /\ Cardinality(Unserved(s)) \in Nat
  BY <1>1, <1>2, FS_Subset, FS_CardinalityType
<1> QED
  <2>1. Cardinality(Unserved(s)) <= inprogress[s] /\ inprogress[s] \in Nat /\ inprogress'[s] = inprogress[s]
    BY DEF CountInv
  <2> QED
    BY <1>3, <2>1

(* One endpoint more that waits, and one more in progress.                 *)
LEMMA OneMore ==
    ASSUME CountInv, inprogress \in [Sockets -> Nat], NEW e \in Connector,
           inprogress' = MoreInProgress(e),
           \A c \in Connector : c # e /\ ep'[c] = "ACTIVE" /\ ~Served(c)' => ep[c] = "ACTIVE" /\ ~Served(c)
    PROVE  CountInv'
<1> SUFFICES ASSUME NEW s \in Sockets PROVE Cardinality(Unserved(s)') <= inprogress'[s]
  BY DEF CountInv, Sockets
<1> DEFINE U == Unserved(s)
           V == Unserved(s)'
<1>1. IsFiniteSet(U)
  <2>1. U \subseteq Connector
    BY DEF Unserved
  <2>2. U \in SUBSET Ep
    BY <2>1 DEF Ep
  <2> QED
    BY <2>2, InprocAssumption, FS_Subset
<1>2. inprogress'[s] = IF s = Socket[e] THEN inprogress[s] + 1 ELSE inprogress[s]
  BY DEF MoreInProgress
<1>3. Cardinality(U) <= inprogress[s] /\ inprogress[s] \in Nat
  BY DEF CountInv
<1>4. V \subseteq U \cup (IF s = Socket[e] THEN {e} ELSE {})
  BY DEF Unserved
<1> HIDE DEF U, V
<1>5. CASE s = Socket[e]
  <2>1. V \in SUBSET (U \cup {e})
    BY <1>4, <1>5
  <2>2. IsFiniteSet(U \cup {e}) /\ Cardinality(U \cup {e}) <= Cardinality(U) + 1 /\ Cardinality(U) \in Nat
    <3>1. Cardinality(U) \in Nat
      BY <1>1, FS_CardinalityType
    <3>2. IsFiniteSet(U \cup {e}) /\ Cardinality(U \cup {e}) = IF e \in U THEN Cardinality(U) ELSE Cardinality(U) + 1
      BY <1>1, FS_AddElement
    <3> QED
      BY <3>1, <3>2
  <2>3. Cardinality(V) <= Cardinality(U \cup {e}) /\ Cardinality(V) \in Nat /\ Cardinality(U \cup {e}) \in Nat
    BY <2>1, <2>2, FS_Subset, FS_CardinalityType
  <2>4. Cardinality(V) <= inprogress'[s]
    BY <1>2, <1>3, <1>5, <2>2, <2>3
  <2> QED
    BY <2>4 DEF V
<1>6. CASE s # Socket[e]
  <2>1. V \in SUBSET U
    BY <1>4, <1>6
  <2>2. Cardinality(V) <= Cardinality(U) /\ Cardinality(V) \in Nat /\ Cardinality(U) \in Nat
    BY <1>1, <2>1, FS_Subset, FS_CardinalityType
  <2>3. Cardinality(V) <= inprogress'[s]
    BY <1>2, <1>3, <1>6, <2>2
  <2> QED
    BY <2>3 DEF V
<1> QED
  BY <1>5, <1>6
-----------------------------------------------------------------------------
(* One lemma per call: it finds everything settled and fails no assertion. *)
LEMMA BindRefusedSolo ==
    ASSUME IInv, Agreed, Solo, SoloInv, UNCHANGED envVars,
           NEW t \in Threads, NEW e \in Ep, BindRefused(t, e)
    PROVE  SoloInv'
<1>1. /\ CarriersInv /\ CountInv /\ SidesInv /\ Calls(t) /\ e \in Binder
      /\ ep' = [ep EXCEPT ![e] = "gone"]
      /\ UNCHANGED <<end, hand, inprogress, abort>>
  BY DEF SoloInv, BindRefused
<1>2. \A k, y : ~Carried(k, y)
  BY <1>1, Quiet
<1>3. \A k, y : ~Carried(k, y)'
  BY <1>1, <1>2 DEF Carried
<1>4. \A x \in Ends : ArrivesInv(x)'
  BY <1>3 DEF ArrivesInv
<1>5. CarriersInv' /\ SidesInv' /\ Alive'
  BY <1>1, <1>3 DEF CarriersInv, SidesInv, Calls, Alive, envVars
<1>6. CountInv'
  <2>1. \A c \in Connector : ep'[c] = ep[c]
    BY <1>1, InprocAssumption DEF IInv, TypeOK, Ep
  <2>2. \A c : Served(c)' <=> Served(c)
    BY <1>1 DEF Served
  <2> QED
    BY <1>1, <2>1, <2>2, CountsKept DEF IInv, TypeOK
<1> QED
  BY <1>4, <1>5, <1>6 DEF SoloInv

LEMMA BindSolo ==
    ASSUME IInv, Agreed, Solo, SoloInv, UNCHANGED envVars,
           NEW t \in Threads, NEW e \in Ep, Bind(t, e)
    PROVE  SoloInv'
<1> DEFINE w == Waiting(e)
           made == ConnEnds(e, w)
<1>1. /\ CarriersInv /\ CountInv /\ SidesInv /\ Calls(t) /\ e \in Binder
      /\ ep' = [ep EXCEPT ![e] = "ACTIVE"]
      /\ end' = [x \in Ends |-> IF Contains(made, x) THEN "CONNECTING" ELSE end[x]]
      /\ hand' = Carry(t, ToPartners("CONNECT", made))
      /\ UNCHANGED <<inprogress, abort>>
  BY DEF SoloInv, Bind
<1>2. w \in Seq(Connector) /\ Distinct(w) /\ \A c : Contains(w, c) => Contains(connected, c)
  <2>1. connected \in Seq(Connector) /\ Distinct(connected)
    BY DEF IInv, TypeOK, RegistryInv
  <2> QED
    BY <2>1, ChosenFacts DEF Waiting
<1> HIDE DEF w
<1>3. /\ made \in Seq(Ends) /\ Distinct(made)
      /\ \A x : Contains(made, x) => \E c \in Connector : Contains(w, c) /\ x = ConnEnd(e, c)
  BY <1>2, ConnEndsFacts
<1> HIDE DEF made
<1>4. \A x : Contains(made, x) => x.own = e /\ x.oth \in Connector /\ ep[x.oth] = "ACTIVE"
  <2> SUFFICES ASSUME NEW c \in Connector, Contains(w, c)
               PROVE  LET x == ConnEnd(e, c)
                      IN  x.own = e /\ x.oth \in Connector /\ ep[x.oth] = "ACTIVE"
    BY <1>3
  <2>1. c \in Ep /\ ep[c] = "ACTIVE"
    BY <1>2 DEF IInv, RegistryInv, Ep
  <2> QED
    BY <2>1, EndFacts
<1>5. /\ CarriersInv'
      /\ \A k, y : Carried(k, y)' <=> k = "CONNECT" /\ \E x \in Ends : Contains(made, x) /\ y = Partner(x)
  BY <1>1, <1>3, CalledCarriers DEF IInv, Handshake
<1>6. \A f \in Ep : f # e => ep'[f] = ep[f]
  BY <1>1 DEF IInv, TypeOK
<1>7. ASSUME NEW x \in Ends PROVE ArrivesInv(x)'
  <2>1. ASSUME NEW z \in Ends, Contains(made, z), x = Partner(z) PROVE ep'[x.own] = "ACTIVE"
    <3>1. x.own = z.oth /\ z.oth \in Ep /\ ep[z.oth] = "ACTIVE"
      BY <1>4, <2>1, EndFacts
    <3> QED
      BY <1>1, <1>6, <3>1 DEF IInv, TypeOK
  <2> QED
    BY <1>5, <2>1 DEF ArrivesInv
<1>8. SidesInv'
  BY <1>1, <1>4 DEF SidesInv
<1>9. CountInv'
  <2>1. \A c \in Connector : ep'[c] = ep[c] /\ c # e
    BY <1>1, <1>6, InprocAssumption DEF Ep
  <2>2. \A x \in Ends : x.own # e => end'[x] = end[x]
    BY <1>1, <1>4
  <2>3. \A c \in Connector : Served(c)' <=> Served(c)
    BY <2>1, <2>2 DEF Served
  <2> QED
    BY <1>1, <2>1, <2>3, CountsKept DEF IInv, TypeOK
<1> QED
  BY <1>1, <1>5, <1>7, <1>8, <1>9 DEF SoloInv, Alive, Calls

LEMMA ConnectAloneSolo ==
    ASSUME IInv, Agreed, Solo, SoloInv, UNCHANGED envVars,
           NEW t \in Threads, NEW e \in Ep, ConnectAlone(t, e)
    PROVE  SoloInv'
<1>1. /\ CarriersInv /\ CountInv /\ SidesInv /\ Calls(t) /\ e \in Connector
      /\ ep' = [ep EXCEPT ![e] = "ACTIVE"]
      /\ inprogress' = MoreInProgress(e)
      /\ UNCHANGED <<end, hand, abort>>
  BY DEF SoloInv, ConnectAlone
<1>2. \A k, y : ~Carried(k, y)
  BY <1>1, Quiet
<1>3. \A k, y : ~Carried(k, y)'
  BY <1>1, <1>2 DEF Carried
<1>4. \A x \in Ends : ArrivesInv(x)'
  BY <1>3 DEF ArrivesInv
<1>5. CarriersInv' /\ SidesInv' /\ Alive'
  BY <1>1, <1>3 DEF CarriersInv, SidesInv, Calls, Alive, envVars
<1>6. CountInv'
  <2>1. \A c \in Connector : c # e => ep'[c] = ep[c]
    BY <1>1 DEF IInv, TypeOK, Ep
  <2>2. \A c : Served(c)' <=> Served(c)
    BY <1>1 DEF Served
  <2> QED
    BY <1>1, <2>1, <2>2, OneMore DEF IInv, TypeOK
<1> QED
  BY <1>4, <1>5, <1>6 DEF SoloInv

LEMMA ConnectSolo ==
    ASSUME IInv, Agreed, Solo, SoloInv, UNCHANGED envVars,
           NEW t \in Threads, NEW e \in Ep, Connect(t, e)
    PROVE  SoloInv'
<1>1. /\ CarriersInv /\ CountInv /\ SidesInv /\ Calls(t) /\ e \in Connector /\ ep[e] = "none"
      /\ ep' = [ep EXCEPT ![e] = "ACTIVE"] /\ inprogress' = inprogress
      /\ abort' = {}
  BY DEF SoloInv, Connect, Increment, Solo, Failed
<1>2. PICK l \in Listening(e) :
          LET x == ConnEnd(e, Target(e, l))
          IN  /\ end' = [end EXCEPT ![x] = "CONNECTING"]
              /\ hand' = Carry(t, <<Event("CONNECT", Partner(x))>>)
  BY DEF Connect
<1>3. Target(e, l) = l /\ l \in Binder /\ l \in Ep /\ ep[l] = "ACTIVE"
  BY DEF Target, Solo, Listening, IInv, TypeOK, RegistryInv, Ep
<1> DEFINE x == ConnEnd(e, l)
           made == <<x>>
<1>4. x \in Ends /\ x.own = e /\ x.oth = l /\ x.role = "conn" /\ Partner(x).own = l
  BY <1>3, EndFacts
<1>5. end' = [end EXCEPT ![x] = "CONNECTING"] /\ hand' = Carry(t, <<Event("CONNECT", Partner(x))>>)
  BY <1>2, <1>3
<1> HIDE DEF x
<1>6. made \in Seq(Ends) /\ Len(made) = 1 /\ made[1] = x /\ DOMAIN made = 1..1
  BY <1>4
<1>7. ToPartners("CONNECT", made) = <<Event("CONNECT", Partner(x))>>
  BY <1>6 DEF ToPartners
<1>8. Distinct(made) /\ \A y : Contains(made, y) <=> y = x
  <2>1. 1..1 = {1}
    OBVIOUS
  <2> QED
    BY <1>6, <2>1 DEF Distinct, Contains
<1> HIDE DEF made
<1>9. hand' = Carry(t, ToPartners("CONNECT", made))
  BY <1>5, <1>7
<1>10. /\ CarriersInv'
       /\ \A k, y : Carried(k, y)' <=> k = "CONNECT" /\ \E z \in Ends : Contains(made, z) /\ y = Partner(z)
  BY <1>1, <1>6, <1>8, <1>9, CalledCarriers DEF IInv, Handshake
<1>11. \A k, y : Carried(k, y)' <=> k = "CONNECT" /\ y = Partner(x)
  BY <1>4, <1>8, <1>10
<1>12. \A f \in Ep : ep'[f] = IF f = e THEN "ACTIVE" ELSE ep[f]
  BY <1>1 DEF IInv, TypeOK
<1>13. \A y \in Ends : end'[y] = IF y = x THEN "CONNECTING" ELSE end[y]
  BY <1>5 DEF IInv, TypeOK
<1>14. \A y \in Ends : ArrivesInv(y)'
  BY <1>3, <1>4, <1>11, <1>12 DEF ArrivesInv
<1>15. SidesInv'
  BY <1>1, <1>3, <1>4, <1>13 DEF SidesInv
<1>16. CountInv'
  <2>1. Served(e)'
    BY <1>4, <1>13 DEF Served, Forming
  <2>2. \A y \in Ends : y.own # e => end'[y] = end[y]
    BY <1>4, <1>13
  <2>3. \A c \in Connector : c # e => (Served(c)' <=> Served(c)) /\ ep'[c] = ep[c]
    BY <1>12, <2>2 DEF Served, Ep
  <2> QED
    BY <1>1, <2>1, <2>3, CountsKept DEF IInv, TypeOK
<1> QED
  BY <1>1, <1>10, <1>14, <1>15, <1>16 DEF SoloInv, Alive

LEMMA StopSolo ==
    ASSUME IInv, Agreed, Solo, SoloInv, UNCHANGED envVars,
           NEW t \in Threads, NEW e \in Ep, Stop(t, e)
    PROVE  SoloInv'
<1>1. CarriersInv /\ CountInv /\ SidesInv /\ Calls(t) /\ inprogress' = inprogress
  BY DEF SoloInv, Stop
<1>2. \A k, y : ~Carried(k, y)
  BY <1>1, Quiet
<1>3. /\ Told(e) \in Seq(Ends) /\ Distinct(Told(e))
      /\ \A x \in Ends : Contains(Told(e), x) <=> x.own = e /\ end[x] \in Forming
      /\ hand' = Carry(t, ToPartners("DISCONNECT", Told(e)))
      /\ \A x \in Ends : end'[x] = IF x.own # e THEN end[x]
                                   ELSE IF end[x] \in Forming THEN "STOPPING_PEER"
                                   ELSE IF end[x] = "DISCONNECTED" THEN "FREED" ELSE end[x]
      /\ ep'[e] \in {"STOPPING", "gone"} /\ \A f \in Ep : f # e => ep'[f] = ep[f]
  BY StopEnds
<1>4. ASSUME NEW x \in Ends, Contains(Told(e), x) PROVE end[x] = "ACTIVE" /\ end[Partner(x)] = "ACTIVE"
  <2>1. end[x] \in Forming
    BY <1>3, <1>4
  <2>2. end[x] \notin {"NONE", "DISCONNECTED", "FREED"}
    BY <2>1 DEF Forming
  <2> QED
    BY <1>2, <2>2, Settled
<1>5. Alive'
  <2>1. \A i \in DOMAIN Told(e) : Told(e)[i] \in Ends /\ Contains(Told(e), Told(e)[i])
    BY <1>3 DEF Contains
  <2>2. \A i \in DOMAIN Told(e) : /\ end[Told(e)[i]] # "CONNECTING"
                                  /\ end[Partner(Told(e)[i])] # "FREED"
    BY <1>4, <2>1
  <2>3. Erases(e) = {}
    BY DEF Erases, Failed, Solo
  <2>4. StopAsserts({x \in ToSet(sinprocs[e]) : end[x] = "DISCONNECTED"}) = {}
    <3>1. {x \in ToSet(sinprocs[e]) : end[x] = "DISCONNECTED"} \in SUBSET Ends
      BY DEF IInv, TypeOK, ToSet, Stop
    <3> QED
      BY <1>2, <3>1, StopsClean
  <2> QED
    BY <2>2, <2>3, <2>4 DEF Stop, Alive, Failed
<1>6. /\ CarriersInv'
      /\ \A k, y : Carried(k, y)' <=> k = "DISCONNECT" /\ \E x \in Ends : Contains(Told(e), x) /\ y = Partner(x)
  BY <1>1, <1>3, CalledCarriers DEF IInv
<1>7. ASSUME NEW x \in Ends PROVE ArrivesInv(x)'
  <2>1. ASSUME NEW z \in Ends, Contains(Told(e), z), x = Partner(z)
        PROVE  \/ end'[x] = "ACTIVE" /\ end'[Partner(x)] = "STOPPING_PEER"
               \/ end'[x] = "STOPPING_PEER"
    <3>1. end[z] = "ACTIVE" /\ end[x] = "ACTIVE" /\ z.own = e /\ Partner(x) = z
      BY <1>3, <1>4, <2>1, EndFacts
    <3> QED
      BY <1>3, <3>1 DEF Forming
  <2> QED
    BY <1>6, <2>1 DEF ArrivesInv
<1>8. SidesInv'
  BY <1>1, <1>3 DEF SidesInv, Forming
<1>9. CountInv'
  <2>1. ASSUME NEW c \in Connector, ep'[c] = "ACTIVE", ~Served(c)' PROVE ep[c] = "ACTIVE" /\ ~Served(c)
    <3>1. c # e /\ c \in Ep
      BY <1>3, <2>1 DEF Ep
    <3>2. \A y \in Ends : y.own = c => end'[y] = end[y]
      BY <1>3, <3>1
    <3> QED
      BY <1>3, <2>1, <3>1, <3>2 DEF Served
  <2> QED
    BY <1>1, <2>1, CountsKept DEF IInv, TypeOK
<1> QED
  BY <1>5, <1>6, <1>7, <1>8, <1>9 DEF SoloInv
-----------------------------------------------------------------------------
(* The list that replaces the event on top has it no more, nor any other   *)
(* twice.                                                                  *)
LEMMA DistinctAnswer ==
    ASSUME NEW S, NEW h \in Seq(S), h # <<>>, Distinct(h), NEW s \in Seq(S), Distinct(s),
           \A w : Contains(s, w) => ~Contains(h, w)
    PROVE  Distinct(s \o Tail(h)) /\ ~Contains(s \o Tail(h), Head(h))
<1> DEFINE r == s \o Tail(h)
<1>1. h \in Seq(S) /\ Len(h) \in Nat \ {0} /\ Len(s) \in Nat /\ Head(h) = h[1] /\ 1 \in 1..Len(h)
  OBVIOUS
<1>2. /\ Len(r) = Len(s) + Len(h) - 1
      /\ \A i \in 1..Len(r) : r[i] = IF i <= Len(s) THEN s[i] ELSE h[i - Len(s) + 1]
  BY AnswerFacts
<1> HIDE DEF r
<1>3. \A i \in 1..Len(r) : IF i <= Len(s) THEN i \in 1..Len(s) ELSE i - Len(s) + 1 \in 2..Len(h)
  BY <1>1, <1>2
<1>4. \A i \in 1..Len(s), j \in 1..Len(h) : s[i] # h[j]
  BY DEF Contains
<1>5. ASSUME NEW i \in 1..Len(r), NEW k \in 1..Len(r), r[i] = r[k] PROVE i = k
  <2>1. CASE i <= Len(s) /\ k <= Len(s)
    BY <1>2, <1>3, <1>5, <2>1 DEF Distinct
  <2>2. CASE ~(i <= Len(s)) /\ ~(k <= Len(s))
    <3>1. i - Len(s) + 1 \in 1..Len(h) /\ k - Len(s) + 1 \in 1..Len(h)
          /\ h[i - Len(s) + 1] = h[k - Len(s) + 1]
      BY <1>2, <1>3, <1>5, <2>2
    <3>2. i - Len(s) + 1 = k - Len(s) + 1
      BY <3>1 DEF Distinct
    <3> QED
      BY <1>1, <3>2
  <2>3. \A a, b \in 1..Len(r) : a <= Len(s) /\ ~(b <= Len(s)) => r[a] # r[b]
    <3> SUFFICES ASSUME NEW a \in 1..Len(r), NEW b \in 1..Len(r), a <= Len(s), ~(b <= Len(s))
                 PROVE  r[a] # r[b]
      OBVIOUS
    <3>1. a \in 1..Len(s) /\ b - Len(s) + 1 \in 1..Len(h) /\ r[a] = s[a] /\ r[b] = h[b - Len(s) + 1]
      BY <1>2, <1>3
    <3> QED
      BY <1>4, <3>1
  <2> QED
    BY <1>5, <2>1, <2>2, <2>3
<1>6. ASSUME NEW i \in 1..Len(r), r[i] = h[1] PROVE FALSE
  <2>1. CASE i <= Len(s)
    BY <1>1, <1>2, <1>3, <1>4, <1>6, <2>1
  <2>2. CASE ~(i <= Len(s))
    <3>1. i - Len(s) + 1 \in 2..Len(h) /\ h[i - Len(s) + 1] = h[1]
      BY <1>2, <1>3, <1>6, <2>2
    <3> QED
      BY <1>1, <3>1 DEF Distinct
  <2> QED
    BY <2>1, <2>2
<1>7. Distinct(r)
  BY <1>5 DEF Distinct
<1>8. ~Contains(r, Head(h))
  BY <1>1, <1>6 DEF Contains
<1> QED
  BY <1>7, <1>8 DEF r

(* What the one thread carries after it handled an event: the answer, and  *)
(* what it had but the event.                                              *)
Only(type, x, S) ==
    \A k, y : Carried(k, y)' <=> (Carried(k, y) /\ ~(k = type /\ y = x)) \/ Event(k, y) \in S

LEMMA OnlyFacts ==
    ASSUME TypeOK, Solo, CarriersInv, UNCHANGED envVars,
           NEW t \in Threads, hand[t] # <<>>,
           NEW x \in Ends, NEW type, Head(hand[t]) = Event(type, x),
           NEW s \in Seq(Events), Distinct(s), NEW S, \A w : Contains(s, w) <=> w \in S,
           hand' = Handled(t, s),
           \A k, y : Event(k, y) \in S => ~Carried(k, y) /\ k \in Handshake \cup {"DISCONNECT"} /\ y \in Ends,
           \A w \in S : \E k, y : w = Event(k, y),
           \/ type \in Handshake /\ \A k, y : Event(k, y) \in S => k \in Handshake
           \/ type = "DISCONNECT" /\ \A k, y : Event(k, y) \in S => k = "DISCONNECT"
    PROVE  CarriersInv' /\ Only(type, x, S)
<1> DEFINE h == hand[t]
           r == s \o Tail(h)
<1>1. hand \in [Threads -> Seq(Events)] /\ h \in Seq(Events) /\ h # <<>> /\ Distinct(h) /\ t \in callers
  BY DEF TypeOK, CarriersInv
<1>2. /\ hand'[t] = r /\ \A u \in Threads : u # t => hand'[u] = hand[u] /\ hand[u] = <<>>
  BY <1>1, OneCaller DEF Handled
<1>3. \A k, y : /\ Carried(k, y)' => Carried(k, y) \/ Contains(s, Event(k, y))
                /\ Contains(s, Event(k, y)) => Carried(k, y)'
                /\ Carried(k, y) /\ Event(k, y) # Head(h) => Carried(k, y)'
  BY <1>1, Received
<1>4. \A w : Contains(s, w) => ~Contains(h, w)
  <2> SUFFICES ASSUME NEW w, Contains(s, w), Contains(h, w) PROVE FALSE
    OBVIOUS
  <2>1. PICK k, y : w = Event(k, y)
    OBVIOUS
  <2>2. Carried(k, y)
    BY <2>1 DEF Carried
  <2> QED
    BY <2>1, <2>2
<1> HIDE DEF h
<1>5. Distinct(r) /\ ~Contains(r, Head(h))
  BY <1>1, <1>4, DistinctAnswer
<1> HIDE DEF r
<1>6. ~Carried(type, x)'
  <2>1. Event(type, x) = Head(h) /\ \A w : ~Contains(<<>>, w)
    BY DEF h, Contains
  <2> QED
    BY <1>2, <1>5, <2>1 DEF Carried
<1>7. \A k, y : Event(k, y) = Event(type, x) => k = type /\ y = x
  BY EventFacts
<1>8. Only(type, x, S)
  <2> SUFFICES ASSUME NEW k, NEW y
               PROVE  Carried(k, y)' <=> (Carried(k, y) /\ ~(k = type /\ y = x)) \/ Event(k, y) \in S
    BY DEF Only
  <2>1. Carried(k, y) /\ ~(k = type /\ y = x) => Event(k, y) # Head(h)
    BY <1>7 DEF h
  <2>2. Carried(k, y)' => ~(k = type /\ y = x)
    BY <1>6
  <2> QED
    BY <1>3, <2>1, <2>2
<1>9. Carried(type, x)
  <2>1. Len(h) \in Nat \ {0} /\ Head(h) = h[1]
    BY <1>1
  <2>2. Contains(h, Event(type, x))
    BY <2>1 DEF h, Contains
  <2> QED
    BY <2>2 DEF Carried, h
<1>10. CarriersInv'
  <2>1. callers' = callers
    BY DEF envVars
  <2>2. \A u \in Threads : Distinct(hand'[u])
    BY <1>2, <1>5 DEF CarriersInv
  <2>3. \A u \in Threads : u \notin callers => hand'[u] = <<>>
    BY <1>1, <1>2
  <2>4. ASSUME NEW k \in Handshake, NEW y \in Ends, NEW z \in Ends, Carried(k, y)', Carried("DISCONNECT", z)'
        PROVE  FALSE
    <3>1. "DISCONNECT" \notin Handshake
      BY DEF Handshake
    <3>2. CASE type \in Handshake /\ \A m, v : Event(m, v) \in S => m \in Handshake
      BY <1>8, <1>9, <2>4, <3>1, <3>2 DEF Only, CarriersInv
    <3>3. CASE type = "DISCONNECT" /\ \A m, v : Event(m, v) \in S => m = "DISCONNECT"
      BY <1>8, <1>9, <2>4, <3>1, <3>3 DEF Only, CarriersInv
    <3> QED
      BY <3>2, <3>3
  <2> QED
    BY <2>1, <2>2, <2>3, <2>4 DEF CarriersInv
<1> QED
  BY <1>8, <1>10
-----------------------------------------------------------------------------
(* A connecting endpoint that is asked to accept has no connection: what   *)
(* it had before was with an endpoint that is not bound any more.          *)
LEMMA AskedIsUnserved ==
    ASSUME IInv, Agreed, Solo, SoloInv, NEW x \in Ends, x.own \in Connector,
           Carried("CONNECT", x), end[x] = "NONE", end[Partner(x)] = "CONNECTING", x.role = "acc"
    PROVE  ep[x.own] = "ACTIVE" /\ ~Served(x.own)
<1> DEFINE c == x.own
           b == x.oth
           p == Partner(x)
<1>1. /\ CarriersInv /\ SidesInv /\ \A y \in Ends : ArrivesInv(y)
      /\ Binder \cap Connector = {}
  BY InprocAssumption DEF SoloInv
<1>2. /\ p \in Ends /\ Partner(p) = x /\ p.own = b /\ p.oth = c /\ p.role = "conn" /\ p = ConnEnd(b, c)
      /\ b \in Ep /\ c \in Ep /\ c \in Connector
  BY EndFacts
<1> HIDE DEF p, b, c
<1>3. ep[c] = "ACTIVE" /\ end[p] = "CONNECTING"
  BY <1>1 DEF ArrivesInv, p, c
<1>4. b \in Binder /\ ep[b] = "ACTIVE"
  <2>1. OwnersInv(p)
    BY <1>2 DEF Agreed
  <2> QED
    BY <1>1, <1>2, <1>3, <2>1 DEF SidesInv, OwnersInv, Forming
<1>5. \A f \in Binder : ep[f] = "ACTIVE" => f \in bound
  <2>1. connected \in Seq(Connector)
    BY DEF IInv, TypeOK
  <2>2. \A f \in Binder : ~Contains(connected, f)
    BY <1>1, <2>1 DEF Contains
  <2> QED
    BY <2>2 DEF IInv, RegistryInv, Ep
<1>6. ASSUME NEW y \in Ends, y.own = c, end[y] \in Forming PROVE FALSE
  <2> DEFINE q == Partner(y)
             d == y.oth
  <2>1. /\ q \in Ends /\ Partner(q) = y /\ q.own = d /\ q.oth = c /\ d \in Ep
        /\ y.role = "conn" => y = ConnEnd(c, d)
        /\ y.role # "conn" => q.role = "conn" /\ q = ConnEnd(d, c)
    BY <1>6, EndFacts
  <2> HIDE DEF q, d
  <2>2. /\ HandshakeInv(y) /\ HandshakeInv(q) /\ FarewellInv(y) /\ FarewellInv(q) /\ OwnersInv(q)
        /\ ArrivesInv(q) /\ end[q] \in EndStates
    BY <1>1, <2>1 DEF Agreed, IInv, TypeOK
  <2>3. ep[d] = "ACTIVE"
    <3>1. CASE end[q] = "NONE"
      <4>1. end[y] = "CONNECTING"
        BY <1>6, <2>1, <2>2, <3>1 DEF HandshakeInv, Forming
      <4>2. Carried("CONNECT", q)
        BY <2>2, <3>1, <4>1 DEF HandshakeInv, q
      <4> QED
        BY <2>1, <2>2, <4>2 DEF ArrivesInv
    <3>2. CASE end[q] \in Forming
      BY <2>1, <2>2, <3>2 DEF OwnersInv
    <3>3. CASE end[q] \in Over
      <4>1. end[y] \notin Over
        BY <1>6 DEF Forming, Over
      <4>2. end[q] = "STOPPING_PEER"
        BY <2>1, <2>2, <3>3, <4>1 DEF FarewellInv, Over
      <4>3. Carried("DISCONNECT", y)
        BY <2>2, <4>1, <4>2 DEF FarewellInv, Over, q
      <4> QED
        BY <1>1, <4>3 DEF CarriersInv, Handshake
    <3> QED
      BY <2>2, <3>1, <3>2, <3>3 DEF EndStates, Forming, Over
  <2>4. end[y] # "NONE" /\ (y.role # "conn" => end[q] # "NONE")
    <3>1. end[y] # "NONE"
      BY <1>6 DEF Forming
    <3>2. y.role # "conn" => y.role = "acc"
      BY EndFacts
    <3> QED
      BY <3>1, <3>2 DEF IInv, AsksInv, q
  <2>5. d \in Binder
    BY <1>1, <1>2, <1>6, <2>1, <2>4 DEF SidesInv, d
  <2>6. PairInv(b, c) /\ PairInv(d, c)
    BY <1>2, <1>4, <2>5 DEF IInv, PairsInv, Solo
  <2>7. Fit(b, c) /\ Fit(d, c)
    BY <1>2, <1>3, <2>1, <2>4, <2>6 DEF PairInv
  <2>8. b = d
    <3>1. SameAddr(b, d)
      BY <2>7 DEF Fit, SameAddr
    <3> QED
      BY <1>4, <1>5, <2>3, <2>5, <3>1 DEF IInv, RegistryInv
  <2>9. CASE y.role = "conn"
    BY <1>2, <1>3, <2>1, <2>4, <2>6, <2>8, <2>9 DEF PairInv
  <2>10. CASE y.role # "conn"
    <3>1. y = x
      BY <1>2, <2>1, <2>8, <2>10
    <3> QED
      BY <2>4, <3>1
  <2> QED
    BY <2>9, <2>10
<1> QED
  BY <1>3, <1>6 DEF Served, c

(* A socket with an endpoint that waits has one in progress, and one less  *)
(* of both when it accepts.                                                *)
LEMMA OneLess ==
    ASSUME CountInv, inprogress \in [Sockets -> Nat], NEW e \in Connector,
           ep[e] = "ACTIVE", ~Served(e), Served(e)',
           \A c \in Connector : c # e /\ ep'[c] = "ACTIVE" /\ ~Served(c)' => ep[c] = "ACTIVE" /\ ~Served(c)
    PROVE  /\ inprogress[Socket[e]] >= 1
           /\ inprogress' = LessInProgress(e) => CountInv'
<1> DEFINE z == Socket[e]
           W == Unserved(z)
<1>1. z \in Sockets /\ e \in W
  BY DEF Sockets, Unserved, Ep
<1>2. \A s : IsFiniteSet(Unserved(s))
  <2> SUFFICES ASSUME NEW s PROVE IsFiniteSet(Unserved(s))
    OBVIOUS
  <2>1. Unserved(s) \subseteq Connector
    BY DEF Unserved
  <2>2. Unserved(s) \in SUBSET Ep
    BY <2>1 DEF Ep
  <2> QED
    BY <2>2, InprocAssumption, FS_Subset
<1>3. Cardinality(W) <= inprogress[z] /\ inprogress[z] \in Nat
  BY <1>1 DEF CountInv
<1>4. \A s : Unserved(s)' \in SUBSET (Unserved(s) \ {e})
  BY DEF Unserved
<1> HIDE DEF W, z
<1>5. /\ IsFiniteSet(W \ {e}) /\ Cardinality(W \ {e}) = Cardinality(W) - 1
      /\ Cardinality(W) \in Nat /\ Cardinality(W \ {e}) \in Nat
  <2>1. IsFiniteSet(W)
    BY <1>2 DEF W
  <2> QED
    BY <1>1, <2>1, FS_RemoveElement, FS_CardinalityType
<1>6. inprogress[z] >= 1
  BY <1>3, <1>5
<1>7. ASSUME inprogress' = LessInProgress(e), NEW s \in Sockets
      PROVE  Cardinality(Unserved(s)') <= inprogress'[s]
  <2>1. inprogress'[s] = IF s = z THEN inprogress[s] - 1 ELSE inprogress[s]
    BY <1>6, <1>7 DEF LessInProgress, z
  <2>2. Cardinality(Unserved(s)) <= inprogress[s] /\ inprogress[s] \in Nat
    BY DEF CountInv
  <2>3. CASE s = z
    <3>1. Unserved(s)' \in SUBSET (W \ {e})
      BY <1>4, <2>3 DEF W
    <3>2. Cardinality(Unserved(s)') <= Cardinality(W \ {e}) /\ Cardinality(Unserved(s)') \in Nat
      BY <1>5, <3>1, FS_Subset, FS_CardinalityType
    <3> QED
      BY <1>3, <1>5, <2>1, <2>3, <3>2
  <2>4. CASE s # z
    <3>1. Unserved(s)' \in SUBSET Unserved(s)
      BY <1>4
    <3>2. Cardinality(Unserved(s)') <= Cardinality(Unserved(s))
          /\ Cardinality(Unserved(s)') \in Nat /\ Cardinality(Unserved(s)) \in Nat
      BY <1>2, <3>1, FS_Subset, FS_CardinalityType
    <3> QED
      BY <2>1, <2>2, <2>4, <3>2
  <2> QED
    BY <2>3, <2>4
<1> QED
  BY <1>6, <1>7 DEF CountInv, Sockets, z
-----------------------------------------------------------------------------
(* One event is answered by another one that was not under way, or by none.*)
LEMMA SoloAnswer ==
    ASSUME TypeOK, Solo, CarriersInv, UNCHANGED envVars,
           NEW t \in Threads, hand[t] # <<>>,
           NEW x \in Ends, NEW type, Head(hand[t]) = Event(type, x),
           NEW n \in Handshake \cup {"DISCONNECT"}, NEW p \in Ends, ~Carried(n, p),
           \/ type \in Handshake /\ n \in Handshake
           \/ type = "DISCONNECT" /\ n = "DISCONNECT",
           hand' = Handled(t, <<Event(n, p)>>)
    PROVE  /\ CarriersInv'
           /\ \A k, y : Carried(k, y)' <=> (Carried(k, y) /\ ~(k = type /\ y = x)) \/ (k = n /\ y = p)
<1> DEFINE v == Event(n, p)
           s == <<v>>
           S == {v}
<1>1. v \in Events /\ \A k, y : Event(k, y) \in S <=> k = n /\ y = p
  BY EventFacts
<1>2. \A w \in S : \E k, y : w = Event(k, y)
  OBVIOUS
<1> HIDE DEF v
<1>3. s \in Seq(Events) /\ (\A w : Contains(s, w) <=> w \in S) /\ Distinct(s)
  <2>1. Len(s) = 1 /\ 1..1 = {1}
    OBVIOUS
  <2> QED
    BY <1>1, <2>1, ShortFacts DEF Distinct
<1>4. hand' = Handled(t, s)
  BY DEF v
<1> HIDE DEF s, S
<1>5. \A k, y : Event(k, y) \in S => ~Carried(k, y) /\ k \in Handshake \cup {"DISCONNECT"} /\ y \in Ends
  BY <1>1
<1>6. \/ type \in Handshake /\ \A k, y : Event(k, y) \in S => k \in Handshake
      \/ type = "DISCONNECT" /\ \A k, y : Event(k, y) \in S => k = "DISCONNECT"
  BY <1>1
<1>7. CarriersInv' /\ Only(type, x, S)
  BY <1>2, <1>3, <1>4, <1>5, <1>6, OnlyFacts
<1> QED
  BY <1>1, <1>7 DEF Only

LEMMA SoloNoAnswer ==
    ASSUME TypeOK, Solo, CarriersInv, UNCHANGED envVars,
           NEW t \in Threads, hand[t] # <<>>,
           NEW x \in Ends, NEW type \in Handshake \cup {"DISCONNECT"}, Head(hand[t]) = Event(type, x),
           hand' = Handled(t, <<>>)
    PROVE  /\ CarriersInv'
           /\ \A k, y : Carried(k, y)' <=> Carried(k, y) /\ ~(k = type /\ y = x)
<1> DEFINE s == <<>>
           S == {}
<1>1. /\ s \in Seq(Events) /\ (\A w : Contains(s, w) <=> w \in S) /\ Distinct(s)
      /\ hand' = Handled(t, s)
  BY ShortFacts DEF Distinct
<1>2. \A k, y : Event(k, y) \notin S
  OBVIOUS
<1>3. \A w \in S : \E k, y : w = Event(k, y)
  OBVIOUS
<1> HIDE DEF s, S
<1>4. \A k, y : Event(k, y) \in S => ~Carried(k, y) /\ k \in Handshake \cup {"DISCONNECT"} /\ y \in Ends
  BY <1>2
<1>5. \/ type \in Handshake /\ \A k, y : Event(k, y) \in S => k \in Handshake
      \/ type = "DISCONNECT" /\ \A k, y : Event(k, y) \in S => k = "DISCONNECT"
  BY <1>2
<1>6. CarriersInv' /\ Only(type, x, S)
  BY <1>1, <1>3, <1>4, <1>5, OnlyFacts
<1> QED
  BY <1>2, <1>6 DEF Only

(* What the event on top says of its end and of the partner.               *)
LEMMA AcceptSolo ==
    ASSUME IInv, Agreed, Solo, SoloInv, UNCHANGED envVars,
           NEW t \in Threads, hand[t] # <<>>,
           NEW x \in Ends, Head(hand[t]) = Event("CONNECT", x), Carried("CONNECT", x),
           Asks(t, 1, x), Accept(t, x)
    PROVE  SoloInv'
<1> DEFINE p == Partner(x)
<1>1. /\ p \in Ends /\ Partner(p) = x /\ p # x /\ x.own \in Ep
  BY EndFacts
<1>2. /\ CarriersInv /\ SidesInv /\ CountInv /\ \A y \in Ends : ArrivesInv(y)
      /\ TypeOK /\ inprogress \in [Sockets -> Nat]
  BY DEF SoloInv, IInv, TypeOK
<1>3. x.role = "acc" /\ end[x] = "NONE" /\ end[p] = "CONNECTING"
  <2>1. x.role = "acc" /\ end[x] = "NONE" /\ end[p] # "NONE"
    BY DEF IInv, AsksInv
  <2> QED
    BY <2>1 DEF Agreed, HandshakeInv
<1>4. hand' = Handled(t, <<Event("READY", p)>>) /\ end' = [end EXCEPT ![x] = "READY"] /\ ep' = ep
  BY DEF Accept
<1> HIDE DEF p
<1>5. ~Carried("READY", p)
  BY <1>1, <1>2, <1>3 DEF ArrivesInv
<1>6. /\ CarriersInv'
      /\ \A k, y : Carried(k, y)' <=> (Carried(k, y) /\ ~(k = "CONNECT" /\ y = x)) \/ (k = "READY" /\ y = p)
  BY <1>1, <1>2, <1>4, <1>5, SoloAnswer DEF Handshake
<1>7. \A y \in Ends : end'[y] = IF y = x THEN "READY" ELSE end[y]
  BY <1>2, <1>4 DEF TypeOK
<1>8. \A y \in Ends : ~Carried("DISCONNECT", y)
  BY <1>2 DEF CarriersInv, Handshake
<1>9. ASSUME NEW y \in Ends PROVE ArrivesInv(y)'
  <2>1. ArrivesInv(y) /\ Partner(y) \in Ends /\ Partner(y) # y /\ (y = p <=> Partner(y) = x)
    BY <1>1, <1>2, EndFacts DEF p
  <2> QED
    BY <1>1, <1>3, <1>4, <1>6, <1>7, <1>8, <2>1 DEF ArrivesInv
<1>10. SidesInv'
  BY <1>2, <1>3, <1>7 DEF SidesInv
<1>11. Served(x.own)' /\ \A c \in Connector : c # x.own => (Served(c)' <=> Served(c))
  <2>1. Served(x.own)'
    BY <1>7 DEF Served, Forming
  <2>2. \A y \in Ends : y.own # x.own => end'[y] = end[y]
    BY <1>7
  <2> QED
    BY <2>1, <2>2 DEF Served
<1>12. CASE x.own \in Connector
  <2>1. ep[x.own] = "ACTIVE" /\ ~Served(x.own)
    BY <1>3, <1>12, AskedIsUnserved DEF p
  <2>2. inprogress[Socket[x.own]] >= 1 /\ (inprogress' = LessInProgress(x.own) => CountInv')
    BY <1>2, <1>4, <1>11, <1>12, <2>1, OneLess
  <2>3. Alive' /\ CountInv'
    BY <1>12, <2>2 DEF Accept, Alive, Failed
  <2> QED
    BY <1>6, <1>9, <1>10, <2>3 DEF SoloInv
<1>13. CASE x.own \notin Connector
  <2>1. UNCHANGED <<inprogress, abort>> /\ Alive
    BY <1>13 DEF Accept, SoloInv
  <2>2. CountInv'
    BY <1>2, <1>4, <1>11, <1>13, <2>1, CountsKept
  <2> QED
    BY <1>6, <1>9, <1>10, <2>1, <2>2 DEF SoloInv, Alive
<1> QED
  BY <1>12, <1>13

(* An end goes on while it is made, its socket is connected as before.     *)
LEMMA MovedCount ==
    ASSUME TypeOK, CountInv, NEW x \in Ends, NEW st, end' = [end EXCEPT ![x] = st],
           end[x] \in Forming <=> st \in Forming,
           \A c \in Connector : ep'[c] = "ACTIVE" <=> ep[c] = "ACTIVE",
           inprogress' = inprogress
    PROVE  CountInv'
<1>1. \A y \in Ends : end'[y] \in Forming <=> end[y] \in Forming
  BY DEF TypeOK
<1>2. \A c : Served(c)' <=> Served(c)
  BY <1>1 DEF Served
<1> QED
  BY <1>2, CountsKept DEF TypeOK

LEMMA ReadySolo ==
    ASSUME IInv, Agreed, Solo, SoloInv, UNCHANGED envVars,
           NEW t \in Threads, hand[t] # <<>>,
           NEW x \in Ends, Head(hand[t]) = Event("READY", x), Carried("READY", x), Ready(t, x)
    PROVE  SoloInv'
<1> DEFINE p == Partner(x)
<1>1. /\ p \in Ends /\ Partner(p) = x /\ p # x
  BY EndFacts
<1>2. /\ CarriersInv /\ SidesInv /\ CountInv /\ TypeOK /\ Alive /\ \A y \in Ends : ArrivesInv(y)
  BY DEF SoloInv, IInv
<1>3. end[x] = "CONNECTING" /\ end[p] = "READY"
  BY <1>2 DEF ArrivesInv
<1>4. /\ hand' = Handled(t, <<Event("ACCEPTED", p)>>) /\ end' = [end EXCEPT ![x] = "ACTIVE"]
      /\ UNCHANGED <<ep, inprogress, abort>>
  BY DEF Ready
<1> HIDE DEF p
<1>5. ~Carried("ACCEPTED", p)
  BY <1>1, <1>2, <1>3 DEF ArrivesInv
<1>6. /\ CarriersInv'
      /\ \A k, y : Carried(k, y)' <=> (Carried(k, y) /\ ~(k = "READY" /\ y = x)) \/ (k = "ACCEPTED" /\ y = p)
  BY <1>1, <1>2, <1>4, <1>5, SoloAnswer DEF Handshake
<1>7. \A y \in Ends : end'[y] = IF y = x THEN "ACTIVE" ELSE end[y]
  BY <1>2, <1>4 DEF TypeOK
<1>8. \A y \in Ends : ~Carried("DISCONNECT", y)
  BY <1>2 DEF CarriersInv, Handshake
<1>9. ASSUME NEW y \in Ends PROVE ArrivesInv(y)'
  <2>1. ArrivesInv(y) /\ Partner(y) \in Ends /\ Partner(y) # y /\ (y = p <=> Partner(y) = x)
    BY <1>1, <1>2, EndFacts DEF p
  <2> QED
    BY <1>1, <1>3, <1>4, <1>6, <1>7, <1>8, <2>1 DEF ArrivesInv
<1>10. SidesInv'
  BY <1>2, <1>3, <1>7 DEF SidesInv
<1>11. CountInv'
  BY <1>2, <1>3, <1>4, MovedCount DEF Forming
<1> QED
  BY <1>2, <1>4, <1>6, <1>9, <1>10, <1>11 DEF SoloInv, Alive

LEMMA AcceptedSolo ==
    ASSUME IInv, Agreed, Solo, SoloInv, UNCHANGED envVars,
           NEW t \in Threads, hand[t] # <<>>,
           NEW x \in Ends, Head(hand[t]) = Event("ACCEPTED", x), Carried("ACCEPTED", x), Accepted(t, x)
    PROVE  SoloInv'
<1> DEFINE p == Partner(x)
<1>1. /\ p \in Ends /\ Partner(p) = x /\ p # x
  BY EndFacts
<1>2. /\ CarriersInv /\ SidesInv /\ CountInv /\ TypeOK /\ Alive /\ \A y \in Ends : ArrivesInv(y)
  BY DEF SoloInv, IInv
<1>3. end[x] = "READY" /\ end[p] = "ACTIVE"
  BY <1>2 DEF ArrivesInv
<1>4. /\ hand' = Handled(t, <<>>) /\ end' = [end EXCEPT ![x] = "ACTIVE"]
      /\ UNCHANGED <<ep, inprogress, abort>>
  BY DEF Accepted
<1> HIDE DEF p
<1>6. /\ CarriersInv'
      /\ \A k, y : Carried(k, y)' <=> Carried(k, y) /\ ~(k = "ACCEPTED" /\ y = x)
  BY <1>2, <1>4, SoloNoAnswer DEF Handshake
<1>7. \A y \in Ends : end'[y] = IF y = x THEN "ACTIVE" ELSE end[y]
  BY <1>2, <1>4 DEF TypeOK
<1>8. \A y \in Ends : ~Carried("DISCONNECT", y)
  BY <1>2 DEF CarriersInv, Handshake
<1>9. ASSUME NEW y \in Ends PROVE ArrivesInv(y)'
  <2>1. ArrivesInv(y) /\ Partner(y) \in Ends /\ Partner(y) # y /\ (y = p <=> Partner(y) = x)
    BY <1>1, <1>2, EndFacts DEF p
  <2> QED
    BY <1>1, <1>3, <1>4, <1>6, <1>7, <1>8, <2>1 DEF ArrivesInv
<1>10. SidesInv'
  BY <1>2, <1>3, <1>7 DEF SidesInv
<1>11. CountInv'
  BY <1>2, <1>3, <1>4, MovedCount DEF Forming
<1> QED
  BY <1>2, <1>4, <1>6, <1>9, <1>10, <1>11 DEF SoloInv, Alive

LEMMA DisconnectedSolo ==
    ASSUME IInv, Agreed, Solo, SoloInv, UNCHANGED envVars,
           NEW t \in Threads, hand[t] # <<>>,
           NEW x \in Ends, Head(hand[t]) = Event("DISCONNECT", x), Carried("DISCONNECT", x),
           Disconnected(t, x)
    PROVE  SoloInv'
<1> DEFINE p == Partner(x)
<1>1. /\ p \in Ends /\ Partner(p) = x /\ p # x /\ x.own \in Ep
  BY EndFacts
<1>2. /\ CarriersInv /\ SidesInv /\ CountInv /\ TypeOK /\ Alive /\ \A y \in Ends : ArrivesInv(y)
      /\ inprogress \in [Sockets -> Nat] /\ Binder \cap Connector = {}
  BY InprocAssumption DEF SoloInv, IInv, TypeOK
<1>3. end[x] = "ACTIVE" /\ end[p] = "STOPPING_PEER"
  BY <1>2 DEF ArrivesInv, Disconnected
<1>4. hand' = Handled(t, <<Event("DISCONNECT", p)>>) /\ Alive'
  <2>1. \A y \in Ends, k \in Handshake : ~Carried(k, y)
    BY <1>2 DEF CarriersInv
  <2>2. StopAsserts({x}) = {}
    BY <2>1, StopsClean
  <2> QED
    BY <1>3, <2>2 DEF Disconnected, Answer, Alive, Failed
<1>5. ~Carried("DISCONNECT", p)
  BY <1>1, <1>3 DEF Agreed, FarewellInv, Over
<1>6. PICK st \in {"DISCONNECTED", "FREED"} : Owners /\ end' = [end EXCEPT ![x] = st]
  <2>1. CASE x.own \in Binder
    BY <1>2, <2>1, ReleasedOwners DEF Disconnected
  <2>2. CASE x.own \notin Binder
    BY <2>2 DEF Disconnected, Owners
  <2> QED
    BY <2>1, <2>2
<1> HIDE DEF p
<1>7. /\ CarriersInv'
      /\ \A k, y : Carried(k, y)' <=>
            (Carried(k, y) /\ ~(k = "DISCONNECT" /\ y = x)) \/ (k = "DISCONNECT" /\ y = p)
  <2> DEFINE n == "DISCONNECT"
  <2>1. n \in Handshake \cup {"DISCONNECT"} /\ n = "DISCONNECT" /\ ~Carried(n, p)
        /\ hand' = Handled(t, <<Event(n, p)>>)
    BY <1>4, <1>5
  <2> HIDE DEF n
  <2>2. Head(hand[t]) = Event(n, x)
    BY <2>1
  <2> QED
    BY <1>1, <1>2, <2>1, <2>2, SoloAnswer
<1>8. \A y \in Ends : end'[y] = IF y = x THEN st ELSE end[y]
  BY <1>2, <1>6 DEF TypeOK
<1>9. \A y \in Ends, k \in Handshake : ~Carried(k, y)
  BY <1>2 DEF CarriersInv
<1>10. ASSUME NEW y \in Ends PROVE ArrivesInv(y)'
  <2>1. ArrivesInv(y) /\ Partner(y) \in Ends /\ Partner(y) # y /\ (y = p <=> Partner(y) = x)
    BY <1>1, <1>2, EndFacts DEF p
  <2>2. ~Carried("CONNECT", y)' /\ ~Carried("READY", y)' /\ ~Carried("ACCEPTED", y)'
    BY <1>7, <1>9 DEF Handshake
  <2> QED
    BY <1>1, <1>3, <1>7, <1>8, <2>1, <2>2 DEF ArrivesInv
<1>11. SidesInv'
  BY <1>2, <1>3, <1>8 DEF SidesInv
<1>12. \A y \in Ends : y.own # x.own => end'[y] = end[y]
  BY <1>8
<1>13. \A c : c # x.own => (Served(c)' <=> Served(c))
  BY <1>12 DEF Served
<1>14. \A c \in Connector : ep'[c] = "ACTIVE" <=> ep[c] = "ACTIVE"
  BY <1>6 DEF Owners, Ep
<1>15. CountInv'
  <2>1. CASE x.own \in Binder
    <3>1. \A c \in Connector : Served(c)' <=> Served(c)
      BY <1>2, <1>13, <2>1
    <3>2. inprogress' = inprogress
      BY <2>1 DEF Disconnected
    <3> QED
      BY <1>2, <1>14, <3>1, <3>2, CountsKept
  <2>2. CASE x.own \notin Binder
    <3>1. x.own \in Connector /\ inprogress' = MoreInProgress(x.own)
      BY <1>1, <2>2 DEF Disconnected, Ep
    <3> QED
      BY <1>2, <1>13, <1>14, <3>1, OneMore
  <2> QED
    BY <2>1, <2>2
<1> QED
  BY <1>4, <1>7, <1>10, <1>11, <1>15 DEF SoloInv

LEMMA PeerStoppedSolo ==
    ASSUME IInv, Agreed, Solo, SoloInv, UNCHANGED envVars,
           NEW t \in Threads, hand[t] # <<>>,
           NEW x \in Ends, Head(hand[t]) = Event("DISCONNECT", x), Carried("DISCONNECT", x),
           PeerStopped(t, x)
    PROVE  SoloInv'
<1> DEFINE p == Partner(x)
<1>1. /\ p \in Ends /\ Partner(p) = x /\ p # x
  BY EndFacts
<1>2. /\ CarriersInv /\ SidesInv /\ CountInv /\ TypeOK /\ \A y \in Ends : ArrivesInv(y)
  BY DEF SoloInv, IInv
<1>3. end[x] = "STOPPING_PEER" /\ end[p] # "ACTIVE"
  BY DEF Agreed, FarewellInv, Over, PeerStopped
<1>4. /\ hand' = Handled(t, <<>>) /\ inprogress' = inprogress /\ Alive'
      /\ Owners /\ end' = [end EXCEPT ![x] = "FREED"]
  <2>1. \A y \in Ends, k \in Handshake : ~Carried(k, y)
    BY <1>2 DEF CarriersInv
  <2>2. StopAsserts({x}) = {}
    BY <2>1, StopsClean
  <2> QED
    BY <1>2, <2>2, ReleasedOwners DEF PeerStopped, Alive, Erases, Failed, Solo
<1> HIDE DEF p
<1>5. /\ CarriersInv'
      /\ \A k, y : Carried(k, y)' <=> Carried(k, y) /\ ~(k = "DISCONNECT" /\ y = x)
  BY <1>2, <1>4, SoloNoAnswer
<1>6. \A y \in Ends : end'[y] = IF y = x THEN "FREED" ELSE end[y]
  BY <1>2, <1>4 DEF TypeOK
<1>7. \A y \in Ends, k \in Handshake : ~Carried(k, y)
  BY <1>2 DEF CarriersInv
<1>8. ASSUME NEW y \in Ends PROVE ArrivesInv(y)'
  <2>1. ArrivesInv(y) /\ Partner(y) \in Ends /\ Partner(y) # y /\ (y = p <=> Partner(y) = x)
    BY <1>1, <1>2, EndFacts DEF p
  <2>2. ~Carried("CONNECT", y)' /\ ~Carried("READY", y)' /\ ~Carried("ACCEPTED", y)'
    BY <1>5, <1>7 DEF Handshake
  <2> QED
    BY <1>1, <1>3, <1>5, <1>6, <2>1, <2>2 DEF ArrivesInv
<1>9. SidesInv'
  BY <1>2, <1>3, <1>6 DEF SidesInv
<1>10. CountInv'
  BY <1>2, <1>3, <1>4, MovedCount DEF Forming, Owners, Ep
<1> QED
  BY <1>4, <1>5, <1>8, <1>9, <1>10 DEF SoloInv

(* Each event finds its end in the state it is for, none meets freed       *)
(* memory.                                                                 *)
LEMMA DeliverSolo ==
    ASSUME IInv, Agreed, Solo, SoloInv, UNCHANGED envVars, NEW t \in Threads, Deliver(t)
    PROVE  SoloInv'
<1> DEFINE x == Head(hand[t]).to
           type == Head(hand[t]).type
<1>1. hand[t] # <<>> /\ IF InFreed(x, type) THEN Stray(t) ELSE Handle(t, x, type)
  BY DEF Deliver
<1>2. hand \in [Threads -> Seq(Events)]
  BY DEF IInv, TypeOK
<1>3. /\ x \in Ends /\ type \in Handshake \cup {"DISCONNECT"} /\ Head(hand[t]) = Event(type, x)
      /\ type = "CONNECT" => Asks(t, 1, x)
  <2>1. Head(hand[t]) \in Events /\ (type = "CONNECT" => Asks(t, 1, x))
    BY <1>1, <1>2, OnTop
  <2> QED
    BY <2>1, EventFacts
<1>4. Carried(type, x)
  <2>1. hand[t] \in Seq(Events) /\ Len(hand[t]) \in Nat \ {0} /\ Head(hand[t]) = hand[t][1]
    BY <1>1, <1>2
  <2> QED
    BY <1>3, <2>1 DEF Carried, Contains
<1> HIDE DEF x, type
<1>5. ArrivesInv(x)
  BY <1>3 DEF SoloInv
<1>6. type \in {"CONNECT", "READY", "ACCEPTED", "DISCONNECT"}
  BY <1>3 DEF Handshake
<1>7. CASE type = "CONNECT"
  <2>1. ep[x.own] = "ACTIVE"
    BY <1>4, <1>5, <1>7 DEF ArrivesInv
  <2>2. end[Partner(x)] = "CONNECTING"
    <3>1. end[x] = "NONE" /\ end[Partner(x)] # "NONE"
      BY <1>3, <1>7 DEF IInv, AsksInv
    <3> QED
      BY <1>3, <3>1 DEF Agreed, HandshakeInv
  <2>3. ~InFreed(x, type) /\ ~TooLate(t, x)
    BY <1>7, <2>1, <2>2 DEF InFreed, TooLate
  <2>4. Accept(t, x)
    BY <1>1, <1>7, <2>3 DEF Handle
  <2> QED
    BY <1>1, <1>3, <1>4, <1>7, <2>4, AcceptSolo
<1>8. CASE type = "READY"
  <2>1. end[x] = "CONNECTING" /\ end[Partner(x)] = "READY"
    BY <1>4, <1>5, <1>8 DEF ArrivesInv
  <2>2. ~InFreed(x, type) /\ ~Ignored(t, x) /\ ~BadAction(t, x, type)
    BY <1>8, <2>1 DEF InFreed, Ignored, BadAction, Expected
  <2>3. Ready(t, x)
    BY <1>1, <1>8, <2>2 DEF Handle
  <2> QED
    BY <1>1, <1>3, <1>4, <1>8, <2>3, ReadySolo
<1>9. CASE type = "ACCEPTED"
  <2>1. end[x] = "READY" /\ end[Partner(x)] = "ACTIVE"
    BY <1>4, <1>5, <1>9 DEF ArrivesInv
  <2>2. ~InFreed(x, type) /\ ~Ignored(t, x) /\ ~BadAction(t, x, type)
    BY <1>9, <2>1 DEF InFreed, Ignored, BadAction, Expected
  <2>3. Accepted(t, x)
    BY <1>1, <1>9, <2>2 DEF Handle
  <2> QED
    BY <1>1, <1>3, <1>4, <1>9, <2>3, AcceptedSolo
<1>10. CASE type = "DISCONNECT"
  <2>1. end[x] \in {"ACTIVE", "STOPPING_PEER"}
    BY <1>4, <1>5, <1>10 DEF ArrivesInv
  <2>2. ~InFreed(x, type) /\ ~BadAction(t, x, type)
    BY <1>10, <2>1 DEF InFreed, BadAction, Expected, Handshake
  <2>3. Disconnected(t, x) \/ PeerStopped(t, x)
    BY <1>1, <1>10, <2>2 DEF Handle
  <2> QED
    BY <1>1, <1>3, <1>4, <1>10, <2>3, DisconnectedSolo, PeerStoppedSolo
<1> QED
  BY <1>6, <1>7, <1>8, <1>9, <1>10

LEMMA InitSolo == Init => SoloInv
<1> SUFFICES ASSUME Init PROVE SoloInv
  OBVIOUS
<1>1. \A k, y : ~Carried(k, y)
  BY DEF Init, Carried, Contains
<1>2. CarriersInv
  <2>1. callers \subseteq Threads
    BY InprocAssumption DEF Init
  <2>2. \A t \in Threads : hand[t] = <<>> /\ Distinct(hand[t])
    BY DEF Init, Distinct
  <2> QED
    BY <1>1, <2>1, <2>2 DEF CarriersInv
<1>3. CountInv
  <2> SUFFICES ASSUME NEW s \in Sockets PROVE Cardinality(Unserved(s)) <= inprogress[s]
    BY DEF CountInv
  <2>1. \A c \in Connector : ep[c] = "none"
    BY DEF Init, Ep
  <2>2. Unserved(s) = {}
    BY <2>1 DEF Unserved
  <2>3. Cardinality(Unserved(s)) = 0 /\ inprogress[s] = 0
    BY <2>2, FS_EmptySet DEF Init
  <2> QED
    BY <2>3
<1>4. SidesInv /\ \A x \in Ends : ArrivesInv(x)
  BY <1>1 DEF SidesInv, ArrivesInv, Init
<1> QED
  BY <1>2, <1>3, <1>4 DEF SoloInv, Init, Alive

LEMMA NextSolo == IInv /\ AgreeInv /\ SoloInv /\ [Next]_vars => SoloInv'
<1> SUFFICES ASSUME IInv, AgreeInv, SoloInv, [Next]_vars, Solo' PROVE SoloInv'
  BY DEF SoloInv
<1>1. UNCHANGED envVars
  BY DEF Next, Finished, vars
<1>2. Solo /\ Agreed
  BY <1>1 DEF Solo, envVars, SoloInv, AgreeInv, Agreed
<1>3. CASE UNCHANGED vars
  <2>1. UNCHANGED <<callers, slips, ep, end, hand, inprogress, abort>>
    BY <1>3 DEF vars, envVars
  <2>2. \A k, y : Carried(k, y)' <=> Carried(k, y)
    BY <2>1 DEF Carried
  <2>3. CarriersInv' /\ SidesInv' /\ \A x \in Ends : ArrivesInv(x)'
    BY <1>2, <2>1, <2>2 DEF SoloInv, CarriersInv, SidesInv, ArrivesInv
  <2>4. CountInv'
    BY <1>2, <2>1 DEF SoloInv, CountInv, Unserved, Served, Sockets
  <2> QED
    BY <1>2, <2>1, <2>3, <2>4 DEF SoloInv, Alive
<1>4. ASSUME NEW t \in Threads, NEW e \in Ep,
             BindRefused(t, e) \/ Bind(t, e) \/ ConnectAlone(t, e) \/ Connect(t, e) \/ Stop(t, e)
      PROVE  SoloInv'
  BY <1>1, <1>2, <1>4, BindRefusedSolo, BindSolo, ConnectAloneSolo, ConnectSolo, StopSolo
<1>5. ASSUME NEW t \in Threads, Deliver(t) PROVE SoloInv'
  BY <1>1, <1>2, <1>5, DeliverSolo
<1> QED
  BY <1>3, <1>4, <1>5 DEF Next, Step, Finished
-----------------------------------------------------------------------------
(* IInv holds in every reachable state.                                    *)
LEMMA Invariant == Spec => []IInv
BY InitIInv, NextIInv, PTL DEF Spec

(* The registry, the lists and the events keep their types; the count of   *)
(* connections in progress never goes below zero, although an established  *)
(* one is counted down twice (binproc.c and cinproc.c, sock.c:930).        *)
THEOREM TypeCorrect == Spec => []TypeOK
BY Invariant, PTL DEF IInv

(* ins.c names exactly the endpoints that are active, never two bound to   *)
(* one address, and an endpoint that is gone has freed every connection.   *)
THEOREM RegistryIsTrue == Spec => []RegistryTrue
<1>1. IInv => RegistryTrue
  <2> SUFFICES ASSUME IInv PROVE RegistryTrue
    OBVIOUS
  <2>1. ASSUME NEW x \in Ends, ep[x.own] \in {"none", "gone"} PROVE end[x] \in {"NONE", "FREED"}
    <3>1. x.own \in Ep
      BY EndFacts
    <3>2. CASE ep[x.own] = "none"
      BY <3>1, <3>2 DEF IInv, ListsInv
    <3>3. CASE ep[x.own] = "gone"
      <4>1. sinprocs[x.own] = <<>> /\ (Live(x) => Contains(sinprocs[x.own], x))
        BY <3>1, <3>3 DEF IInv, ListsInv
      <4>2. ~Contains(sinprocs[x.own], x)
        BY <4>1 DEF Contains
      <4> QED
        BY <4>1, <4>2 DEF Live
    <3> QED
      BY <2>1, <3>2, <3>3
  <2> QED
    BY <2>1 DEF IInv, RegistryInv, RegistryTrue
<1> QED
  BY <1>1, Invariant, PTL

(* A bound endpoint and a connected peer of its address are in exactly one *)
(* connection, whichever of the two came first (nn_ins_bind, nn_ins_connect *)
(* with line 81 of cinproc.c naming the peer), and others are in none.     *)
THEOREM ConnectedOnce == Spec => []OneConnection
<1>1. IInv => OneConnection
  <2> SUFFICES ASSUME IInv, slips = {}, NEW b \in Binder, NEW c \in Connector,
                      NEW made, made = {x \in {ConnEnd(b, c), ConnEnd(c, b)} : end[x] # "NONE"}
               PROVE  IF SameAddr(b, c) /\ IsPeer(b, c)
                      THEN Cardinality(made) <= 1 /\ (Registered(b, c) => made # {})
                      ELSE made = {}
    BY DEF OneConnection
  <2>1. PairInv(b, c)
    BY DEF IInv, PairsInv
  <2>2. CASE ~Fit(b, c)
    BY <2>1, <2>2 DEF PairInv, Fit
  <2>3. CASE Fit(b, c)
    <3>1. made = {} \/ made = {ConnEnd(b, c)} \/ made = {ConnEnd(c, b)}
      BY <2>1 DEF PairInv
    <3>2. Cardinality(made) <= 1
      <4>1. Cardinality({}) = 0 /\ \A x : Cardinality({x}) = 1
        BY FS_EmptySet, FS_Singleton
      <4>2. CASE made = {}
        BY <4>1, <4>2
      <4>3. ASSUME NEW x, made = {x} PROVE Cardinality(made) <= 1
        <5>1. Cardinality(made) = 1
          BY <4>1, <4>3
        <5> QED
          BY <5>1
      <4> QED
        BY <3>1, <4>2, <4>3
    <3>3. Registered(b, c) => made # {}
      BY <2>1, <2>3 DEF PairInv
    <3> QED
      BY <2>3, <3>2, <3>3 DEF Fit
  <2> QED
    BY <2>2, <2>3
<1> QED
  BY <1>1, Invariant, PTL

(* Whatever threads and events there were, once none is under way the two  *)
(* ends of every connection agree: both are active, with both endpoints,   *)
(* or the one that is left knows that the other one stopped                *)
(* (sinproc.c:148-202, 288-384).                                           *)
THEOREM EndsAgree == Spec => []SettledEndsAgree
<1>1. IInv /\ AgreeInv => SettledEndsAgree
  <2> SUFFICES ASSUME IInv, AgreeInv, Alive, \A t \in Threads : hand[t] = <<>>,
                      NEW x \in Ends, end[x] # "NONE"
               PROVE  IF ep[x.own] = "ACTIVE" /\ ep[x.oth] = "ACTIVE"
                      THEN end[x] = "ACTIVE" /\ end[Partner(x)] = "ACTIVE"
                      ELSE end[x] \in {"DISCONNECTED", "FREED"}
    BY DEF SettledEndsAgree
  <2>1. \A k, y : ~Carried(k, y)
    BY DEF Carried, Contains
  <2> QED
    BY <2>1, Settled DEF AgreeInv, Agreed
<1> QED
  BY <1>1, Invariant, InitAgree, NextAgree, PTL DEF Spec

(* As long as one thread makes the calls and cinproc.c does what binproc.c *)
(* does, every event finds its end in a state that expects it, nothing     *)
(* freed is touched and the count of connections in progress suffices: no  *)
(* assertion of binproc.c, cinproc.c, sinproc.c and sock.c:930 fails.      *)
THEOREM NoneFails == Spec => []NoAssertionFails
<1>1. SoloInv => NoAssertionFails
  BY DEF SoloInv, Solo, NoAssertionFails
<1> QED
  BY <1>1, Invariant, InitAgree, NextAgree, InitSolo, NextSolo, PTL DEF Spec
=============================================================================
