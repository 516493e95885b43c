--------------------------- MODULE MsgQueueProofs ---------------------------
(***************************************************************************)
(* Proofs about MsgQueue for every granularity, limit and set of messages. *)
(*                                                                         *)
(* What makes the queue safe is its shape: between in and out there is a   *)
(* chain of different live chunks, linked in order, the cached chunk is    *)
(* not one of them, every slot between the two positions holds a message,  *)
(* and count is the number of these slots.  MemBounded is not inductive    *)
(* without it: nn_msgqueue_recv subtracts the size of whatever the slot at *)
(* in holds.                                                               *)
(***************************************************************************)
EXTENDS MsgQueue, SeqLemmas, FiniteSetTheorems

(* c is the chain: c[0] is in's chunk and c[last] is out's. *)
Chain(last, c) ==
    /\ c[0] = in.chunk /\ c[last] = out.chunk
    /\ \A i, j \in 0..last : c[i] = c[j] => i = j
    /\ \A i \in 0..last : c[i] # cache
    /\ \A i \in 0..last : i < last => link[c[i]] = c[i + 1]
    /\ count = last * Granularity + out.pos - in.pos
    /\ \A i \in 0..last, p \in Slots :
          (i > 0 \/ p >= in.pos) /\ (i < last \/ p < out.pos) => slot[c[i]][p] \in Msgs

(* Nothing else is allocated than the chain and the cached chunk.          *)
Owned(last, c) == live = {c[i] : i \in 0..last} \cup ({cache} \ {NoChunk})

(* The chunks in use are a chain, the places of the messages in it are in  *)
(* order, and every allocated chunk is in it or is the cache.              *)
Shape == \E last \in Nat : \E c \in [0..last -> live] : Chain(last, c) /\ Owned(last, c)

(* The inductive invariant without the sizes: a queue that was not         *)
(* terminated is a chain of chunks; a terminated one owns nothing.         *)
Built ==
    /\ TypeOK
    /\ MemBounded
    /\ ~broken
    /\ cache \in live \cup {NoChunk}
    /\ in.chunk # NoChunk => Shape
    /\ in.chunk = NoChunk => live = {} /\ count = 0

(* Multiples of the granularity: the only arithmetic that is not linear.   *)
LEMMA Multiples ==
    ASSUME NEW n \in Nat
    PROVE  /\ n * Granularity \in Nat
           /\ (n + 1) * Granularity = n * Granularity + Granularity
           /\ n > 0 => n * Granularity >= Granularity
  BY MsgQueueAssumption

(* Walking on from x, n steps for every n.                                 *)
IsWalk(f, V, x, step) == f \in [Nat -> V] /\ f[0] = x /\ \A n \in Nat : f[n + 1] = step[f[n]]

(* A step from V to V can be walked for ever.                              *)
LEMMA Iterates ==
    ASSUME NEW V, NEW x \in V, NEW step \in [V -> V]
    PROVE  \E f : IsWalk(f, V, x, step)
<1> DEFINE Upto(n) == {g \in [0..n -> V] : g[0] = x /\ \A i \in 0..n - 1 : g[i + 1] = step[g[i]]}
           Bad == {n \in Nat : Upto(n) = {}}
<1>1. Upto(0) # {}
  <2>1. [i \in 0..0 |-> x] \in Upto(0)
    OBVIOUS
  <2> QED
    BY <2>1
<1>2. ASSUME NEW n \in Nat, Upto(n) # {} PROVE Upto(n + 1) # {}
  <2>1. PICK g \in Upto(n) : TRUE
    BY <1>2
  <2> DEFINE h == [i \in 0..n + 1 |-> IF i = n + 1 THEN step[g[n]] ELSE g[i]]
  <2>2. g \in [0..n -> V] /\ g[0] = x /\ \A i \in 0..n - 1 : g[i + 1] = step[g[i]]
    BY <2>1
  <2>3. h \in [0..n + 1 -> V] /\ h[0] = x
    BY <2>2
  <2>4. \A i \in 0..(n + 1) - 1 : h[i + 1] = step[h[i]]
    BY <2>2
  <2>5. h \in Upto(n + 1)
    BY <2>3, <2>4
  <2> QED
    BY <2>5
<1>3. Bad = {}
  <2> SUFFICES ASSUME Bad # {} PROVE FALSE
    OBVIOUS
  <2>1. Bad \in SUBSET Nat
    OBVIOUS
  <2> HIDE DEF Bad
  <2>2. PICK n \in Bad : \A k \in Bad : n <= k
    BY <2>1, LeastNumber
  <2>3. n \in Nat /\ Upto(n) = {} /\ n # 0
    BY <1>1, <2>2 DEF Bad
  <2>4. n - 1 \in Nat /\ n - 1 \notin Bad /\ (n - 1) + 1 = n
    BY <2>2, <2>3
  <2>5. Upto(n - 1) # {}
    BY <2>4 DEF Bad
  <2>6. Upto((n - 1) + 1) # {}
    BY <1>2, <2>4, <2>5
  <2> HIDE DEF Upto
  <2> QED
    BY <2>3, <2>4, <2>6
<1> HIDE DEF Bad
<1>4. ASSUME NEW n \in Nat, NEW g \in Upto(n), NEW h \in Upto(n + 1) PROVE g[n] = h[n]
  <2> DEFINE D == {i \in 0..n : g[i] # h[i]}
  <2> SUFFICES ASSUME D # {} PROVE FALSE
    OBVIOUS
  <2>1. D \in SUBSET Nat
    OBVIOUS
  <2> HIDE DEF D
  <2>2. PICK i \in D : \A k \in D : i <= k
    BY <2>1, LeastNumber
  <2> USE DEF D
  <2>3. i \in 0..n /\ g[i] # h[i] /\ i # 0
    BY <2>2
  <2>4. i - 1 \in 0..n - 1 /\ i - 1 \in 0..n /\ i - 1 \notin D /\ i - 1 \in 0..(n + 1) - 1 /\ (i - 1) + 1 = i
    BY <2>2, <2>3
  <2>5. g[i - 1] = h[i - 1]
    BY <2>4
  <2>6. g[(i - 1) + 1] = step[g[i - 1]] /\ h[(i - 1) + 1] = step[h[i - 1]]
    BY <2>4
  <2> QED
    BY <2>3, <2>4, <2>5, <2>6
<1> DEFINE Walk(n) == CHOOSE g \in Upto(n) : TRUE
           f == [n \in Nat |-> Walk(n)[n]]
<1>5. \A n \in Nat : Walk(n) \in Upto(n)
  <2> SUFFICES ASSUME NEW n \in Nat PROVE Walk(n) \in Upto(n)
    OBVIOUS
  <2>1. Upto(n) # {}
    BY <1>3 DEF Bad
  <2> HIDE DEF Upto
  <2> QED
    BY <2>1
<1> HIDE DEF Walk
<1>6. \A n \in Nat : Walk(n)[n] \in V
  BY <1>5
<1>7. f \in [Nat -> V] /\ f[0] = x
  BY <1>5, <1>6
<1>8. ASSUME NEW n \in Nat PROVE f[n + 1] = step[f[n]]
  <2>1. Walk(n) \in Upto(n) /\ Walk(n + 1) \in Upto(n + 1) /\ n + 1 \in Nat
    BY <1>5
  <2>2. Walk(n)[n] = Walk(n + 1)[n]
    <3> HIDE DEF Upto
    <3> QED
      BY <1>4, <2>1
  <2>3. Walk(n + 1)[n + 1] = step[Walk(n + 1)[n]]
    BY <2>1
  <2>4. f[n + 1] = Walk(n + 1)[n + 1] /\ f[n] = Walk(n)[n]
    <3> HIDE DEF Upto
    <3> QED
      BY <2>1
  <2> QED
    BY <2>2, <2>3, <2>4
<1>9. IsWalk(f, V, x, step)
  BY <1>7, <1>8 DEF IsWalk
<1> QED
  BY <1>9

(* NthChunk is defined: it starts at in and goes on along the links.       *)
LEMMA NthFacts ==
    TypeOK => NthChunk[0] = in.chunk /\ \A n \in Nat : NthChunk[n + 1] = After(NthChunk[n])
<1> SUFFICES ASSUME TypeOK
             PROVE  NthChunk[0] = in.chunk /\ \A n \in Nat : NthChunk[n + 1] = After(NthChunk[n])
  OBVIOUS
<1>1. PICK V : V = Chunks \cup {NoChunk, Garbage}
  OBVIOUS
<1>2. PICK step : step = [c \in V |-> After(c)]
  OBVIOUS
<1>3. in.chunk \in V /\ step \in [V -> V] /\ \A c \in V : step[c] = After(c)
  BY <1>1, <1>2 DEF After, TypeOK
<1>4. PICK f : IsWalk(f, V, in.chunk, step)
  BY <1>3, Iterates
<1>5. f \in [Nat -> V] /\ f[0] = in.chunk /\ \A n \in Nat : f[n + 1] = step[f[n]]
  BY <1>4 DEF IsWalk
<1>6. f = [n \in Nat |-> IF n = 0 THEN in.chunk ELSE After(f[n - 1])]
  <2>1. \A n \in Nat : f[n] = IF n = 0 THEN in.chunk ELSE After(f[n - 1])
    <3> SUFFICES ASSUME NEW n \in Nat, n # 0 PROVE f[n] = After(f[n - 1])
      BY <1>5
    <3>1. n - 1 \in Nat /\ (n - 1) + 1 = n
      OBVIOUS
    <3>2. f[(n - 1) + 1] = step[f[n - 1]] /\ f[n - 1] \in V
      BY <1>5, <3>1
    <3> QED
      BY <1>3, <3>1, <3>2
  <2> QED
    BY <1>5, <2>1
<1>7. \E g : g = [n \in Nat |-> IF n = 0 THEN in.chunk ELSE After(g[n - 1])]
  BY <1>6
<1>8. NthChunk = [n \in Nat |-> IF n = 0 THEN in.chunk ELSE After(NthChunk[n - 1])]
  BY <1>7 DEF NthChunk
<1>9. NthChunk[0] = in.chunk
  BY <1>8
<1>10. ASSUME NEW n \in Nat PROVE NthChunk[n + 1] = After(NthChunk[n])
  <2>1. n + 1 \in Nat /\ n + 1 # 0 /\ (n + 1) - 1 = n
    OBVIOUS
  <2>2. NthChunk[n + 1] = After(NthChunk[(n + 1) - 1])
    BY <1>8, <2>1
  <2> QED
    BY <2>1, <2>2
<1> QED
  BY <1>9, <1>10

(* On the chain it is the chain.                                           *)
LEMMA OnChain ==
    TypeOK => \A last \in Nat : \A c \in [0..last -> live] :
        Chain(last, c) => \A n \in 0..last : NthChunk[n] = c[n]
<1> SUFFICES ASSUME TypeOK, NEW last \in Nat, NEW c \in [0..last -> live], Chain(last, c)
             PROVE  \A n \in 0..last : NthChunk[n] = c[n]
  OBVIOUS
<1> DEFINE Off == {n \in 0..last : NthChunk[n] # c[n]}
<1> SUFFICES ASSUME Off # {} PROVE FALSE
  OBVIOUS
<1>1. Off \in SUBSET Nat
  OBVIOUS
<1> HIDE DEF Off
<1>2. PICK n \in Off : \A k \in Off : n <= k
  BY <1>1, LeastNumber
<1>3. n \in 0..last /\ NthChunk[n] # c[n]
  BY <1>2 DEF Off
<1>4. n # 0
  BY <1>3, NthFacts DEF Chain
<1>5. n - 1 \in Nat /\ n - 1 \in 0..last /\ n - 1 \notin Off /\ (n - 1) + 1 = n /\ n - 1 < last
  BY <1>2, <1>3, <1>4
<1>6. NthChunk[n - 1] = c[n - 1]
  BY <1>5 DEF Off
<1>7. NthChunk[(n - 1) + 1] = After(NthChunk[n - 1])
  BY <1>5, NthFacts
<1>8. link[c[n - 1]] = c[(n - 1) + 1] /\ c[n - 1] \in Chunks
  BY <1>5 DEF Chain, TypeOK
<1> QED
  BY <1>3, <1>5, <1>6, <1>7, <1>8 DEF After

(* Places are numbered chunk by chunk.                                     *)
LEMMA PlaceOf ==
    ASSUME NEW n \in Nat
    PROVE  n \div Granularity \in Nat /\ n % Granularity \in Slots
           /\ n = (n \div Granularity) * Granularity + (n % Granularity)
BY MsgQueueAssumption DEF Slots

(* A chunk number and a slot are found again in the number of a place.     *)
LEMMA NumberOf ==
    ASSUME NEW k \in Nat, NEW p \in Slots
    PROVE  (k * Granularity + p) \div Granularity = k /\ (k * Granularity + p) % Granularity = p
<1>1. (k * Granularity + p) \div Granularity = k
  BY MsgQueueAssumption DEF Slots
<1> QED
  BY <1>1, PlaceOf, Multiples, MsgQueueAssumption DEF Slots

(* The place of the message number i, between in and out.                  *)
LEMMA Between ==
    ASSUME NEW last \in Nat, NEW ip \in Slots, NEW op \in Slots, NEW cnt \in Nat,
           cnt = last * Granularity + op - ip, NEW i \in 1..cnt
    PROVE  \E k \in 0..last, p \in Slots :
              /\ ip + i - 1 = k * Granularity + p
              /\ k > 0 \/ p >= ip
              /\ k < last \/ p < op
<1> DEFINE n == ip + i - 1  k == n \div Granularity  p == n % Granularity
<1>1. n \in Nat /\ n < last * Granularity + op /\ n >= ip
  <2>1. last * Granularity \in Nat
    BY Multiples
  <2> QED
    BY <2>1 DEF Slots
<1> HIDE DEF n
<1>2. k \in Nat /\ p \in Slots /\ n = k * Granularity + p
  BY <1>1, PlaceOf
<1> HIDE DEF k, p
<1>3. k <= last
  <2> SUFFICES ASSUME k > last PROVE FALSE
    BY <1>2
  <2>1. k - (last + 1) \in Nat /\ k = (k - (last + 1)) + (last + 1)
    BY <1>2
  <2>2. k * Granularity = (k - (last + 1)) * Granularity + last * Granularity + Granularity
    BY <2>1, MsgQueueAssumption
  <2>3. (k - (last + 1)) * Granularity \in Nat /\ last * Granularity \in Nat
    BY <2>1, Multiples
  <2> QED
    BY <1>1, <1>2, <2>2, <2>3, MsgQueueAssumption DEF Slots
<1>4. k = last => p < op
  <2>1. last * Granularity \in Nat
    BY Multiples
  <2> QED
    BY <1>1, <1>2, <2>1 DEF Slots
<1>5. k = 0 => p >= ip
  <2>1. k = 0 => k * Granularity = 0
    BY MsgQueueAssumption
  <2> QED
    BY <1>1, <1>2, <2>1 DEF Slots
<1> QED
  BY <1>2, <1>3, <1>4, <1>5 DEF n

(* The messages of the queue, place by place.                              *)
PlacesRight ==
    \A last \in Nat : \A c \in [0..last -> live] : Chain(last, c) =>
        \A k \in 0..last, p \in Slots, i \in 1..count :
            in.pos + i - 1 = k * Granularity + p => Contents[i] = slot[c[k]][p]

(* The operators that turn numbers into places are right in every state of *)
(* the right type.                                                         *)
LEMMA AtPlace == TypeOK => PlacesRight
<1> SUFFICES ASSUME TypeOK, NEW last \in Nat, NEW c \in [0..last -> live], Chain(last, c),
                    NEW k \in 0..last, NEW p \in Slots, NEW i \in 1..count,
                    in.pos + i - 1 = k * Granularity + p
             PROVE  Contents[i] = slot[c[k]][p]
  BY DEF PlacesRight
<1>1. Contents[i] = slot[NthChunk[(in.pos + i - 1) \div Granularity]][(in.pos + i - 1) % Granularity]
  BY DEF Contents
<1>2. NthChunk[k] = c[k]
  BY OnChain
<1>3. (in.pos + i - 1) \div Granularity = k /\ (in.pos + i - 1) % Granularity = p
  BY NumberOf
<1> QED
  BY <1>1, <1>2, <1>3

(* The same of the state after a step.                                     *)
LEMMA AtPlaceNext == TypeOK' => PlacesRight'
BY AtPlace, PTL

(* Where message number i is.                                              *)
LEMMA Placed ==
    ASSUME TypeOK, NEW last \in Nat, NEW c \in [0..last -> live], Chain(last, c), NEW i \in 1..count
    PROVE  \E k \in 0..last, p \in Slots :
              /\ in.pos + i - 1 = k * Granularity + p
              /\ k > 0 \/ p >= in.pos
              /\ k < last \/ p < out.pos
              /\ Contents[i] = slot[c[k]][p]
<1>1. count = last * Granularity + out.pos - in.pos /\ in.pos \in Slots /\ out.pos \in Slots /\ count \in Nat
  BY DEF Chain, TypeOK
<1>2. PICK k \in 0..last, p \in Slots :
              /\ in.pos + i - 1 = k * Granularity + p
              /\ k > 0 \/ p >= in.pos
              /\ k < last \/ p < out.pos
  BY <1>1, Between
<1>3. PlacesRight
  BY AtPlace
<1>4. Contents[i] = slot[c[k]][p]
  BY <1>2, <1>3 DEF PlacesRight
<1> QED
  BY <1>2, <1>4

(* A new queue is one chunk with nothing between in and out.               *)
LEMMA ShapeInit == Init => Built
<1> SUFFICES ASSUME Init PROVE Built
  OBVIOUS
<1> USE MsgQueueAssumption
<1>1. PICK d \in Chunks :
          /\ in = [chunk |-> d, pos |-> 0] /\ out = [chunk |-> d, pos |-> 0]
          /\ live = {d} /\ link = [e \in Chunks |-> IF e = d THEN NoChunk ELSE Garbage]
  BY DEF Init
<1>2. TypeOK
  <2>1. 0 \in Slots
    BY DEF Slots
  <2>2. slot \in [Chunks -> [Slots -> Msgs \cup {Garbage}]]
    BY DEF Init
  <2>3. link \in [Chunks -> Chunks \cup {NoChunk, Garbage}]
    BY <1>1
  <2>4. /\ in \in [chunk : Chunks \cup {NoChunk}, pos : Slots]
        /\ out \in [chunk : Chunks \cup {NoChunk}, pos : Slots]
    BY <1>1, <2>1
  <2>5. live \subseteq Chunks
    BY <1>1
  <2>6. count \in Nat /\ mem \in Int /\ cache \in Chunks \cup {NoChunk}
    BY DEF Init
  <2>7. broken \in BOOLEAN
    BY Zenon DEF Init
  <2> QED
    BY <2>2, <2>3, <2>4, <2>5, <2>6, <2>7, Zenon DEF TypeOK
<1>3. Shape
  <2> DEFINE c == [i \in 0..0 |-> d]
  <2>1. c \in [0..0 -> live]
    BY <1>1
  <2>2. Chain(0, c)
    BY <1>1 DEF Init, Chain, Slots
  <2>3. Owned(0, c)
    BY <1>1 DEF Init, Owned
  <2> QED
    BY <2>1, <2>2, <2>3 DEF Shape
<1> QED
  BY <1>1, <1>2, <1>3 DEF Built, Init, MemBounded

(* What the invariant gives to nn_msgqueue_recv: the slot at in is a message *)
(* when count is not 0.                                                      *)
LEMMA FrontIsMessage ==
    ASSUME Built, in.chunk # NoChunk, count > 0
    PROVE  Oldest \in Msgs
<1> USE MsgQueueAssumption
<1>0. PICK last \in Nat : \E c \in [0..last -> live] : Chain(last, c) /\ Owned(last, c)
  BY DEF Built, Shape
<1>1. PICK c \in [0..last -> live] : Chain(last, c) /\ Owned(last, c)
  BY <1>0
<1>2. CASE last = 0
  <2>1. out.pos > in.pos
    BY <1>1, <1>2 DEF Chain, Built, TypeOK, Slots
  <2> QED
    BY <1>1, <1>2, <2>1 DEF Chain, Built, TypeOK, Oldest, Slots
<1>3. CASE last > 0
  BY <1>1, <1>3 DEF Chain, Built, TypeOK, Oldest, Slots
<1> QED
  BY <1>2, <1>3

(* ... and it is the first of the queue.                                   *)
LEMMA FirstIsOldest ==
    ASSUME Built, Recv
    PROVE  Contents[1] = Oldest
<1>1. PICK last \in Nat : \E c \in [0..last -> live] : Chain(last, c) /\ Owned(last, c)
  BY DEF Built, Shape, Recv, Usable
<1>2. PICK c \in [0..last -> live] : Chain(last, c)
  BY <1>1
<1>3. in.pos \in Slots /\ 1 \in 1..count /\ PlacesRight
  BY AtPlace DEF Built, TypeOK, Recv
<1>4. 0 \in 0..last /\ in.pos + 1 - 1 = 0 * Granularity + in.pos
  BY <1>3, MsgQueueAssumption DEF Slots
<1>5. Contents[1] = slot[c[0]][in.pos]
  BY <1>2, <1>3, <1>4 DEF PlacesRight
<1> QED
  BY <1>2, <1>5 DEF Chain, Oldest

(* nn_msgqueue_send inside a chunk: the chain stays, one slot longer.      *)
LEMMA SendInChunk ==
    ASSUME Built, NEW m \in Msgs, Send(m), out.pos + 1 < Granularity
    PROVE  /\ Built'
           /\ \A i \in 1..count : Contents'[i] = Contents[i]
           /\ Contents'[count + 1] = m
<1> USE MsgQueueAssumption
<1>0. PICK last \in Nat : \E c \in [0..last -> live] : Chain(last, c) /\ Owned(last, c)
  BY DEF Built, Shape, Send, Usable
<1>1. PICK c \in [0..last -> live] : Chain(last, c) /\ Owned(last, c)
  BY <1>0
<1>2. /\ count \in Nat /\ mem \in Int /\ m.size \in Nat
      /\ in.pos \in Slots /\ out.pos \in Slots
      /\ in \in [chunk : Chunks \cup {NoChunk}, pos : Slots]
      /\ out \in [chunk : Chunks \cup {NoChunk}, pos : Slots]
      /\ slot \in [Chunks -> [Slots -> Msgs \cup {Garbage}]]
      /\ live \subseteq Chunks
  BY DEF Built, TypeOK, Msgs
<1>3. /\ count' = count + 1 /\ mem' = mem + m.size
      /\ slot' = [slot EXCEPT ![out.chunk][out.pos] = m]
      /\ out' = [out EXCEPT !.pos = @ + 1]
      /\ UNCHANGED <<in, cache, link, live>>
      /\ broken' = (out.chunk \notin live)
      /\ in.chunk # NoChunk
  BY DEF Send, Usable
<1>4. out.chunk = c[last] /\ out.chunk \in live /\ out.chunk \in Chunks
  BY <1>1, <1>2 DEF Chain
<1>5. out'.chunk = out.chunk /\ out'.pos = out.pos + 1 /\ out'.pos \in Slots
  BY <1>2, <1>3 DEF Slots
<1>6. TypeOK'
  <2>1. slot' \in [Chunks -> [Slots -> Msgs \cup {Garbage}]]
    BY <1>2, <1>3
  <2>2. out' \in [chunk : Chunks \cup {NoChunk}, pos : Slots]
    BY <1>2, <1>3, <1>5
  <2> QED
    BY <1>2, <1>3, <2>1, <2>2 DEF Built, TypeOK
<1>7. MemBounded'
  BY <1>2, <1>3 DEF MemBounded, Send, Full, Built
<1>8. Chain(last, c)'
  <2>1. count' = last * Granularity + out'.pos - in'.pos
    BY <1>1, <1>2, <1>3, <1>5, Multiples, SMTT(60) DEF Chain, Slots
  <2>2. ASSUME NEW i \in 0..last, NEW p \in Slots,
               i > 0 \/ p >= in'.pos, i < last \/ p < out'.pos
        PROVE  slot'[c[i]][p] \in Msgs
    <3>1. CASE i = last /\ p = out.pos
      BY <1>2, <1>3, <1>4, <3>1
    <3>2. CASE i = last /\ p # out.pos
      <4>1. p < out.pos
        BY <1>2, <1>5, <2>2, <3>2 DEF Slots
      <4>2. slot[c[i]][p] \in Msgs
        BY <1>1, <1>3, <2>2, <4>1 DEF Chain
      <4> QED
        BY <1>2, <1>3, <1>4, <3>2, <4>2
    <3>3. CASE i # last
      <4>1. slot[c[i]][p] \in Msgs
        BY <1>1, <1>3, <2>2, <3>3 DEF Chain
      <4>2. c[i] # out.chunk
        BY <1>1, <1>4, <3>3 DEF Chain
      <4> QED
        BY <1>2, <1>3, <4>1, <4>2
    <3> QED
      BY <3>1, <3>2, <3>3
  <2> QED
    BY <1>1, <1>3, <1>5, <2>1, <2>2 DEF Chain
<1>9. Shape'
  BY <1>1, <1>3, <1>8 DEF Shape, Owned
<1>10. Built'
  BY <1>3, <1>4, <1>6, <1>7, <1>9 DEF Built
<1>11. PlacesRight' /\ c \in [0..last -> live']
  BY <1>3, <1>6, AtPlaceNext
<1>12. ASSUME NEW i \in 1..count PROVE Contents'[i] = Contents[i]
  <2>1. PICK k \in 0..last, p \in Slots :
              /\ in.pos + i - 1 = k * Granularity + p
              /\ k > 0 \/ p >= in.pos
              /\ k < last \/ p < out.pos
              /\ Contents[i] = slot[c[k]][p]
    BY <1>1, Placed DEF Built
  <2>2. i \in 1..count' /\ in'.pos + i - 1 = k * Granularity + p
    BY <1>2, <1>3, <2>1
  <2>3. Contents'[i] = slot'[c[k]][p]
    BY <1>8, <1>11, <2>2 DEF PlacesRight
  <2>4. c[k] # out.chunk \/ p # out.pos
    BY <1>1, <1>2, <1>4, <2>1 DEF Chain, Slots
  <2>5. c[k] \in Chunks
    BY <1>2
  <2> QED
    BY <1>2, <1>3, <1>4, <2>1, <2>3, <2>4, <2>5
<1>13. Contents'[count + 1] = m
  <2>1. last * Granularity \in Nat /\ in.pos \in Int /\ out.pos \in Int /\ last \in 0..last
    BY <1>2, Multiples DEF Slots
  <2>2. in.pos + (count + 1) - 1 = last * Granularity + out.pos
    BY <1>1, <1>2, <2>1 DEF Chain
  <2>3. count + 1 \in 1..count' /\ in'.pos + (count + 1) - 1 = last * Granularity + out.pos
    BY <1>2, <1>3, <2>2
  <2>4. \A k \in 0..last, p \in Slots, i \in 1..count' :
           in'.pos + i - 1 = k * Granularity + p => Contents'[i] = slot'[c[k]][p]
    BY <1>8, <1>11 DEF PlacesRight
  <2>5. Contents'[count + 1] = slot'[c[last]][out.pos]
    BY <1>2, <2>1, <2>3, <2>4
  <2> QED
    BY <1>2, <1>3, <1>4, <2>5
<1> QED
  BY <1>10, <1>12, <1>13

(* nn_msgqueue_send into the last slot of a chunk: the cached chunk, or a  *)
(* new one, becomes the end of the chain.                                  *)
LEMMA SendNewChunk ==
    ASSUME Built, NEW m \in Msgs, Send(m), ~(out.pos + 1 < Granularity)
    PROVE  /\ Built'
           /\ \A i \in 1..count : Contents'[i] = Contents[i]
           /\ Contents'[count + 1] = m
<1> USE MsgQueueAssumption
<1>0. PICK last \in Nat : \E c \in [0..last -> live] : Chain(last, c) /\ Owned(last, c)
  BY DEF Built, Shape, Send, Usable
<1>1. PICK c \in [0..last -> live] : Chain(last, c) /\ Owned(last, c)
  BY <1>0
<1>2. /\ count \in Nat /\ mem \in Int /\ m.size \in Nat
      /\ in.pos \in Slots /\ out.pos \in Slots
      /\ in \in [chunk : Chunks \cup {NoChunk}, pos : Slots]
      /\ slot \in [Chunks -> [Slots -> Msgs \cup {Garbage}]]
      /\ link \in [Chunks -> Chunks \cup {NoChunk, Garbage}]
      /\ live \subseteq Chunks /\ cache \in live \cup {NoChunk}
  BY DEF Built, TypeOK, Msgs
<1>3. PICK d \in NextChunks :
          /\ link' = [link EXCEPT ![out.chunk] = d]
          /\ out' = [chunk |-> d, pos |-> 0]
          /\ cache' = NoChunk
          /\ live' = live \cup {d}
  BY DEF Send, CacheUsed
<1>4. /\ count' = count + 1 /\ mem' = mem + m.size
      /\ slot' = [slot EXCEPT ![out.chunk][out.pos] = m]
      /\ UNCHANGED in
      /\ broken' = (out.chunk \notin live)
      /\ in.chunk # NoChunk
  BY DEF Send, Usable
<1>5. out.chunk = c[last] /\ out.chunk \in live /\ out.pos = Granularity - 1
  <2>1. out.chunk = c[last] /\ last \in 0..last
    BY <1>1 DEF Chain
  <2>2. out.pos \in Int /\ out.pos <= Granularity - 1 /\ Granularity \in Int
    BY <1>2 DEF Slots
  <2> QED
    BY <2>1, <2>2
<1>6. d \in Chunks /\ \A i \in 0..last : c[i] # d
  BY <1>1, <1>2 DEF Chain, NextChunks
<1>7. TypeOK'
  <2>1. slot' \in [Chunks -> [Slots -> Msgs \cup {Garbage}]]
    BY <1>2, <1>4
  <2>2. out' \in [chunk : Chunks \cup {NoChunk}, pos : Slots]
    BY <1>3, <1>6 DEF Slots
  <2>3. link' \in [Chunks -> Chunks \cup {NoChunk, Garbage}]
    BY <1>2, <1>3, <1>6
  <2>4. broken' \in BOOLEAN
    BY <1>4, Zenon
  <2> QED
    BY <1>2, <1>3, <1>4, <1>6, <2>1, <2>2, <2>3, <2>4 DEF TypeOK
<1>8. MemBounded'
  BY <1>2, <1>4 DEF MemBounded, Send, Full, Built
<1> DEFINE e == [i \in 0..last + 1 |-> IF i = last + 1 THEN d ELSE c[i]]
<1>9. e \in [0..last + 1 -> live']
  BY <1>3
<1>10. Chain(last + 1, e)'
  <2> HIDE DEF e
  <2>e. /\ \A i \in 0..last : e[i] = c[i] /\ i \in 0..last + 1
        /\ e[last + 1] = d
    BY DEF e
  <2>1. e[0] = in'.chunk /\ e[last + 1] = out'.chunk
    BY <1>1, <1>3, <1>4, <2>e DEF Chain
  <2>2. \A i, j \in 0..last + 1 : e[i] = e[j] => i = j
    <3>1. \A i, j \in 0..last : c[i] = c[j] => i = j
      BY <1>1 DEF Chain
    <3>2. \A i \in 0..last + 1 : i \in 0..last \/ i = last + 1
      OBVIOUS
    <3> QED
      BY <1>6, <2>e, <3>1, <3>2
  <2>3. \A i \in 0..last + 1 : e[i] # cache'
    <3>1. \A i \in 0..last + 1 : e[i] \in live'
      BY <1>9
    <3>2. live' \subseteq Chunks
      BY <1>2, <1>3, <1>6
    <3> QED
      BY <1>3, <3>1, <3>2
  <2>4. ASSUME NEW i \in 0..last + 1, i < last + 1
        PROVE  link'[e[i]] = e[i + 1]
    <3>1. CASE i = last
      BY <1>2, <1>3, <1>5, <2>e, <3>1
    <3>2. CASE i < last
      <4>1. c[i] # out.chunk /\ link[c[i]] = c[i + 1] /\ c[i] \in Chunks
        BY <1>1, <1>2, <1>5, <3>2 DEF Chain
      <4> QED
        BY <1>2, <1>3, <2>e, <3>2, <4>1
    <3> QED
      BY <2>4, <3>1, <3>2
  <2>5. count' = (last + 1) * Granularity + out'.pos - in'.pos
    BY <1>1, <1>2, <1>3, <1>4, <1>5, Multiples DEF Chain, Slots
  <2>6. ASSUME NEW i \in 0..last + 1, NEW p \in Slots,
               i > 0 \/ p >= in'.pos, i < last + 1 \/ p < out'.pos
        PROVE  slot'[e[i]][p] \in Msgs
    <3>1. i \in 0..last /\ e[i] = c[i]
      BY <1>3, <2>e, <2>6 DEF Slots
    <3>2. CASE i = last /\ p = out.pos
      BY <1>2, <1>4, <1>5, <3>1, <3>2
    <3>3. CASE i = last /\ p # out.pos
      <4>1. p < out.pos
        BY <1>5, <3>3 DEF Slots
      <4>2. slot[c[i]][p] \in Msgs
        BY <1>1, <1>4, <2>6, <3>1, <4>1 DEF Chain
      <4> QED
        BY <1>2, <1>4, <1>5, <3>1, <3>3, <4>2
    <3>4. CASE i # last
      <4>1. slot[c[i]][p] \in Msgs /\ c[i] # out.chunk
        BY <1>1, <1>4, <1>5, <2>6, <3>1, <3>4 DEF Chain
      <4> QED
        BY <1>2, <1>4, <3>1, <4>1
    <3> QED
      BY <3>2, <3>3, <3>4
  <2> QED
    BY <2>1, <2>2, <2>3, <2>4, <2>5, <2>6 DEF Chain
<1>11. Shape'
  <2>1. Owned(last + 1, e)'
    <3>1. live = {c[i] : i \in 0..last} \cup ({cache} \ {NoChunk})
      BY <1>1 DEF Owned
    <3>2. {e[i] : i \in 0..last + 1} = {c[i] : i \in 0..last} \cup {d}
      <4>1. \A i \in 0..last : e[i] = c[i] /\ i \in 0..last + 1
        OBVIOUS
      <4>2. e[last + 1] = d /\ last + 1 \in 0..last + 1
        OBVIOUS
      <4>3. \A i \in 0..last + 1 : i \in 0..last \/ i = last + 1
        OBVIOUS
      <4> HIDE DEF e
      <4> QED
        BY <4>1, <4>2, <4>3
    <3>3. cache = NoChunk \/ cache = d
      BY DEF NextChunks
    <3> HIDE DEF e
    <3>4. live' = {e[i] : i \in 0..last + 1} \cup ({cache'} \ {NoChunk})
      BY <1>3, <1>6, <3>1, <3>2, <3>3
    <3> QED
      BY <3>4 DEF Owned
  <2> HIDE DEF e
  <2> QED
    BY <1>9, <1>10, <2>1 DEF Shape
<1>12. Built'
  BY <1>3, <1>4, <1>5, <1>7, <1>8, <1>11 DEF Built
<1>13. PlacesRight'
  BY <1>7, AtPlaceNext
<1>14. \A k \in 0..last : e[k] = c[k] /\ k \in 0..last + 1
  OBVIOUS
<1>15. last + 1 \in Nat
  OBVIOUS
<1> HIDE DEF e
<1>16. ASSUME NEW k \in 0..last, NEW p \in Slots, NEW i \in 1..count', in'.pos + i - 1 = k * Granularity + p
       PROVE  Contents'[i] = slot'[c[k]][p]
  <2>1. Contents'[i] = slot'[e[k]][p]
    BY <1>9, <1>10, <1>13, <1>14, <1>15, <1>16 DEF PlacesRight
  <2> QED
    BY <1>14, <2>1
<1>17. ASSUME NEW i \in 1..count PROVE Contents'[i] = Contents[i]
  <2>1. PICK k \in 0..last, p \in Slots :
              /\ in.pos + i - 1 = k * Granularity + p
              /\ k > 0 \/ p >= in.pos
              /\ k < last \/ p < out.pos
              /\ Contents[i] = slot[c[k]][p]
    BY <1>1, Placed DEF Built
  <2>2. i \in 1..count' /\ in'.pos + i - 1 = k * Granularity + p
    BY <1>2, <1>4, <2>1
  <2>3. Contents'[i] = slot'[c[k]][p]
    BY <1>16, <2>2
  <2>4. c[k] # out.chunk \/ p # out.pos
    BY <1>1, <1>2, <1>5, <2>1 DEF Chain, Slots
  <2>5. c[k] \in Chunks
    BY <1>2
  <2> QED
    BY <1>2, <1>4, <1>5, <2>1, <2>3, <2>4, <2>5
<1>18. Contents'[count + 1] = m
  <2>1. last * Granularity \in Nat /\ in.pos \in Int /\ out.pos \in Int /\ last \in 0..last
    BY <1>2, Multiples DEF Slots
  <2>2. in.pos + (count + 1) - 1 = last * Granularity + out.pos
    BY <1>1, <1>2, <2>1 DEF Chain
  <2>3. count + 1 \in 1..count' /\ in'.pos + (count + 1) - 1 = last * Granularity + out.pos
    BY <1>2, <1>4, <2>2
  <2>4. Contents'[count + 1] = slot'[c[last]][out.pos]
    BY <1>2, <1>16, <2>1, <2>3, ZenonT(60)
  <2> QED
    BY <1>2, <1>4, <1>5, <2>4
<1> QED
  BY <1>12, <1>17, <1>18

(* nn_msgqueue_recv inside a chunk. *)
LEMMA RecvInChunk ==
    ASSUME Built, Recv, ~AtEnd(in.pos + 1)
    PROVE  /\ Built' /\ Contents[1] = Oldest /\ in'.chunk # NoChunk
           /\ \A i \in 1..count - 1 : Contents'[i] = Contents[i + 1]
<1> USE MsgQueueAssumption
<1>0. PICK last \in Nat : \E c \in [0..last -> live] : Chain(last, c) /\ Owned(last, c)
  BY DEF Built, Shape, Recv, Usable
<1>1. PICK c \in [0..last -> live] : Chain(last, c) /\ Owned(last, c)
  BY <1>0
<1>2. /\ count \in Nat /\ mem \in Int
      /\ in.pos \in Slots /\ out.pos \in Slots
      /\ in \in [chunk : Chunks \cup {NoChunk}, pos : Slots]
      /\ slot \in [Chunks -> [Slots -> Msgs \cup {Garbage}]]
      /\ link \in [Chunks -> Chunks \cup {NoChunk, Garbage}]
      /\ live \subseteq Chunks
  BY DEF Built, TypeOK
<1>3. /\ count > 0 /\ count' = count - 1 /\ mem' = mem - Oldest.size
      /\ slot' = [slot EXCEPT ![in.chunk][in.pos] = Garbage]
      /\ in' = [in EXCEPT !.pos = @ + 1]
      /\ link' = [x \in Chunks |-> IF x \in live' THEN link[x] ELSE Garbage]
      /\ UNCHANGED <<out, cache, live>>
      /\ broken' = (in.chunk \notin live)
      /\ in.chunk # NoChunk
  BY DEF Recv, Usable
<1>4. Oldest.size \in Nat
  BY <1>3, FrontIsMessage DEF Msgs
<1>5. in.chunk = c[0] /\ in.chunk \in live /\ 0 \in 0..last
  BY <1>1 DEF Chain
<1>6. in'.chunk = in.chunk /\ in'.pos = in.pos + 1 /\ in'.pos \in Slots
  BY <1>2, <1>3 DEF Slots, AtEnd
<1>7. TypeOK'
  <2>1. slot' \in [Chunks -> [Slots -> Msgs \cup {Garbage}]]
    BY <1>2, <1>3
  <2>2. in' \in [chunk : Chunks \cup {NoChunk}, pos : Slots]
    BY <1>2, <1>3, <1>6
  <2>3. link' \in [Chunks -> Chunks \cup {NoChunk, Garbage}]
    BY <1>2, <1>3
  <2> QED
    BY <1>2, <1>3, <1>4, <2>1, <2>2, <2>3 DEF Built, TypeOK
<1>8. MemBounded'
  BY <1>2, <1>3, <1>4 DEF MemBounded, Built
<1>9. Chain(last, c)'
  <2>1. \A i \in 0..last : link'[c[i]] = link[c[i]]
    BY <1>2, <1>3
  <2>2. count' = last * Granularity + out'.pos - in'.pos
    <3>1. count = last * Granularity + out.pos - in.pos /\ out'.pos = out.pos
      BY <1>1, <1>3 DEF Chain
    <3>2. last * Granularity \in Nat
      BY Multiples
    <3>3. in.pos \in Int /\ out.pos \in Int /\ count \in Int
      BY <1>2 DEF Slots
    <3>4. count' = count - 1 /\ in'.pos = in.pos + 1
      BY <1>3, <1>6
    <3> QED
      BY <3>1, <3>2, <3>3, <3>4
  <2>3. ASSUME NEW i \in 0..last, NEW p \in Slots,
               i > 0 \/ p >= in'.pos, i < last \/ p < out'.pos
        PROVE  slot'[c[i]][p] \in Msgs
    <3>1. slot[c[i]][p] \in Msgs
      BY <1>1, <1>2, <1>3, <1>6, <2>3, SMTT(60) DEF Chain, Slots
    <3>2. CASE i = 0
      <4>1. p # in.pos
        BY <1>2, <1>6, <2>3, <3>2 DEF Slots
      <4> QED
        BY <1>2, <1>3, <1>5, <3>1, <3>2, <4>1
    <3>3. CASE i # 0
      <4>1. c[i] # in.chunk
        BY <1>1, <1>5, <3>3 DEF Chain
      <4> QED
        BY <1>2, <1>3, <3>1, <4>1
    <3> QED
      BY <3>2, <3>3
  <2> QED
    BY <1>1, <1>3, <1>6, <2>1, <2>2, <2>3 DEF Chain
<1>10. Shape'
  BY <1>1, <1>3, <1>9 DEF Shape, Owned
<1>11. Built'
  BY <1>3, <1>5, <1>6, <1>7, <1>8, <1>10 DEF Built
<1>12. PlacesRight' /\ c \in [0..last -> live']
  BY <1>3, <1>7, AtPlaceNext
<1>13. ASSUME NEW i \in 1..count - 1 PROVE Contents'[i] = Contents[i + 1]
  <2>1. i + 1 \in 1..count
    BY <1>2
  <2>2. PICK k \in 0..last, p \in Slots :
              /\ in.pos + (i + 1) - 1 = k * Granularity + p
              /\ k > 0 \/ p >= in.pos
              /\ k < last \/ p < out.pos
              /\ Contents[i + 1] = slot[c[k]][p]
    BY <1>1, <2>1, Placed DEF Built
  <2>3. i \in 1..count' /\ in'.pos + i - 1 = k * Granularity + p
    <3>1. in.pos \in Int
      BY <1>2 DEF Slots
    <3> QED
      BY <1>2, <1>3, <1>6, <2>2, <3>1
  <2>4. Contents'[i] = slot'[c[k]][p]
    BY <1>9, <1>12, <2>3 DEF PlacesRight
  <2>5. c[k] # in.chunk \/ p # in.pos
    <3>1. CASE k = 0
      <4>1. k * Granularity = 0
        BY <3>1
      <4>2. in.pos \in Int /\ p \in Int
        BY <1>2 DEF Slots
      <4> QED
        BY <2>2, <4>1, <4>2
    <3>2. CASE k # 0
      BY <1>1, <1>5, <3>2 DEF Chain
    <3> QED
      BY <3>1, <3>2
  <2>6. c[k] \in Chunks
    BY <1>2
  <2> QED
    BY <1>2, <1>3, <2>2, <2>4, <2>5, <2>6
<1>14. Contents[1] = Oldest
  BY FirstIsOldest
<1> QED
  BY <1>3, <1>6, <1>11, <1>13, <1>14

(* nn_msgqueue_recv of the last slot of a chunk: there is a next chunk, in *)
(* moves to it, and the chunk left behind is cached or freed.              *)
LEMMA RecvNewChunk ==
    ASSUME Built, Recv, AtEnd(in.pos + 1)
    PROVE  /\ Built' /\ Contents[1] = Oldest /\ in'.chunk # NoChunk
           /\ \A i \in 1..count - 1 : Contents'[i] = Contents[i + 1]
<1> USE MsgQueueAssumption
<1>0. PICK last \in Nat : \E c \in [0..last -> live] : Chain(last, c) /\ Owned(last, c)
  BY DEF Built, Shape, Recv, Usable
<1>1. PICK c \in [0..last -> live] : Chain(last, c) /\ Owned(last, c)
  BY <1>0
<1>2. /\ count \in Nat /\ mem \in Int
      /\ in.pos \in Int /\ out.pos \in Int /\ 0 <= out.pos /\ out.pos < Granularity
      /\ out \in [chunk : Chunks \cup {NoChunk}, pos : Slots]
      /\ slot \in [Chunks -> [Slots -> Msgs \cup {Garbage}]]
      /\ link \in [Chunks -> Chunks \cup {NoChunk, Garbage}]
      /\ live \subseteq Chunks /\ cache \in live \cup {NoChunk}
  BY DEF Built, TypeOK, Slots
<1>3. /\ count > 0 /\ count' = count - 1 /\ mem' = mem - Oldest.size
      /\ slot' = [slot EXCEPT ![in.chunk][in.pos] = Garbage]
      /\ in' = [chunk |-> link[in.chunk], pos |-> 0]
      /\ cache' = IF cache = NoChunk THEN in.chunk ELSE cache
      /\ live' = IF cache = NoChunk THEN live ELSE live \ {in.chunk}
      /\ link' = [x \in Chunks |-> IF x \in live' THEN link[x] ELSE Garbage]
      /\ UNCHANGED out
      /\ broken' = (in.chunk \notin live)
      /\ in.chunk # NoChunk
  BY DEF Recv, Usable, FreedOnly
<1>4. Oldest.size \in Nat
  BY <1>3, FrontIsMessage DEF Msgs
<1>5. in.chunk = c[0] /\ in.chunk \in live /\ in.pos + 1 = Granularity
  <2>1. in.chunk = c[0] /\ 0 \in 0..last
    BY <1>1 DEF Chain
  <2> QED
    BY <2>1 DEF AtEnd
<1>6. last > 0
  <2>1. count = last * Granularity + out.pos - in.pos
    BY <1>1 DEF Chain
  <2>2. last = 0 => last * Granularity = 0
    OBVIOUS
  <2> QED
    BY <1>2, <1>3, <1>5, <2>1, <2>2
<1>7. last - 1 \in Nat /\ (last - 1) + 1 = last
  BY <1>6
<1> DEFINE e == [i \in 0..last - 1 |-> c[i + 1]]
<1>8. \A i \in 0..last - 1 : /\ i \in 0..last /\ i + 1 \in 0..last
                            /\ e[i] = c[i + 1] /\ e[i] \in live /\ e[i] # in.chunk
  BY <1>1, <1>5, <1>7 DEF Chain
<1>9. in'.chunk = e[0] /\ in'.pos = 0
  <2>1. link[c[0]] = c[1]
    BY <1>1, <1>6 DEF Chain
  <2> QED
    BY <1>3, <1>5, <1>7, <2>1
<1>10. e \in [0..last - 1 -> live']
  BY <1>3, <1>8
<1>11. cache' \in live' /\ live' \subseteq Chunks /\ \A i \in 0..last - 1 : e[i] # cache'
  <2>1. \A i \in 0..last : c[i] # cache
    BY <1>1 DEF Chain
  <2>2. 0 \in 0..last
    OBVIOUS
  <2>3. CASE cache = NoChunk
    BY <1>2, <1>3, <1>5, <1>8, <2>3
  <2>4. CASE cache # NoChunk
    BY <1>2, <1>3, <1>5, <1>8, <2>1, <2>2, <2>4
  <2> QED
    BY <2>3, <2>4
<1>12. TypeOK'
  <2>1. slot' \in [Chunks -> [Slots -> Msgs \cup {Garbage}]]
    BY <1>2, <1>3
  <2>2. in' \in [chunk : Chunks \cup {NoChunk}, pos : Slots]
    <3>1. e[0] \in Chunks
      BY <1>2, <1>7, <1>8
    <3>2. 0 \in Slots
      BY DEF Slots
    <3> QED
      BY <1>3, <1>9, <3>1, <3>2
  <2>3. link' \in [Chunks -> Chunks \cup {NoChunk, Garbage}]
    BY <1>2, <1>3
  <2>4. broken' \in BOOLEAN
    BY <1>3, Zenon
  <2>5. count' \in Nat /\ mem' \in Int
    BY <1>2, <1>3, <1>4
  <2> QED
    BY <1>2, <1>3, <1>11, <2>1, <2>2, <2>3, <2>4, <2>5 DEF TypeOK
<1>13. MemBounded'
  BY <1>2, <1>3, <1>4 DEF MemBounded, Built
<1>14. Chain(last - 1, e)'
  <2> HIDE DEF e
  <2>1. e[last - 1] = out'.chunk
    <3>1. e[last - 1] = c[(last - 1) + 1]
      BY <1>7, <1>8
    <3> QED
      BY <1>1, <1>3, <1>7, <3>1 DEF Chain
  <2>2. \A i, j \in 0..last - 1 : e[i] = e[j] => i = j
    BY <1>1, <1>8 DEF Chain
  <2>3. ASSUME NEW i \in 0..last - 1, i < last - 1
        PROVE  link'[e[i]] = e[i + 1]
    <3>1. i + 1 \in 0..last - 1 /\ i + 1 < last
      BY <1>7, <2>3
    <3>2. link[c[i + 1]] = c[(i + 1) + 1]
      BY <1>1, <1>8, <3>1 DEF Chain
    <3>3. e[i] \in live' /\ e[i] \in Chunks
      BY <1>3, <1>8, <1>11
    <3> QED
      BY <1>3, <1>8, <3>1, <3>2, <3>3
  <2>4. count' = (last - 1) * Granularity + out'.pos - in'.pos
    <3>1. count = last * Granularity + out.pos - in.pos /\ out'.pos = out.pos
      BY <1>1, <1>3 DEF Chain
    <3>2. PICK less \in Nat : less = (last - 1) * Granularity
      BY <1>7, Multiples
    <3>3. last * Granularity = less + Granularity
      BY <1>7, <3>2, Multiples
    <3>4. /\ in.pos \in Int /\ out.pos \in Int /\ count \in Int /\ Granularity \in Int
          /\ count' = count - 1 /\ in.pos + 1 = Granularity /\ in'.pos = 0
      BY <1>2, <1>3, <1>5, <1>9
    <3>5. count = less + Granularity + out.pos - in.pos /\ out'.pos = out.pos
      BY <3>1, <3>3
    <3>6. PICK i \in Int, o \in Int, k \in Int : i = in.pos /\ o = out.pos /\ k = count
      BY <3>4
    <3>7. k = less + Granularity + o - i /\ i + 1 = Granularity
      BY <3>4, <3>5, <3>6
    <3>8. count' = k - 1 /\ out'.pos = o /\ in'.pos = 0
      BY <3>4, <3>5, <3>6
    <3>9. k - 1 = less + o - 0
      BY <3>4, <3>7
    <3> QED
      BY <3>2, <3>8, <3>9
  <2>5. ASSUME NEW i \in 0..last - 1, NEW p \in Slots,
               i > 0 \/ p >= in'.pos, i < last - 1 \/ p < out'.pos
        PROVE  slot'[e[i]][p] \in Msgs
    <3>1. i + 1 \in 0..last /\ i + 1 > 0 /\ (i + 1 < last \/ p < out.pos)
      BY <1>3, <1>7, <2>5
    <3>2. slot[c[i + 1]][p] \in Msgs
      BY <1>1, <3>1 DEF Chain
    <3> QED
      BY <1>2, <1>3, <1>8, <3>2
  <2> QED
    BY <1>9, <1>11, <2>1, <2>2, <2>3, <2>4, <2>5 DEF Chain
<1>15. Shape'
  <2>1. Owned(last - 1, e)'
    <3>1. live = {c[i] : i \in 0..last} \cup ({cache} \ {NoChunk})
      BY <1>1 DEF Owned
    <3>2. {c[i] : i \in 0..last} = {e[i] : i \in 0..last - 1} \cup {in.chunk}
      <4>1. \A i \in 0..last : i = 0 \/ (i - 1 \in 0..last - 1 /\ (i - 1) + 1 = i)
        BY <1>7
      <4>2. \A i \in 0..last - 1 : i + 1 \in 0..last /\ e[i] = c[i + 1]
        BY <1>8
      <4>3. c[0] = in.chunk /\ 0 \in 0..last
        BY <1>5
      <4> HIDE DEF e
      <4>4. ASSUME NEW x \in {c[i] : i \in 0..last} PROVE x \in {e[i] : i \in 0..last - 1} \cup {in.chunk}
        <5>1. PICK i \in 0..last : x = c[i]
          BY <4>4
        <5>2. CASE i = 0
          BY <4>3, <5>1, <5>2
        <5>3. CASE i # 0
          <6>1. i - 1 \in 0..last - 1 /\ e[i - 1] = c[(i - 1) + 1] /\ (i - 1) + 1 = i
            BY <4>1, <4>2, <5>3
          <6> QED
            BY <5>1, <6>1
        <5> QED
          BY <5>2, <5>3
      <4>5. ASSUME NEW x \in {e[i] : i \in 0..last - 1} \cup {in.chunk} PROVE x \in {c[i] : i \in 0..last}
        BY <4>2, <4>3, <4>5
      <4> QED
        BY <4>4, <4>5
    <3>3. \A i \in 0..last - 1 : e[i] # in.chunk
      BY <1>8
    <3>4. in.chunk # NoChunk /\ in.chunk # cache
      BY <1>1, <1>3, <1>5 DEF Chain
    <3> HIDE DEF e
    <3>5. live' = {e[i] : i \in 0..last - 1} \cup ({cache'} \ {NoChunk})
      <4>1. CASE cache = NoChunk
        BY <1>3, <3>1, <3>2, <3>4, <4>1
      <4>2. CASE cache # NoChunk
        BY <1>3, <3>1, <3>2, <3>3, <3>4, <4>2
      <4> QED
        BY <4>1, <4>2
    <3> QED
      BY <3>5 DEF Owned
  <2> HIDE DEF e
  <2> QED
    BY <1>7, <1>10, <1>14, <2>1 DEF Shape
<1>16. in'.chunk # NoChunk
  <2>1. e[0] \in live
    BY <1>7, <1>8
  <2> HIDE DEF e
  <2> QED
    BY <1>2, <1>9, <2>1
<1>17. \A i \in 0..last - 1 : e[i] = c[i + 1]
  BY <1>8
<1> HIDE DEF e
<1>18. Built'
  BY <1>3, <1>5, <1>11, <1>12, <1>13, <1>15, <1>16 DEF Built
<1>19. PlacesRight'
  BY <1>12, AtPlaceNext
<1>20. ASSUME NEW i \in 1..count - 1 PROVE Contents'[i] = Contents[i + 1]
  <2>1. i + 1 \in 1..count
    BY <1>2
  <2>2. PICK k \in 0..last, p \in Slots :
              /\ in.pos + (i + 1) - 1 = k * Granularity + p
              /\ k > 0 \/ p >= in.pos
              /\ k < last \/ p < out.pos
              /\ Contents[i + 1] = slot[c[k]][p]
    BY <1>1, <2>1, Placed DEF Built
  <2>3. k # 0
    <3>1. k = 0 => k * Granularity = 0
      OBVIOUS
    <3> QED
      BY <1>2, <1>5, <2>2, <3>1 DEF Slots
  <2>4. k - 1 \in 0..last - 1 /\ k - 1 \in Nat /\ (k - 1) + 1 = k
    BY <2>3
  <2>5. k * Granularity = (k - 1) * Granularity + Granularity /\ (k - 1) * Granularity \in Nat
    BY <2>4, Multiples
  <2>6. i \in 1..count' /\ in'.pos + i - 1 = (k - 1) * Granularity + p
    <3>1. PICK less \in Nat : less = (k - 1) * Granularity
      BY <2>5
    <3>2. in.pos + (i + 1) - 1 = less + Granularity + p
      BY <2>2, <2>5, <3>1
    <3>3. count' = count - 1 /\ in.pos + 1 = Granularity /\ in'.pos = 0 /\ in.pos \in Int /\ count \in Int
      BY <1>2, <1>3, <1>5, <1>9
    <3>4. p \in Int /\ Granularity \in Int
      BY DEF Slots
    <3>5. i \in 1..count' /\ in'.pos + i - 1 = less + p
      BY <3>2, <3>3, <3>4
    <3> QED
      BY <3>1, <3>5
  <2>7. \A h \in 0..last - 1, q \in Slots, j \in 1..count' :
           in'.pos + j - 1 = h * Granularity + q => Contents'[j] = slot'[e[h]][q]
    BY <1>7, <1>10, <1>14, <1>19 DEF PlacesRight
  <2>8. Contents'[i] = slot'[e[k - 1]][p]
    <3>1. \E h \in 0..last - 1 : h = k - 1
      BY <2>4
    <3> QED
      BY <2>6, <2>7, <3>1
  <2>9. e[k - 1] = c[k] /\ c[k] # in.chunk /\ c[k] \in Chunks
    BY <1>1, <1>2, <1>5, <1>17, <2>3, <2>4 DEF Chain
  <2> QED
    BY <1>2, <1>3, <2>2, <2>8, <2>9
<1>21. Contents[1] = Oldest
  BY FirstIsOldest
<1> QED
  BY <1>16, <1>18, <1>20, <1>21

(* nn_msgqueue_term: with count = 0 the chain is one chunk, so line 43's   *)
(* assertion holds.                                                        *)
LEMMA TerminateKeeps ==
    ASSUME Built, Terminate
    PROVE  Built'
<1> USE MsgQueueAssumption
<1>0. PICK last \in Nat : \E c \in [0..last -> live] : Chain(last, c) /\ Owned(last, c)
  BY DEF Built, Shape, Terminate, Usable
<1>1. PICK c \in [0..last -> live] : Chain(last, c) /\ Owned(last, c)
  BY <1>0
<1>2. in.pos \in Int /\ out.pos \in Int /\ in.pos < Granularity /\ 0 <= out.pos
  BY DEF Built, TypeOK, Slots
<1>3. last = 0
  <2>1. 0 = last * Granularity + out.pos - in.pos
    BY <1>1 DEF Chain, Terminate
  <2>2. last * Granularity \in Nat /\ (last > 0 => last * Granularity >= Granularity)
    BY Multiples
  <2> QED
    BY <1>2, <2>1, <2>2
<1>4. broken' = FALSE
  BY <1>1, <1>3 DEF Chain, Terminate
<1>5. 0 \in Slots
  BY DEF Slots
<1>6. TypeOK'
  <2>1. /\ in' = [chunk |-> NoChunk, pos |-> 0] /\ out' = [chunk |-> NoChunk, pos |-> 0]
        /\ cache' = NoChunk /\ live' \subseteq live
        /\ link' = [x \in Chunks |-> Garbage]
        /\ UNCHANGED <<count, mem, slot>>
    BY DEF Terminate
  <2>2. /\ in' \in [chunk : Chunks \cup {NoChunk}, pos : Slots]
        /\ out' \in [chunk : Chunks \cup {NoChunk}, pos : Slots]
        /\ link' \in [Chunks -> Chunks \cup {NoChunk, Garbage}]
    BY <1>5, <2>1
  <2>3. broken' \in BOOLEAN
    BY <1>4, Zenon
  <2> QED
    BY <2>1, <2>2, <2>3 DEF TypeOK, Built
<1>7. live' = {} /\ count' = 0
  <2>1. live = {c[i] : i \in 0..0} \cup ({cache} \ {NoChunk}) /\ c[0] = in.chunk
    BY <1>1, <1>3 DEF Owned, Chain
  <2>2. {c[i] : i \in 0..0} = {c[0]}
    OBVIOUS
  <2> QED
    BY <2>1, <2>2 DEF Terminate
<1> QED
  BY <1>4, <1>6, <1>7 DEF Built, Terminate, MemBounded

(* Every step keeps the shape.                                             *)
LEMMA NextKeeps == Built /\ [Next]_vars => Built'
<1> SUFFICES ASSUME Built, [Next]_vars PROVE Built'
  OBVIOUS
<1>1. ASSUME NEW m \in Msgs, Send(m) PROVE Built'
  BY <1>1, SendInChunk, SendNewChunk
<1>2. CASE Recv
  BY <1>2, RecvInChunk, RecvNewChunk
<1>3. CASE Terminate
  BY <1>3, TerminateKeeps
<1>4. CASE UNCHANGED vars
  <2>1. UNCHANGED <<count, mem, in, out, cache, slot, link, live, broken>>
    BY <1>4 DEF vars
  <2>2. \A last \in Nat : \A c \in [0..last -> live] : (Chain(last, c)' <=> Chain(last, c)) /\ (Owned(last, c)' <=> Owned(last, c))
    BY <2>1 DEF Chain, Owned
  <2>3. Shape' <=> Shape
    BY <2>1, <2>2 DEF Shape
  <2> QED
    BY <2>1, <2>3 DEF Built, TypeOK, MemBounded
<1> QED
  BY <1>1, <1>2, <1>3, <1>4 DEF Next, Terminated

(* Where nothing changes the messages do not either.                       *)
LEMMA ContentsKept == UNCHANGED vars => Contents' = Contents
<1> SUFFICES ASSUME UNCHANGED vars PROVE Contents' = Contents
  OBVIOUS
<1>1. UNCHANGED <<count, in, slot, link>>
  BY DEF vars
<1>2. NthChunk' = NthChunk
  BY <1>1 DEF NthChunk, After
<1> QED
  BY <1>1, <1>2 DEF Contents

(* The chunks form a chain in every reachable state of nn_msgqueue.        *)
THEOREM Invariance == Spec => []Built
<1> QED
  BY ShapeInit, NextKeeps, PTL DEF Spec

(* nn_msgqueue_send and _recv keep every field in its type.                *)
THEOREM TypeCorrect == Spec => []TypeOK
<1>1. Built => TypeOK
  BY DEF Built
<1> QED
  BY <1>1, Invariance, PTL

(* The limit that nn_msgqueue_init was given holds after any sequence of   *)
(* calls: two messages or more stay below it.                              *)
THEOREM LimitHolds == Spec => []MemBounded
<1>1. Built => MemBounded
  BY DEF Built
<1> QED
  BY <1>1, Invariance, PTL

(* No call writes into, reads from or links a chunk that is NULL or was    *)
(* freed, and the assertion of nn_msgqueue_term holds.                     *)
THEOREM NoChunkMisused == Spec => []~broken
<1>1. Built => ~broken
  BY DEF Built
<1> QED
  BY <1>1, Invariance, PTL

(* The chunks of the queue are different and can be counted.               *)
Different(last, c) == \A i, j \in 0..last : c[i] = c[j] => i = j
(* The chunks a chain reaches.                                             *)
Reached(last, c)   == {c[i] : i \in 0..last}

(* A chain from 0 to last has last + 1 chunks.                             *)
LEMMA ChainLength ==
    ASSUME NEW last \in Nat, NEW V, NEW c \in [0..last -> V],
           Different(last, c), NEW R, R = Reached(last, c)
    PROVE  IsFiniteSet(R) /\ Cardinality(R) = last + 1
<1>1. IsFiniteSet(0..last) /\ Cardinality(0..last) = last + 1
  BY FS_Interval
<1>2. c \in Bijection(0..last, R)
  BY DEF Bijection, Injection, Surjection, IsInjective, Different, Reached
<1>3. ExistsBijection(0..last, R)
  BY <1>2 DEF ExistsBijection
<1> QED
  BY <1>1, <1>3, FS_Bijection

(* The shape accounts for every chunk: ChunksAccounted follows.            *)
LEMMA BuiltAccounts == Built => ChunksAccounted
<1> SUFFICES ASSUME Built, in.chunk # NoChunk
             PROVE  LET last == (in.pos + count) \div Granularity
                    IN  /\ out = [chunk |-> NthChunk[last], pos |-> (in.pos + count) % Granularity]
                        /\ live = {NthChunk[n] : n \in 0..last} \cup ({cache} \ {NoChunk})
                        /\ Cardinality(live) = last + 1 + (IF cache = NoChunk THEN 0 ELSE 1)
  BY DEF ChunksAccounted, Built
<1>0. PICK last \in Nat : \E c \in [0..last -> live] : Chain(last, c) /\ Owned(last, c)
  BY DEF Built, Shape
<1>1. PICK c \in [0..last -> live] : Chain(last, c) /\ Owned(last, c)
  BY <1>0
<1>2. out.pos \in Slots /\ in.pos \in Int /\ count \in Int /\ out.pos \in Int
  BY DEF Built, TypeOK, Slots
<1>3. in.pos + count = last * Granularity + out.pos
  <2>1. last * Granularity \in Nat
    BY Multiples
  <2> QED
    BY <1>1, <1>2, <2>1 DEF Chain
<1>4. (in.pos + count) \div Granularity = last /\ (in.pos + count) % Granularity = out.pos
  BY <1>2, <1>3, NumberOf
<1>5. \A n \in 0..last : NthChunk[n] = c[n]
  BY <1>1, OnChain DEF Built
<1>6. out = [chunk |-> NthChunk[last], pos |-> out.pos]
  <2>1. out \in [chunk : Chunks \cup {NoChunk}, pos : Slots]
    BY DEF Built, TypeOK
  <2>2. out.chunk = NthChunk[last]
    BY <1>1, <1>5 DEF Chain
  <2> QED
    BY <2>1, <2>2
<1>7. {NthChunk[n] : n \in 0..last} = {c[i] : i \in 0..last}
  BY <1>5
<1>8. live = {NthChunk[n] : n \in 0..last} \cup ({cache} \ {NoChunk})
  BY <1>1, <1>7 DEF Owned
<1>9. Cardinality(live) = last + 1 + (IF cache = NoChunk THEN 0 ELSE 1)
  <2>0. PICK R : R = Reached(last, c)
    OBVIOUS
  <2>1. IsFiniteSet(R) /\ Cardinality(R) = last + 1
    <3>1. Different(last, c)
      BY <1>1 DEF Chain, Different
    <3> QED
      BY <2>0, <3>1, ChainLength
  <2>2. cache \notin R
    BY <1>1, <2>0 DEF Chain, Reached
  <2>3. live = R \cup ({cache} \ {NoChunk})
    BY <1>1, <2>0 DEF Owned, Reached
  <2>4. CASE cache = NoChunk
    <3>1. live = R
      BY <2>3, <2>4
    <3> QED
      BY <2>1, <2>4, <3>1
  <2>5. CASE cache # NoChunk
    <3>1. live = R \cup {cache}
      BY <2>3, <2>5
    <3> QED
      BY <2>1, <2>2, <2>5, <3>1, FS_AddElement
  <2> QED
    BY <2>4, <2>5
<1> QED
  BY <1>4, <1>6, <1>8, <1>9

(* No chunk is lost, freed twice or used when it is not there, whatever    *)
(* the order of nn_msgqueue_send, _recv and _term.                         *)
THEOREM NothingLost == Spec => []ChunksAccounted
BY BuiltAccounts, Invariance, PTL

(***************************************************************************)
(* MsgQueue implements MsgFifo.  The messages are a sequence of count      *)
(* messages, and mem is the sum of their sizes: that of none is 0, which   *)
(* is what nn_msgqueue_term leaves.                                        *)
(***************************************************************************)
ContentsSeq == Contents \in Seq(Msgs) /\ Len(Contents) = count

(* Contents, which the refinement mapping uses, is a sequence of count     *)
(* messages.                                                               *)
LEMMA ContentsFacts == Built => ContentsSeq
<1> SUFFICES ASSUME Built PROVE ContentsSeq
  OBVIOUS
<1>1. count \in Nat
  BY DEF Built, TypeOK
<1>2. ASSUME NEW i \in 1..count PROVE Contents[i] \in Msgs
  <2>1. in.chunk # NoChunk
    BY <1>1 DEF Built
  <2>2. PICK last \in Nat : \E c \in [0..last -> live] : Chain(last, c) /\ Owned(last, c)
    BY <2>1 DEF Built, Shape
  <2>3. PICK c \in [0..last -> live] : Chain(last, c)
    BY <2>2
  <2>4. PICK k \in 0..last, p \in Slots :
              /\ k > 0 \/ p >= in.pos
              /\ k < last \/ p < out.pos
              /\ Contents[i] = slot[c[k]][p]
    BY <2>3, Placed DEF Built
  <2> QED
    BY <2>3, <2>4 DEF Chain
<1>3. DOMAIN Contents = 1..count /\ Contents = [i \in 1..count |-> Contents[i]]
  BY DEF Contents
<1> HIDE DEF Contents
<1>4. Contents \in [1..count -> Msgs]
  BY <1>2, <1>3
<1> QED
  BY <1>1, <1>4, CountedSeq DEF ContentsSeq

(* The same of the state after a step.                                     *)
LEMMA ContentsFactsNext == Built' => ContentsSeq'
BY ContentsFacts, PTL

(* total is the size of the first n messages of s.                         *)
PartialSums(s, n, b) ==
    /\ b \in [0..n -> Int]
    /\ b[0] = 0
    /\ \A i \in 1..n : b[i] = b[i - 1] + s[i].size

(* The first n messages of s have the given total size.                    *)
Totals(s, n, total) == \E b : PartialSums(s, n, b) /\ b[n] = total

(* A message added at the end adds its size to the total.                  *)
LEMMA TotalAfterPut ==
    ASSUME NEW n \in Nat, NEW s, NEW t, NEW total, Totals(s, n, total),
           \A i \in 1..n : t[i] = s[i], t[n + 1].size \in Int
    PROVE  Totals(t, n + 1, total + t[n + 1].size)
<1>1. PICK b : PartialSums(s, n, b) /\ b[n] = total
  BY DEF Totals
<1> DEFINE d == [i \in 0..n + 1 |-> IF i = n + 1 THEN b[n] + t[n + 1].size ELSE b[i]]
<1>2. b \in [0..n -> Int] /\ b[0] = 0 /\ \A i \in 1..n : b[i] = b[i - 1] + s[i].size
  BY <1>1 DEF PartialSums
<1>3. d \in [0..n + 1 -> Int] /\ d[0] = 0
  BY <1>2
<1>4. ASSUME NEW i \in 1..n + 1 PROVE d[i] = d[i - 1] + t[i].size
  <2>1. i - 1 \in 0..n /\ i - 1 \in 0..n + 1 /\ i \in 0..n + 1 /\ i - 1 # n + 1
    OBVIOUS
  <2>2. d[i - 1] = b[i - 1]
    BY <2>1
  <2>3. CASE i = n + 1
    BY <2>1, <2>2, <2>3
  <2>4. CASE i # n + 1
    <3>1. i \in 1..n
      BY <2>4
    <3> QED
      BY <1>2, <2>1, <2>2, <2>4, <3>1
  <2> QED
    BY <2>3, <2>4
<1>5. d[n + 1] = total + t[n + 1].size
  BY <1>1
<1> HIDE DEF d
<1>6. PartialSums(t, n + 1, d)
  BY <1>3, <1>4 DEF PartialSums
<1> QED
  BY <1>5, <1>6 DEF Totals

(* A message taken from the front takes its size off the total.            *)
LEMMA TotalAfterTake ==
    ASSUME NEW n \in Nat, n > 0, NEW s, NEW t, NEW total, Totals(s, n, total),
           \A i \in 1..n : s[i].size \in Int, \A i \in 1..n - 1 : t[i] = s[i + 1]
    PROVE  Totals(t, n - 1, total - s[1].size)
<1>1. PICK b : PartialSums(s, n, b) /\ b[n] = total
  BY DEF Totals
<1> DEFINE d == [i \in 0..n - 1 |-> b[i + 1] - b[1]]
<1>2. b \in [0..n -> Int] /\ b[0] = 0 /\ \A i \in 1..n : b[i] = b[i - 1] + s[i].size
  BY <1>1 DEF PartialSums
<1>3. 1 \in 1..n /\ 1 \in 0..n /\ n - 1 \in Nat /\ n - 1 \in 0..n - 1 /\ (n - 1) + 1 = n
  OBVIOUS
<1>4. \A i \in 0..n - 1 : i + 1 \in 0..n /\ i + 1 \in 1..n /\ (i + 1) - 1 = i
  OBVIOUS
<1>5. d \in [0..n - 1 -> Int] /\ d[0] = 0
  BY <1>2, <1>3, <1>4
<1>6. ASSUME NEW i \in 1..n - 1 PROVE d[i] = d[i - 1] + t[i].size
  <2>1. /\ i \in 0..n - 1 /\ i - 1 \in 0..n - 1 /\ (i - 1) + 1 = i /\ i + 1 \in 1..n
        /\ i + 1 \in 0..n /\ i \in 0..n /\ (i + 1) - 1 = i
    OBVIOUS
  <2>2. d[i] = b[i + 1] - b[1] /\ d[i - 1] = b[i] - b[1]
    BY <2>1
  <2>3. /\ b[i + 1] = b[i] + t[i].size /\ t[i].size \in Int
        /\ b[i + 1] \in Int /\ b[i] \in Int /\ b[1] \in Int
    BY <1>2, <1>3, <2>1
  <2> HIDE DEF d
  <2> QED
    BY <2>2, <2>3
<1>7. d[n - 1] = total - s[1].size
  <2>1. d[n - 1] = b[n] - b[1]
    BY <1>3
  <2>2. b[1] = b[0] + s[1].size /\ s[1].size \in Int
    BY <1>2, <1>3
  <2> QED
    BY <1>1, <1>2, <2>1, <2>2
<1> HIDE DEF d
<1>8. PartialSums(t, n - 1, d)
  BY <1>3, <1>5, <1>6 DEF PartialSums
<1> QED
  BY <1>7, <1>8 DEF Totals

(* A message has a size.                                                   *)
LEMMA SizesAreNumbers == \A m \in Msgs : m.size \in Int
<1>1. \A x \in Sizes : x \in Int
  BY MsgQueueAssumption
<1>2. \A m \in Msgs : m.size \in Sizes
  BY DEF Msgs
<1> QED
  BY <1>1, <1>2

(* mem is the sum of the sizes of what is in the queue.                    *)
MemIsSum == Totals(Contents, count, mem)

(* The inductive invariant with the sizes: mem is the sum of the sizes of  *)
(* the messages that are queued.                                           *)
QueueInv == Built /\ MemIsSum

(* nn_msgqueue_init makes a queue that satisfies it.                       *)
LEMMA InitQueueInv == Init => QueueInv
<1> SUFFICES ASSUME Init PROVE MemIsSum
  BY ShapeInit DEF QueueInv
<1>1. count = 0 /\ mem = 0
  BY DEF Init
<1>2. PartialSums(Contents, 0, [i \in 0..0 |-> 0])
  BY DEF PartialSums
<1> QED
  BY <1>1, <1>2 DEF MemIsSum, Totals

(* nn_msgqueue_send: the abstract queue takes the message.                 *)
LEMMA SendIsPut ==
    ASSUME QueueInv, NEW m \in Msgs, Send(m)
    PROVE  QueueInv' /\ Fifo!Put(m)
<1>1. /\ Built' /\ \A i \in 1..count : Contents'[i] = Contents[i]
      /\ Contents'[count + 1] = m
  BY SendInChunk, SendNewChunk DEF QueueInv
<1>2. /\ count' = count + 1 /\ mem' = mem + m.size /\ in' = in
      /\ in.chunk # NoChunk /\ ~(count > 0 /\ mem + m.size >= MaxMem)
  BY DEF Send, Usable, Full
<1>3. count \in Nat /\ mem \in Int /\ m.size \in Int /\ MaxMem \in Int
  BY SizesAreNumbers, MsgQueueAssumption DEF QueueInv, Built, TypeOK
<1>4. ContentsSeq /\ ContentsSeq'
  BY <1>1, ContentsFacts, ContentsFactsNext DEF QueueInv
<1>5. Contents' = Append(Contents, m)
  <2>1. /\ Append(Contents, m) \in Seq(Msgs) /\ Len(Append(Contents, m)) = count + 1
        /\ \A i \in 1..count : Append(Contents, m)[i] = Contents[i]
        /\ Append(Contents, m)[count + 1] = m
    BY <1>4, AppendFacts DEF ContentsSeq
  <2>2. Contents' \in Seq(Msgs) /\ Len(Contents') = count + 1
    BY <1>2, <1>4 DEF ContentsSeq
  <2>3. \A i \in 1..count + 1 : i \in 1..count \/ i = count + 1
    BY <1>3
  <2>4. \A i \in 1..count + 1 : Contents'[i] = Append(Contents, m)[i]
    BY <1>1, <2>1, <2>3
  <2> QED
    BY <2>1, <2>2, <2>4
<1>6. MemIsSum'
  <2>1. Totals(Contents, count, mem)
    BY DEF QueueInv, MemIsSum
  <2>2. PICK t : t = Contents'
    OBVIOUS
  <2>3. t[count + 1] = m /\ \A i \in 1..count : t[i] = Contents[i]
    BY <1>1, <2>2
  <2>4. Totals(t, count + 1, mem + t[count + 1].size)
    BY <1>3, <2>1, <2>3, TotalAfterPut
  <2> QED
    BY <1>2, <2>2, <2>3, <2>4 DEF MemIsSum
<1>7. Contents = <<>> \/ mem + m.size < MaxMem
  BY <1>2, <1>3, <1>4 DEF ContentsSeq
<1> QED
  BY <1>1, <1>2, <1>5, <1>6, <1>7 DEF QueueInv, Fifo!Put, Fifo!Accepts, MsgSize

(* nn_msgqueue_recv: it hands out its oldest message.                      *)
LEMMA RecvIsTake ==
    ASSUME QueueInv, Recv
    PROVE  QueueInv' /\ Fifo!Take
<1>1. /\ Built' /\ Contents[1] = Oldest /\ in'.chunk # NoChunk
      /\ \A i \in 1..count - 1 : Contents'[i] = Contents[i + 1]
  BY RecvInChunk, RecvNewChunk DEF QueueInv
<1>2. count > 0 /\ count' = count - 1 /\ mem' = mem - Oldest.size /\ in.chunk # NoChunk
  BY DEF Recv, Usable
<1>3. count \in Nat /\ mem \in Int
  BY DEF QueueInv, Built, TypeOK
<1>4. ContentsSeq /\ ContentsSeq'
  BY <1>1, ContentsFacts, ContentsFactsNext DEF QueueInv
<1>5. Contents # <<>> /\ Head(Contents) = Contents[1]
  BY <1>2, <1>4 DEF ContentsSeq
<1>6. Contents' = Tail(Contents)
  <2>1. /\ Tail(Contents) \in Seq(Msgs) /\ Len(Tail(Contents)) = count - 1
        /\ \A i \in 1..count - 1 : Tail(Contents)[i] = Contents[i + 1]
    BY <1>4, <1>5, TailFacts DEF ContentsSeq
  <2>2. Contents' \in Seq(Msgs) /\ Len(Contents') = count - 1
    BY <1>2, <1>4 DEF ContentsSeq
  <2> QED
    BY <1>1, <2>1, <2>2
<1>7. MemIsSum'
  <2>1. Totals(Contents, count, mem)
    BY DEF QueueInv, MemIsSum
  <2>2. PICK t : t = Contents'
    OBVIOUS
  <2>3. \A i \in 1..count - 1 : t[i] = Contents[i + 1]
    BY <1>1, <2>2
  <2>4. \A i \in 1..count : Contents[i].size \in Int
    <3>1. \A i \in 1..count : Contents[i] \in Msgs
      BY <1>4 DEF ContentsSeq
    <3> QED
      BY <3>1, SizesAreNumbers
  <2>5. Totals(t, count - 1, mem - Contents[1].size)
    BY <1>2, <1>3, <2>1, <2>3, <2>4, TotalAfterTake
  <2> QED
    BY <1>1, <1>2, <2>2, <2>5 DEF MemIsSum
<1> QED
  BY <1>1, <1>2, <1>5, <1>6, <1>7 DEF QueueInv, Fifo!Take, MsgSize

(* nn_msgqueue_term: nothing is in it any more, and mem is back at 0.      *)
LEMMA TerminateIsDestroy ==
    ASSUME QueueInv, Terminate
    PROVE  QueueInv' /\ Fifo!Destroy
<1>1. Built'
  BY TerminateKeeps DEF QueueInv
<1>2. /\ count = 0 /\ count' = 0 /\ mem' = mem /\ in.chunk # NoChunk /\ in'.chunk = NoChunk
  BY DEF Terminate, Usable
<1>3. mem = 0
  <2>1. PICK b : PartialSums(Contents, count, b) /\ b[count] = mem
    BY DEF QueueInv, MemIsSum, Totals
  <2> QED
    BY <1>2, <2>1 DEF PartialSums
<1>4. Contents' = <<>>
  <2>1. ContentsSeq'
    BY <1>1, ContentsFactsNext
  <2> QED
    BY <1>2, <2>1 DEF ContentsSeq
<1>5. MemIsSum'
  <2>1. PICK t : t = Contents'
    OBVIOUS
  <2>2. PartialSums(t, 0, [i \in 0..0 |-> 0])
    BY DEF PartialSums
  <2>3. Totals(t, 0, 0)
    BY <2>2 DEF Totals
  <2> QED
    BY <1>2, <1>3, <2>1, <2>3 DEF MemIsSum
<1> QED
  BY <1>1, <1>2, <1>3, <1>4, <1>5 DEF QueueInv, Fifo!Destroy

(* Every step keeps it and is a step, or a stutter, of the bounded first-  *)
(* in first-out queue.                                                     *)
LEMMA NextQueueInv ==
    QueueInv /\ [Next]_vars => QueueInv' /\ [Fifo!FifoNext]_(Fifo!fifoVars)
<1> SUFFICES ASSUME QueueInv, [Next]_vars
             PROVE  QueueInv' /\ [Fifo!FifoNext]_(Fifo!fifoVars)
  OBVIOUS
<1>1. ASSUME NEW m \in Msgs, Send(m) PROVE QueueInv' /\ Fifo!FifoNext
  BY <1>1, SendIsPut DEF Fifo!FifoNext
<1>2. CASE Recv
  BY <1>2, RecvIsTake DEF Fifo!FifoNext
<1>3. CASE Terminate
  BY <1>3, TerminateIsDestroy DEF Fifo!FifoNext
<1>4. CASE UNCHANGED vars
  <2>1. Built'
    BY NextKeeps DEF QueueInv
  <2>2. Contents' = Contents /\ count' = count /\ mem' = mem /\ in' = in
    BY <1>4, ContentsKept DEF vars
  <2> QED
    BY <2>1, <2>2 DEF QueueInv, MemIsSum, Fifo!fifoVars
<1> QED
  BY <1>1, <1>2, <1>3, <1>4 DEF Next, Terminated

(* The chain of chunks is a first-in first-out queue with a byte limit:    *)
(* every nn_msgqueue_send, _recv and _term is a Put, a Take or a Destroy   *)
(* of MsgFifo, wherever the boundaries of the chunks are.                  *)
THEOREM IsAFifo == Spec => FifoSpec
<1>1. Init => Fifo!FifoInit
  <2> SUFFICES ASSUME Init PROVE Fifo!FifoInit
    OBVIOUS
  <2>1. ContentsSeq
    BY ShapeInit, ContentsFacts
  <2>2. count = 0 /\ mem = 0 /\ in.chunk # NoChunk
    BY MsgQueueAssumption DEF Init
  <2> QED
    BY <2>1, <2>2 DEF ContentsSeq, Fifo!FifoInit
<1> QED
  BY <1>1, InitQueueInv, NextQueueInv, PTL DEF Spec, FifoSpec, Fifo!FifoSpec
=============================================================================
