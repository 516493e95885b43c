--------------------------- MODULE MessageProofs ---------------------------
(***************************************************************************)
(* Proofs about messages and chunks (module Message), for any finite set   *)
(* of messages, any number of chunks, any texts and any bounds.            *)
(***************************************************************************)
EXTENDS Message, SeqLemmas, FiniteSetTheorems

Heaps == [Chunk -> Chunks \cup {None}]

(* What can stand in a cell.                                               *)
LEMMA CellFacts ==
    /\ Junk \in Cells /\ Tag \in Cells
    /\ \A n \in Nat : Off(n) \in Cells /\ Byte(n) \in Cells
BY DEF Cells, Junk, Tag, Off, Byte

(* Trimming and resizing write the header anew, keep the bytes behind it   *)
(* and nothing else.                                                       *)
LEMMA TidyFacts ==
    ASSUME NEW mem \in Seq(Cells), NEW pos \in Nat, pos >= First, NEW n \in Int
    PROVE  /\ Tidy(mem, pos, n) \in Seq(Cells) /\ Len(Tidy(mem, pos, n)) = Len(mem)
           /\ pos - 1 \in 1..Len(mem) => Tidy(mem, pos, n)[pos - 1] = Tag
           /\ pos - 2 \in 1..Len(mem) => Tidy(mem, pos, n)[pos - 2] = Off(pos - First)
           /\ \A i \in pos..pos + n - 1 : i \in 1..Len(mem) => Tidy(mem, pos, n)[i] = mem[i]
<1> DEFINE e(i) == CASE i = pos - 2 -> Off(pos - First)
                     [] i = pos - 1 -> Tag
                     [] i \in pos..pos + n - 1 -> mem[i]
                     [] OTHER -> Junk
           f == [i \in 1..Len(mem) |-> e(i)]
<1>1. Len(mem) \in Nat /\ DOMAIN mem = 1..Len(mem) /\ \A i \in 1..Len(mem) : mem[i] \in Cells
  OBVIOUS
<1>2. pos - First \in Nat
  BY DEF First
<1>3. \A i \in 1..Len(mem) : e(i) \in Cells
  BY <1>1, <1>2, CellFacts
<1>4. f \in [1..Len(mem) -> Cells]
  BY <1>3
<1>5. Tidy(mem, pos, n) = f
  BY <1>1 DEF Tidy
<1>6. f \in Seq(Cells) /\ Len(f) = Len(mem)
  <2> HIDE DEF f
  <2> QED
    BY <1>1, <1>4, CountedSeq
<1>7. /\ pos - 1 \in 1..Len(mem) => f[pos - 1] = Tag
      /\ pos - 2 \in 1..Len(mem) => f[pos - 2] = Off(pos - First)
      /\ \A i \in pos..pos + n - 1 : i \in 1..Len(mem) => f[i] = mem[i]
  BY <1>1
<1> QED
  BY <1>5, <1>6, <1>7

(* The cells of a new chunk.                                               *)
LEMMA HeaderFacts ==
    ASSUME NEW s \in Seq(Cells)
    PROVE  /\ Header \o s \in Seq(Cells) /\ Len(Header \o s) = Len(s) + 2
           /\ (Header \o s)[1] = Header[1] /\ (Header \o s)[2] = Header[2]
           /\ \A i \in 1..Len(s) : (Header \o s)[i + 2] = s[i]
<1>1. Header \in Seq(Cells) /\ Len(Header) = 2
  BY CellFacts DEF Header
<1>2. /\ Header \o s \in Seq(Cells) /\ Len(Header \o s) = 2 + Len(s)
      /\ \A j \in 1..2 : (Header \o s)[j] = Header[j]
      /\ \A j \in 1..Len(s) : (Header \o s)[j + 2] = s[j]
  <2>1. PICK a \in Seq(Cells) : a = Header /\ Len(a) = 2
    BY <1>1
  <2>2. /\ a \o s \in Seq(Cells) /\ Len(a \o s) = Len(a) + Len(s)
        /\ \A j \in 1..Len(a) : (a \o s)[j] = a[j]
        /\ \A j \in 1..Len(s) : (a \o s)[j + Len(a)] = s[j]
    BY ConcatFacts
  <2>3. /\ a \o s \in Seq(Cells) /\ Len(a \o s) = 2 + Len(s)
        /\ \A j \in 1..2 : (a \o s)[j] = a[j]
        /\ \A j \in 1..Len(s) : (a \o s)[j + 2] = s[j]
    BY <2>1, <2>2
  <2> QED
    BY <2>1, <2>3
<1>3. 1 \in 1..2 /\ 2 \in 1..2 /\ Len(s) \in Nat
  OBVIOUS
<1> HIDE DEF Header
<1> QED
  BY <1>2, <1>3

NewChunk(s) == [refcount |-> 1, size |-> Len(s), mem |-> Header \o s]

(* nn_chunk_alloc with memory left: one chunk, not used before, is made.   *)
LEMMA AllocFacts ==
    ASSUME NEW h \in Heaps, Room(h) # {}, NEW s \in Seq(Cells), Len(s) <= MaxSize
    PROVE  /\ Fresh(h) \in Chunk /\ h[Fresh(h)] = None
           /\ Allocated(h, s) \in Heaps
           /\ Allocated(h, s)[Fresh(h)] = NewChunk(s) /\ NewChunk(s) \in Chunks
           /\ \A c \in Chunk : c # Fresh(h) => Allocated(h, s)[c] = h[c]
<1>1. Room(h) \in SUBSET Nat
  BY MessageAssumption DEF Room, Chunk
<1>2. \E c \in Room(h) : \A d \in Room(h) : c <= d
  BY <1>1, LeastNumber
<1>3. Fresh(h) \in Room(h)
  BY <1>2, Zenon DEF Fresh
<1>4. Fresh(h) \in Chunk /\ h[Fresh(h)] = None
  BY <1>3 DEF Room
<1>5. NewChunk(s) \in Chunks
  <2>1. Len(s) \in 0..MaxSize
    BY MessageAssumption
  <2> QED
    BY <2>1, HeaderFacts DEF NewChunk, Chunks
<1>6. Allocated(h, s) = [h EXCEPT ![Fresh(h)] = NewChunk(s)]
  BY DEF Allocated, NewChunk
<1> HIDE DEF NewChunk, Fresh
<1> QED
  BY <1>4, <1>5, <1>6 DEF Heaps

(* nn_chunkref_init: a short text needs no chunk.                          *)
LEMMA NewRefFacts ==
    ASSUME NEW h \in Heaps, NEW s \in Seq(Cells), Len(s) <= MaxSize,
           Len(s) >= RefMax => Room(h) # {}
    PROVE  /\ NewRef(h, s) \in Refs /\ HeapNewRef(h, s) \in Heaps
           /\ Proper(NewRef(h, s))
           /\ IF Len(s) < RefMax THEN NewRef(h, s) = Small(s) /\ HeapNewRef(h, s) = h
              ELSE /\ NewRef(h, s) = Big(Ptr(Fresh(h), First))
                   /\ HeapNewRef(h, s) = Allocated(h, s)
           /\ \A c \in Chunk : h[c] # None => HeapNewRef(h, s)[c] = h[c]
<1>1. Len(s) \in Nat /\ RefMax \in Nat
  BY MessageAssumption
<1>2. CASE Len(s) < RefMax
  <2>1. Small(s) \in Refs
    BY DEF Small, Refs
  <2> QED
    BY <1>2, <2>1 DEF NewRef, HeapNewRef, Small, Proper
<1>3. CASE ~(Len(s) < RefMax)
  <2>1. /\ Fresh(h) \in Chunk /\ Allocated(h, s) \in Heaps /\ h[Fresh(h)] = None
        /\ \A c \in Chunk : c # Fresh(h) => Allocated(h, s)[c] = h[c]
    BY <1>1, <1>3, AllocFacts
  <2>2. Big(Ptr(Fresh(h), First)) \in Refs
    BY <2>1 DEF Big, Ptr, Refs, Ptrs, First
  <2>3. NewRef(h, s) = Big(Ptr(Fresh(h), First)) /\ HeapNewRef(h, s) = Allocated(h, s)
    BY <1>3 DEF NewRef, HeapNewRef
  <2>4. Big(Ptr(Fresh(h), First)).big /\ Big(Ptr(Fresh(h), First)).at.pos = First
    BY DEF Big, Ptr
  <2> QED
    BY <1>3, <2>1, <2>2, <2>3, <2>4 DEF First, Proper
<1> QED
  BY <1>2, <1>3

-----------------------------------------------------------------------------
Counts == [Chunk -> Nat]

(* nn_chunk_free of n[c] references to each chunk c.                       *)
LEMMA DroppedFacts ==
    ASSUME NEW h \in Heaps, NEW n \in Counts, \A c \in Chunk : n[c] # 0 => h[c] # None
    PROVE  /\ Dropped(h, n) \in Heaps
           /\ \A c \in Chunk :
                 /\ n[c] = 0 => Dropped(h, n)[c] = h[c]
                 /\ n[c] # 0 /\ h[c].refcount <= n[c] => Dropped(h, n)[c] = None
                 /\ n[c] # 0 /\ ~(h[c].refcount <= n[c]) =>
                       /\ Dropped(h, n)[c] = [h[c] EXCEPT !.refcount = @ - n[c]]
                       /\ Dropped(h, n)[c] \in Chunks
<1> SUFFICES ASSUME NEW c \in Chunk
             PROVE  /\ Dropped(h, n)[c] \in Chunks \cup {None}
                    /\ n[c] = 0 => Dropped(h, n)[c] = h[c]
                    /\ n[c] # 0 /\ h[c].refcount <= n[c] => Dropped(h, n)[c] = None
                    /\ n[c] # 0 /\ ~(h[c].refcount <= n[c]) =>
                          /\ Dropped(h, n)[c] = [h[c] EXCEPT !.refcount = @ - n[c]]
                          /\ Dropped(h, n)[c] \in Chunks
  BY DEF Dropped, Heaps
<1>1. h[c] \in Chunks \cup {None} /\ n[c] \in Nat
  BY DEF Heaps, Counts
<1>2. CASE n[c] = 0
  BY <1>1, <1>2 DEF Dropped
<1>3. CASE n[c] # 0
  <2>1. h[c] \in Chunks /\ h[c].refcount \in Nat
    BY <1>1, <1>3 DEF Chunks
  <2>2. LastOne(h[c].refcount, n[c]) <=> h[c].refcount <= n[c]
    BY <1>1, <2>1 DEF LastOne
  <2>3. ~(h[c].refcount <= n[c]) => [h[c] EXCEPT !.refcount = @ - n[c]] \in Chunks
    BY <1>1, <2>1 DEF Chunks
  <2> QED
    BY <1>3, <2>2, <2>3 DEF Dropped
<1> QED
  BY <1>2, <1>3

(* nn_chunk_addref of n[c] references to each chunk c.                     *)
LEMMA AddedFacts ==
    ASSUME NEW h \in Heaps, NEW n \in Counts
    PROVE  /\ Added(h, n) \in Heaps
           /\ \A c \in Chunk : h[c] = None => Added(h, n)[c] = None
           /\ \A c \in Chunk : h[c] # None =>
                 Added(h, n)[c] = [h[c] EXCEPT !.refcount = @ + n[c]] /\ Added(h, n)[c] \in Chunks
<1> SUFFICES ASSUME NEW c \in Chunk
             PROVE  /\ Added(h, n)[c] \in Chunks \cup {None}
                    /\ h[c] = None => Added(h, n)[c] = None
                    /\ h[c] # None => /\ Added(h, n)[c] = [h[c] EXCEPT !.refcount = @ + n[c]]
                                      /\ Added(h, n)[c] \in Chunks
  BY DEF Added, Heaps
<1>1. h[c] \in Chunks \cup {None} /\ n[c] \in Nat
  BY DEF Heaps, Counts
<1>2. h[c] # None => [h[c] EXCEPT !.refcount = @ + n[c]] \in Chunks
  BY <1>1 DEF Chunks
<1> QED
  BY <1>1, <1>2 DEF Added

(* The parts of a message that point to a chunk.                           *)
Pointings(m, c) == {p \in Parts : Pointing(m, p, c)}

LEMMA CountFacts ==
    ASSUME NEW m
    PROVE  /\ CountIn(m) \in Counts
           /\ \A c \in Chunk :
                 /\ IsFiniteSet(Pointings(m, c))
                 /\ CountIn(m)[c] = Cardinality(Pointings(m, c))
                 /\ CountIn(m)[c] # 0 <=> \E p \in Parts : Pointing(m, p, c)
<1>1. IsFiniteSet(Parts)
  <2>1. Parts = ({"sphdr"} \cup {"hdrs"}) \cup {"body"}
    BY DEF Parts
  <2>2. IsFiniteSet({"sphdr"})
    BY FS_Singleton
  <2> QED
    BY <2>1, <2>2, FS_AddElement
<1>2. \A c : Pointings(m, c) \in SUBSET Parts
  BY DEF Pointings
<1>3. \A c : IsFiniteSet(Pointings(m, c)) /\ Cardinality(Pointings(m, c)) \in Nat
  BY <1>1, <1>2, FS_Subset, FS_CardinalityType
<1>4. CountIn(m) = [c \in Chunk |-> Cardinality(Pointings(m, c))]
  BY DEF CountIn, Pointings
<1>5. \A c : Cardinality(Pointings(m, c)) # 0 <=> Pointings(m, c) # {}
  BY <1>3, FS_EmptySet
<1>6. \A c : Pointings(m, c) # {} <=> \E p \in Parts : Pointing(m, p, c)
  BY DEF Pointings
<1> QED
  BY <1>3, <1>4, <1>5, <1>6 DEF Counts

(* A single reference.                                                     *)
LEMMA CountOfFacts ==
    ASSUME NEW r
    PROVE  /\ CountOf(r) \in Counts
           /\ \A c \in Chunk : CountOf(r)[c] = IF r.big /\ r.at.chunk = c THEN 1 ELSE 0
BY DEF CountOf, Counts

(* A user of pointers finds the headers of their chunks.                   *)
LEMMA SoundFacts ==
    ASSUME NEW P, MisusedIn(P) = {}
    PROVE  \A p \in P : heap[p.chunk] # None
BY DEF MisusedIn, Misused

LEMMA PointersFacts ==
    ASSUME NEW m
    PROVE  /\ \A p \in Parts : msg[m][p].big => msg[m][p].at \in Pointers(m)
           /\ \A x \in Pointers(m) : \E p \in Parts : msg[m][p].big /\ x = msg[m][p].at
BY DEF Pointers, Pointer

(* What a message points to is there when its pointers are sound.          *)
LEMMA CountedIsThere ==
    ASSUME NEW m, MisusedIn(Pointers(m)) = {}
    PROVE  \A c \in Chunk : CountIn(m)[c] # 0 => heap[c] # None
<1> SUFFICES ASSUME NEW c \in Chunk, CountIn(m)[c] # 0 PROVE heap[c] # None
  OBVIOUS
<1>1. PICK p \in Parts : Pointing(m, p, c)
  BY CountFacts
<1> QED
  BY <1>1, SoundFacts, PointersFacts DEF Pointing

-----------------------------------------------------------------------------
(* The parts of TypeOK that an action changes one by one.                  *)
MsgOK == /\ msg \in [Msg -> [Parts -> Refs] \cup {None}]
         /\ \A m \in Msg, p \in Parts : Live(m) => Proper(msg[m][p])
RawOK == raw \in Ptrs \cup {None} /\ (raw # None => raw.pos >= First)
RestOK ==
    /\ lent \in [Msg -> 0..MaxCopies] /\ written \in 0..Len(Texts) /\ edits \in 0..MaxEdits
    /\ slips \in SlipSets /\ abort \subseteq Slips \cup {"freed", "chunk.c:154", "chunk.c:155"}

LEMMA TypeParts == TypeOK <=> heap \in Heaps /\ MsgOK /\ RawOK /\ RestOK
BY DEF TypeOK, Heaps, MsgOK, RawOK, RestOK

LEMMA TypePartsNext == TypeOK' <=> heap' \in Heaps /\ MsgOK' /\ RawOK' /\ RestOK'
BY DEF TypeOK, Heaps, MsgOK, RawOK, RestOK, Live

(* A live message and its references.                                      *)
LEMMA LiveType ==
    ASSUME MsgOK, NEW m \in Msg, Live(m)
    PROVE  /\ msg[m] \in [Parts -> Refs]
           /\ \A p \in Parts : msg[m][p] \in Refs /\ Proper(msg[m][p])
BY DEF MsgOK, Live

LEMMA RefFacts ==
    ASSUME NEW r \in Refs, Proper(r)
    PROVE  /\ r.big \in BOOLEAN
           /\ r.big => /\ r.at \in Ptrs /\ r.at.chunk \in Chunk /\ r.at.pos \in Nat
                       /\ r.at.pos >= First /\ r.data = <<>>
           /\ ~r.big => r.data \in Seq(Cells) /\ Len(r.data) < RefMax
BY DEF Refs, Proper, Ptrs

LEMMA SmallFacts ==
    ASSUME NEW s \in Seq(Cells), Len(s) < RefMax
    PROVE  Small(s) \in Refs /\ Proper(Small(s)) /\ ~Small(s).big /\ Small(s).data = s
BY DEF Small, Refs, Proper

LEMMA BigFacts ==
    ASSUME NEW p \in Ptrs, p.pos >= First
    PROVE  Big(p) \in Refs /\ Proper(Big(p)) /\ Big(p).big /\ Big(p).at = p
BY DEF Big, Refs, Proper

LEMMA NothingFacts == Small(<<>>) \in Refs /\ Proper(Small(<<>>)) /\ ~Small(<<>>).big
<1>1. <<>> \in Seq(Cells) /\ Len(<<>>) < RefMax
  BY MessageAssumption
<1> QED
  BY <1>1, SmallFacts

LEMMA PlainFacts ==
    ASSUME NEW r \in Refs, Proper(r)
    PROVE  /\ Plain(r) \in [Parts -> Refs] /\ \A p \in Parts : Proper(Plain(r)[p])
           /\ Plain(r)["body"] = r /\ \A p \in Parts : p # "body" => Plain(r)[p] = Small(<<>>)
BY NothingFacts DEF Plain, Parts

LEMMA BecomesType ==
    ASSUME MsgOK, NEW m \in Msg, NEW x \in [Parts -> Refs], \A p \in Parts : Proper(x[p]),
           Becomes(m, x)
    PROVE  MsgOK'
BY DEF MsgOK, Becomes, Live

LEMMA ForgetType ==
    ASSUME MsgOK, NEW m \in Msg, Becomes(m, None)
    PROVE  MsgOK'
BY DEF MsgOK, Becomes, Live

LEMMA ReplaceFacts ==
    ASSUME NEW v \in [Parts -> Refs], \A p \in Parts : Proper(v[p]),
           NEW q \in Parts, NEW r \in Refs, Proper(r)
    PROVE  /\ [v EXCEPT ![q] = r] \in [Parts -> Refs]
           /\ \A p \in Parts : Proper([v EXCEPT ![q] = r][p])
           /\ \A p \in Parts : [v EXCEPT ![q] = r][p] = IF p = q THEN r ELSE v[p]
OBVIOUS

(* The bytes users write, and what can be read at a pointer.               *)
LEMMA BytesFacts ==
    ASSUME NEW s \in Seq(Nat)
    PROVE  Bytes(s) \in Seq(Cells) /\ Len(Bytes(s)) = Len(s)
<1> DEFINE f == [i \in 1..Len(s) |-> Byte(s[i])]
<1>1. Len(s) \in Nat /\ Bytes(s) = f
  BY DEF Bytes
<1>2. f \in [1..Len(s) -> Cells]
  BY CellFacts
<1> HIDE DEF f
<1> QED
  BY <1>1, <1>2, CountedSeq

LEMMA CellType ==
    ASSUME NEW mem \in Seq(Cells), NEW i
    PROVE  Cell(mem, i) \in Cells
BY CellFacts DEF Cell

LEMMA DataFacts ==
    ASSUME heap \in Heaps, NEW p \in Ptrs, heap[p.chunk] # None
    PROVE  /\ Data(p) \in Seq(Cells) /\ Len(Data(p)) = heap[p.chunk].size
           /\ \A i \in 1..heap[p.chunk].size : Data(p)[i] = Cell(heap[p.chunk].mem, p.pos + i - 1)
<1> DEFINE n == heap[p.chunk].size
           f == [i \in 1..n |-> Cell(heap[p.chunk].mem, p.pos + i - 1)]
<1>1. n \in Nat /\ heap[p.chunk].mem \in Seq(Cells)
  BY DEF Heaps, Chunks, Ptrs
<1>2. f \in [1..n -> Cells]
  BY <1>1, CellType
<1>3. Data(p) = f
  BY DEF Data
<1>4. \A i \in 1..n : f[i] = Cell(heap[p.chunk].mem, p.pos + i - 1)
  OBVIOUS
<1> HIDE DEF f, n
<1>5. f \in Seq(Cells) /\ Len(f) = n
  BY <1>1, <1>2, CountedSeq
<1> QED
  BY <1>3, <1>4, <1>5 DEF n

LEMMA ValueFacts ==
    ASSUME heap \in Heaps, NEW r \in Refs, Proper(r), r.big => heap[r.at.chunk] # None
    PROVE  Value(r) \in Seq(Cells)
BY DataFacts, RefFacts DEF Value

-----------------------------------------------------------------------------
(* nn_chunk_trim and nn_chunk_realloc make chunks of chunks.               *)
LEMMA TrimmedFacts ==
    ASSUME NEW c \in Chunks, NEW pos \in Nat, pos >= First, NEW n \in 0..c.size
    PROVE  /\ TrimmedChunk(c, pos, n) \in Chunks
           /\ TrimmedChunk(c, pos, n).refcount = c.refcount
           /\ TrimmedChunk(c, pos, n).size = c.size - n
           /\ TrimmedChunk(c, pos, n).mem = Tidy(c.mem, pos + n, c.size - n)
<1>1. c.mem \in Seq(Cells) /\ c.size \in 0..MaxSize /\ c.size - n \in 0..MaxSize /\ c.size - n \in Int
  BY MessageAssumption DEF Chunks
<1>2. pos + n \in Nat /\ pos + n >= First
  BY <1>1 DEF First
<1>3. Tidy(c.mem, pos + n, c.size - n) \in Seq(Cells)
  BY <1>1, <1>2, TidyFacts
<1> QED
  BY <1>1, <1>3 DEF TrimmedChunk, Chunks

LEMMA ShrunkFacts ==
    ASSUME NEW c \in Chunks, NEW pos \in Nat, pos >= First, NEW n \in 0..MaxSize
    PROVE  /\ Shrunk(c, pos, n) \in Chunks
           /\ Shrunk(c, pos, n).refcount = c.refcount
           /\ Shrunk(c, pos, n).size = n
           /\ Shrunk(c, pos, n).mem = Tidy(c.mem, pos, n)
<1>1. c.mem \in Seq(Cells) /\ n \in Int
  BY MessageAssumption DEF Chunks
<1>2. Tidy(c.mem, pos, n) \in Seq(Cells)
  BY <1>1, TidyFacts
<1> QED
  BY <1>1, <1>2 DEF Shrunk, Chunks

Shifted(mem, grow) == [i \in DOMAIN mem |-> Cell(mem, i + grow)]

LEMMA ShiftedFacts ==
    ASSUME NEW mem \in Seq(Cells), NEW grow
    PROVE  Shifted(mem, grow) \in Seq(Cells) /\ Len(Shifted(mem, grow)) = Len(mem)
<1>1. Shifted(mem, grow) \in [1..Len(mem) -> Cells]
  BY CellType DEF Shifted
<1> QED
  BY <1>1, CountedSeq

LEMMA MovedFacts ==
    ASSUME NEW c \in Chunks, NEW pos \in Nat, NEW grow \in Nat,
           pos - grow >= First, c.size + grow <= MaxSize
    PROVE  /\ MovedToFront(c, pos, grow) \in Chunks
           /\ MovedToFront(c, pos, grow).refcount = c.refcount
           /\ MovedToFront(c, pos, grow).size = c.size + grow
           /\ MovedToFront(c, pos, grow).mem = Tidy(Shifted(c.mem, grow), pos - grow, c.size)
<1>1. /\ c.mem \in Seq(Cells) /\ c.size \in 0..MaxSize /\ c.size + grow \in 0..MaxSize
      /\ c.size \in Int
  BY MessageAssumption DEF Chunks
<1>2. pos - grow \in Nat
  BY DEF First
<1>3. Tidy(Shifted(c.mem, grow), pos - grow, c.size) \in Seq(Cells)
  BY <1>1, <1>2, ShiftedFacts, TidyFacts
<1>4. MovedToFront(c, pos, grow) =
         [c EXCEPT !.mem = Tidy(Shifted(c.mem, grow), pos - grow, c.size), !.size = @ + grow]
  BY DEF MovedToFront, Shifted
<1> QED
  BY <1>1, <1>3, <1>4 DEF Chunks

LEMMA CopiedFacts ==
    ASSUME heap \in Heaps, RawOK, raw # None, Self # None, NEW n \in Nat
    PROVE  /\ Copied(n) \in Seq(Cells) /\ Len(Copied(n)) = n
           /\ \A i \in 1..n : i <= Self.size => Copied(n)[i] = Cell(Self.mem, CopiedFrom + i - 1)
<1>1. Self.mem \in Seq(Cells) /\ Self.size \in Nat
  BY MessageAssumption DEF Self, Heaps, Chunks, RawOK, Ptrs
<1> DEFINE kept == IF n < Self.size THEN n ELSE Self.size
           f == [i \in 1..n |-> IF i <= kept THEN Cell(Self.mem, CopiedFrom + i - 1) ELSE Junk]
<1>2. Copied(n) = f
  BY DEF Copied
<1>3. f \in [1..n -> Cells]
  BY <1>1, CellType, CellFacts
<1>4. \A i \in 1..n : i <= Self.size => f[i] = Cell(Self.mem, CopiedFrom + i - 1)
  BY <1>1
<1> HIDE DEF f
<1>5. f \in Seq(Cells) /\ Len(f) = n
  BY <1>3, CountedSeq
<1> QED
  BY <1>2, <1>4, <1>5

-----------------------------------------------------------------------------
(* What a user writes next.                                                *)
LEMMA TextFacts ==
    ASSUME TypeOK, NEW m, NewMsg(m)
    PROVE  LET t == Texts[written + 1]
               s == Bytes(t.body)
               h == Bytes(t.header)
           IN  /\ s \in Seq(Cells) /\ h \in Seq(Cells) /\ Len(h) < RefMax /\ Len(s) <= MaxSize
               /\ written + 1 \in 1..Len(Texts)
<1> DEFINE t == Texts[written + 1]
           s == Bytes(t.body)
           h == Bytes(t.header)
<1>1. written + 1 \in 1..Len(Texts)
  BY TextsAssumption DEF NewMsg, TypeOK
<1>2. /\ t.body \in Seq(Nat) /\ t.header \in Seq(Nat)
      /\ Len(t.header) < RefMax /\ Len(t.body) <= MaxSize
  <2>1. t \in [header : Seq(Nat), body : Seq(Nat)]
    <3>1. \A i \in 1..Len(Texts) : Texts[i] \in [header : Seq(Nat), body : Seq(Nat)]
      <4> DEFINE R == [header : Seq(Nat), body : Seq(Nat)]
      <4>1. Texts \in Seq(R)
        BY TextsAssumption
      <4> HIDE DEF R
      <4>2. \A i \in 1..Len(Texts) : Texts[i] \in R
        BY <4>1
      <4> QED
        BY <4>2 DEF R
    <3> QED
      BY <1>1, <3>1
  <2> QED
    BY <1>1, <2>1, TextsAssumption
<1>3. s \in Seq(Cells) /\ h \in Seq(Cells) /\ Len(h) < RefMax /\ Len(s) <= MaxSize
  BY <1>2, BytesFacts
<1> QED
  BY <1>1, <1>3

(* Each operation keeps the types, whatever lines are taken as written.    *)
LEMMA NewMsgType ==
    ASSUME TypeOK, NEW m \in Msg, NewMsg(m)
    PROVE  TypeOK'
<1> DEFINE t == Texts[written + 1]
           s == Bytes(t.body)
           h == Bytes(t.header)
<1>1. /\ s \in Seq(Cells) /\ h \in Seq(Cells) /\ Len(h) < RefMax /\ Len(s) <= MaxSize
      /\ written + 1 \in 1..Len(Texts)
  BY TextFacts
<1>3. s \in Seq(Cells) /\ h \in Seq(Cells) /\ Len(h) < RefMax /\ Len(s) <= MaxSize
  BY <1>1
<1>4. /\ Len(s) >= RefMax => Room(heap) # {}
      /\ heap' = HeapNewRef(heap, s)
      /\ Becomes(m, [Plain(NewRef(heap, s)) EXCEPT !["sphdr"] = Small(h)])
  BY DEF NewMsg
<1> HIDE DEF s, h
<1>5. heap \in Heaps /\ MsgOK
  BY TypeParts
<1>6. NewRef(heap, s) \in Refs /\ Proper(NewRef(heap, s)) /\ heap' \in Heaps
  BY <1>3, <1>4, <1>5, NewRefFacts
<1>7. Small(h) \in Refs /\ Proper(Small(h))
  BY <1>3, SmallFacts
<1>8. /\ Plain(NewRef(heap, s)) \in [Parts -> Refs]
      /\ \A p \in Parts : Proper(Plain(NewRef(heap, s))[p])
  BY <1>6, PlainFacts
<1>9. MsgOK'
  <2> DEFINE v == Plain(NewRef(heap, s))
  <2>1. /\ [v EXCEPT !["sphdr"] = Small(h)] \in [Parts -> Refs]
        /\ \A p \in Parts : Proper([v EXCEPT !["sphdr"] = Small(h)][p])
    <3> HIDE DEF v
    <3>1. v \in [Parts -> Refs] /\ (\A p \in Parts : Proper(v[p])) /\ "sphdr" \in Parts
      BY <1>8 DEF v, Parts
    <3> QED
      BY <1>7, <3>1, ReplaceFacts
  <2> QED
    BY <1>4, <1>5, <2>1, BecomesType
<1> QED
  BY <1>1, <1>6, <1>9, TypeParts, TypePartsNext DEF NewMsg, RawOK, RestOK

LEMMA TermMsgType ==
    ASSUME TypeOK, NEW m \in Msg, TermMsg(m)
    PROVE  TypeOK'
<1>1. heap' = Dropped(heap, CountIn(m)) /\ MisusedIn(Pointers(m)) = {}
  BY DEF TermMsg, Use, Sound
<1>2. heap' \in Heaps
  BY <1>1, TypeParts, CountFacts, CountedIsThere, DroppedFacts
<1>3. MsgOK'
  BY TypeParts, ForgetType DEF TermMsg
<1> QED
  BY <1>2, <1>3, TypeParts, TypePartsNext DEF TermMsg, Use, Sound, RawOK, RestOK

LEMMA MvMsgType ==
    ASSUME TypeOK, NEW m \in Msg, NEW d \in Msg, MvMsg(m, d)
    PROVE  TypeOK'
<1>1. MsgOK'
  BY DEF MvMsg, Idle, Live, TypeOK, MsgOK
<1> QED
  BY <1>1, TypeParts, TypePartsNext DEF MvMsg, Use, Sound, RawOK, RestOK

LEMMA CpMsgType ==
    ASSUME TypeOK, NEW m \in Msg, NEW d \in Msg, CpMsg(m, d)
    PROVE  TypeOK'
<1>1. heap' \in Heaps
  BY TypeParts, CountFacts, AddedFacts DEF CpMsg, Counted
<1>2. MsgOK'
  BY TypeParts, LiveType, BecomesType DEF CpMsg
<1> QED
  BY <1>1, <1>2, TypeParts, TypePartsNext DEF CpMsg, Use, Sound, RawOK, RestOK

LEMMA BulkStartType ==
    ASSUME TypeOK, NEW m \in Msg, NEW k \in 1..MaxCopies, BulkStart(m, k)
    PROVE  TypeOK'
<1>1. Times(CountIn(m), k) \in Counts
  <2>1. \A x \in Nat : x * k \in Nat
    BY MessageAssumption
  <2> QED
    BY <2>1, CountFacts DEF Times, Counts
<1>2. heap' \in Heaps
  BY <1>1, TypeParts, AddedFacts DEF BulkStart
<1>3. MsgOK'
  BY TypeParts DEF BulkStart, MsgOK, Live
<1>4. RestOK'
  BY MessageAssumption, TypeParts DEF BulkStart, Use, Sound, RestOK
<1> QED
  BY <1>2, <1>3, <1>4, TypeParts, TypePartsNext DEF BulkStart, RawOK

LEMMA BulkCpType ==
    ASSUME TypeOK, NEW m \in Msg, NEW d \in Msg, BulkCp(m, d)
    PROVE  TypeOK'
<1>1. MsgOK'
  BY TypeParts, LiveType, BecomesType DEF BulkCp
<1>2. RestOK'
  BY MessageAssumption, TypeParts DEF BulkCp, Use, Sound, RestOK
<1> QED
  BY <1>1, <1>2, TypeParts, TypePartsNext DEF BulkCp, Use, Sound, RawOK

(* The guard of most operations, and what they leave alone.                *)
LEMMA EditRest ==
    ASSUME RestOK, NEW P, Edit(P), lent' = lent
    PROVE  RestOK' /\ MisusedIn(P) = {}
BY MessageAssumption DEF Edit, Sound, RestOK

LEMMA UseRest ==
    ASSUME RestOK, NEW P, Use(P), lent' = lent
    PROVE  RestOK' /\ MisusedIn(P) = {}
BY DEF Use, Sound, RestOK

(* nn_chunkref_trim moves the pointer, in the same chunk.                  *)
LEMMA TrimmedRefFacts ==
    ASSUME NEW r \in Refs, Proper(r), r.big, NEW n \in Nat
    PROVE  /\ TrimmedRef(r, n) = Big(Ptr(r.at.chunk, r.at.pos + n))
           /\ TrimmedRef(r, n) \in Refs /\ Proper(TrimmedRef(r, n))
<1> DEFINE p == Ptr(r.at.chunk, r.at.pos + n)
<1>1. /\ r.at \in Ptrs /\ r.at.chunk \in Chunk /\ r.at.pos \in Nat /\ r.at.pos >= First
      /\ r.data = <<>>
  BY RefFacts
<1>2. p \in Ptrs /\ p.pos >= First
  BY <1>1 DEF Ptr, Ptrs, First
<1>3. TrimmedRef(r, n) = Big(p)
  BY DEF TrimmedRef
<1> QED
  BY <1>2, <1>3, BigFacts

LEMMA TrimMsgType ==
    ASSUME TypeOK, NEW m \in Msg, NEW p \in Parts, NEW n \in 1..MaxSize, TrimMsg(m, p, n)
    PROVE  TypeOK'
<1> DEFINE r == msg[m][p]
<1>1. /\ heap \in Heaps /\ MsgOK /\ RawOK /\ RestOK /\ Live(m)
      /\ Edit(Pointer(r)) /\ n <= Size(r) /\ heap' = HeapTrimmed(r, n)
      /\ Becomes(m, [msg[m] EXCEPT ![p] = TrimmedRef(r, n)]) /\ UNCHANGED <<raw, lent>>
  BY TypeParts DEF TrimMsg, Idle
<1>2. r \in Refs /\ Proper(r) /\ n \in Nat
  BY <1>1, LiveType
<1> HIDE DEF r
<1>3. RestOK' /\ MisusedIn(Pointer(r)) = {}
  BY <1>1, EditRest
<1>4. heap' \in Heaps /\ TrimmedRef(r, n) \in Refs /\ Proper(TrimmedRef(r, n))
  <2>1. CASE r.big
    <3>1. /\ r.at \in Ptrs /\ r.at.chunk \in Chunk /\ r.at.pos \in Nat /\ r.at.pos >= First
          /\ r.data = <<>>
      BY <1>2, <2>1, RefFacts
    <3>2. heap[r.at.chunk] \in Chunks
      <4>1. r.at \in Pointer(r)
        BY <2>1 DEF Pointer
      <4> QED
        BY <1>1, <1>3, <3>1, <4>1, SoundFacts DEF Heaps
    <3>3. n \in 0..heap[r.at.chunk].size
      BY <1>1, <1>2, <2>1 DEF Size
    <3>4. TrimmedChunk(heap[r.at.chunk], r.at.pos, n) \in Chunks
      BY <3>1, <3>2, <3>3, TrimmedFacts
    <3>5. heap' \in Heaps
      BY <1>1, <2>1, <3>1, <3>4 DEF HeapTrimmed, Heaps
    <3>6. TrimmedRef(r, n) \in Refs /\ Proper(TrimmedRef(r, n))
      BY <1>2, <2>1, <3>1, TrimmedRefFacts
    <3> QED
      BY <3>5, <3>6
  <2>2. CASE ~r.big
    <3>1. r.data \in Seq(Cells) /\ Len(r.data) < RefMax /\ n <= Len(r.data)
      BY <1>1, <1>2, <2>2, RefFacts DEF Size
    <3>2. /\ SubSeq(r.data, n + 1, Len(r.data)) \in Seq(Cells)
          /\ Len(SubSeq(r.data, n + 1, Len(r.data))) = Len(r.data) - n
      BY <1>2, <3>1
    <3>3. RefMax \in Nat /\ Len(r.data) \in Nat
      BY <3>1, MessageAssumption
    <3>4. TrimmedRef(r, n) = Small(SubSeq(r.data, n + 1, Len(r.data)))
      BY <2>2 DEF TrimmedRef
    <3>5. Len(SubSeq(r.data, n + 1, Len(r.data))) < RefMax
      BY <1>2, <3>1, <3>2, <3>3
    <3> QED
      BY <1>1, <2>2, <3>2, <3>4, <3>5, SmallFacts DEF HeapTrimmed
  <2> QED
    BY <2>1, <2>2
<1>5. MsgOK'
  <2>1. msg[m] \in [Parts -> Refs] /\ \A q \in Parts : Proper(msg[m][q])
    BY <1>1, LiveType
  <2>2. /\ [msg[m] EXCEPT ![p] = TrimmedRef(r, n)] \in [Parts -> Refs]
        /\ \A q \in Parts : Proper([msg[m] EXCEPT ![p] = TrimmedRef(r, n)][q])
    BY <1>4, <2>1, ReplaceFacts
  <2> QED
    BY <1>1, <2>2, BecomesType
<1> QED
  BY <1>1, <1>3, <1>4, <1>5, TypePartsNext DEF RawOK

(* The bytes of a message in one go, for nn_sinproc_send.                  *)
LEMMA JoinedFacts ==
    ASSUME TypeOK, NEW m \in Msg, Live(m), MisusedIn(Pointers(m)) = {}
    PROVE  /\ \A p \in Parts : Value(msg[m][p]) \in Seq(Cells)
           /\ Value(msg[m]["sphdr"]) \o Value(msg[m]["body"]) \in Seq(Cells)
<1>1. \A p \in Parts : msg[m][p] \in Refs /\ Proper(msg[m][p])
  BY TypeParts, LiveType
<1>2. \A p \in Parts : msg[m][p].big => heap[msg[m][p].at.chunk] # None
  BY SoundFacts, PointersFacts
<1>3. \A p \in Parts : Value(msg[m][p]) \in Seq(Cells)
  BY <1>1, <1>2, ValueFacts, TypeParts
<1>4. "sphdr" \in Parts /\ "body" \in Parts
  BY DEF Parts
<1> QED
  BY <1>3, <1>4, ConcatFacts

LEMMA JoinMsgType ==
    ASSUME TypeOK, NEW m \in Msg, JoinMsg(m)
    PROVE  TypeOK'
<1> DEFINE all == Value(msg[m]["sphdr"]) \o Value(msg[m]["body"])
<1>1. /\ heap \in Heaps /\ MsgOK /\ RawOK /\ RestOK /\ Live(m)
      /\ Edit(Pointers(m)) /\ Len(all) <= MaxSize /\ (Len(all) >= RefMax => Room(heap) # {})
      /\ heap' = Dropped(HeapNewRef(heap, all), CountIn(m))
      /\ Becomes(m, Plain(NewRef(heap, all))) /\ UNCHANGED <<raw, lent>>
  BY TypeParts DEF JoinMsg, Idle
<1>2. RestOK' /\ MisusedIn(Pointers(m)) = {}
  BY <1>1, EditRest
<1>3. all \in Seq(Cells)
  BY <1>1, <1>2, JoinedFacts
<1> HIDE DEF all
<1>4. /\ NewRef(heap, all) \in Refs /\ Proper(NewRef(heap, all)) /\ HeapNewRef(heap, all) \in Heaps
      /\ \A c \in Chunk : heap[c] # None => HeapNewRef(heap, all)[c] = heap[c]
  BY <1>1, <1>3, NewRefFacts
<1>5. \A c \in Chunk : CountIn(m)[c] # 0 => HeapNewRef(heap, all)[c] # None
  BY <1>2, <1>4, CountedIsThere
<1>6. heap' \in Heaps
  BY <1>1, <1>4, <1>5, CountFacts, DroppedFacts
<1>7. MsgOK'
  BY <1>1, <1>4, PlainFacts, BecomesType
<1> QED
  BY <1>1, <1>2, <1>6, <1>7, TypePartsNext DEF RawOK

LEMMA TakeBodyType ==
    ASSUME TypeOK, NEW m \in Msg, TakeBody(m)
    PROVE  TypeOK'
<1> DEFINE body == msg[m]["body"]
<1>1. /\ heap \in Heaps /\ MsgOK /\ RawOK /\ RestOK /\ Live(m) /\ Use(Pointers(m)) /\ lent' = lent
      /\ body.big \/ Room(heap) # {}
      /\ heap' = IF body.big THEN heap ELSE Allocated(heap, body.data)
      /\ raw' = IF body.big THEN body.at ELSE Ptr(Fresh(heap), First)
      /\ Becomes(m, [msg[m] EXCEPT !["body"] = LeftBehind(body)])
  BY TypeParts DEF TakeBody, Idle
<1>2. RestOK'
  BY <1>1, UseRest
<1>3. "body" \in Parts /\ body \in Refs /\ Proper(body)
  BY <1>1, LiveType DEF Parts
<1> HIDE DEF body
<1>4. LeftBehind(body) \in Refs /\ Proper(LeftBehind(body))
  BY <1>3, NothingFacts DEF LeftBehind
<1>5. MsgOK'
  <2>1. msg[m] \in [Parts -> Refs] /\ \A q \in Parts : Proper(msg[m][q])
    BY <1>1, LiveType
  <2>2. /\ [msg[m] EXCEPT !["body"] = LeftBehind(body)] \in [Parts -> Refs]
        /\ \A q \in Parts : Proper([msg[m] EXCEPT !["body"] = LeftBehind(body)][q])
    BY <1>3, <1>4, <2>1, ReplaceFacts
  <2> QED
    BY <1>1, <2>2, BecomesType
<1>6. heap' \in Heaps /\ RawOK'
  <2>1. CASE body.big
    BY <1>1, <1>3, <2>1, RefFacts DEF RawOK
  <2>2. CASE ~body.big
    <3>1. body.data \in Seq(Cells) /\ Len(body.data) < RefMax
      BY <1>3, <2>2, RefFacts
    <3>2. Len(body.data) <= MaxSize
      BY <3>1, MessageAssumption
    <3>3. Fresh(heap) \in Chunk /\ Allocated(heap, body.data) \in Heaps
      BY <1>1, <2>2, <3>1, <3>2, AllocFacts
    <3>4. Ptr(Fresh(heap), First) \in Ptrs /\ Ptr(Fresh(heap), First).pos >= First
      BY <3>3 DEF Ptr, Ptrs, First
    <3> QED
      BY <1>1, <2>2, <3>3, <3>4 DEF RawOK
  <2> QED
    BY <2>1, <2>2
<1> QED
  BY <1>2, <1>5, <1>6, TypePartsNext

LEMMA PutBodyType ==
    ASSUME TypeOK, NEW m \in Msg, PutBody(m)
    PROVE  TypeOK'
<1>1. heap \in Heaps /\ MsgOK /\ RawOK /\ RestOK /\ raw # None /\ raw' = None /\ lent' = lent
  BY TypeParts DEF PutBody
<1>2. Big(raw) \in Refs /\ Proper(Big(raw))
  BY <1>1, BigFacts DEF RawOK
<1>3. CASE Use({}) /\ Becomes(m, Plain(Big(raw))) /\ UNCHANGED heap
  <2>1. MsgOK'
    BY <1>1, <1>2, <1>3, PlainFacts, BecomesType
  <2> QED
    BY <1>1, <1>3, <2>1, UseRest, TypePartsNext DEF RawOK
<1>4. CASE /\ Idle(m) /\ Use(Pointers(m))
           /\ heap' = Dropped(heap, CountOf(msg[m]["body"]))
           /\ Becomes(m, [msg[m] EXCEPT !["body"] = Big(raw)])
  <2>1. RestOK' /\ MisusedIn(Pointers(m)) = {}
    BY <1>1, <1>4, UseRest
  <2>2. "body" \in Parts /\ Live(m)
    BY <1>4 DEF Parts, Idle
  <2>3. \A c \in Chunk : CountOf(msg[m]["body"])[c] # 0 => heap[c] # None
    <3>1. PICK r : r = msg[m]["body"]
      OBVIOUS
    <3>2. r.big => heap[r.at.chunk] # None
      BY <2>1, <2>2, <3>1, SoundFacts, PointersFacts
    <3>3. \A c \in Chunk : CountOf(r)[c] # 0 => heap[c] # None
      BY <3>2, CountOfFacts
    <3> QED
      BY <3>1, <3>3
  <2>4. heap' \in Heaps
    BY <1>1, <1>4, <2>3, CountOfFacts, DroppedFacts
  <2>5. MsgOK'
    <3>1. msg[m] \in [Parts -> Refs] /\ \A q \in Parts : Proper(msg[m][q])
      BY <1>1, <2>2, LiveType
    <3>2. /\ [msg[m] EXCEPT !["body"] = Big(raw)] \in [Parts -> Refs]
          /\ \A q \in Parts : Proper([msg[m] EXCEPT !["body"] = Big(raw)][q])
      BY <1>2, <2>2, <3>1, ReplaceFacts
    <3> QED
      BY <1>1, <1>4, <3>2, BecomesType
  <2> QED
    BY <1>1, <2>1, <2>4, <2>5, TypePartsNext DEF RawOK
<1> QED
  BY <1>3, <1>4 DEF PutBody

LEMMA FreeRawType ==
    ASSUME TypeOK, FreeRaw
    PROVE  TypeOK'
<1>1. /\ heap \in Heaps /\ MsgOK /\ RawOK /\ RestOK /\ raw # None /\ raw' = None
      /\ Use({raw}) /\ heap' = Dropped(heap, CountOf(Big(raw))) /\ UNCHANGED <<msg, lent>>
  BY TypeParts DEF FreeRaw
<1>2. RestOK' /\ MisusedIn({raw}) = {}
  BY <1>1, UseRest
<1>3. \A c \in Chunk : CountOf(Big(raw))[c] # 0 => heap[c] # None
  BY <1>2, CountOfFacts, SoundFacts, ZenonT(60) DEF Big
<1>4. heap' \in Heaps
  BY <1>1, <1>3, CountOfFacts, DroppedFacts
<1> QED
  BY <1>1, <1>2, <1>4, TypePartsNext DEF RawOK, MsgOK, Live

(* nn_chunk_realloc is called with a chunk that is there.                  *)
LEMMA ReallocFacts ==
    ASSUME TypeOK, NEW n, Realloc(n)
    PROVE  /\ heap \in Heaps /\ raw \in Ptrs /\ raw # None /\ RestOK'
           /\ raw.chunk \in Chunk /\ raw.pos \in Nat /\ raw.pos >= First
           /\ Self \in Chunks /\ Self # None /\ Self.size \in Nat /\ Self.refcount \in Nat
           /\ MsgOK' /\ MisusedIn({raw}) = {}
<1>1. /\ heap \in Heaps /\ MsgOK /\ RawOK /\ RestOK /\ raw # None /\ Edit({raw})
      /\ UNCHANGED <<msg, lent>>
  BY TypeParts DEF Realloc
<1>2. RestOK' /\ MisusedIn({raw}) = {}
  BY <1>1, EditRest
<1>3. raw \in Ptrs /\ raw.chunk \in Chunk /\ raw.pos \in Nat /\ raw.pos >= First
  BY <1>1 DEF RawOK, Ptrs
<1>4. heap[raw.chunk] # None
  BY <1>2, SoundFacts
<1>5. Self \in Chunks /\ Self # None
  BY <1>1, <1>3, <1>4 DEF Self, Heaps
<1>6. Self.size \in Nat /\ Self.refcount \in Nat
  BY <1>5, MessageAssumption DEF Chunks
<1> QED
  BY <1>1, <1>2, <1>3, <1>5, <1>6 DEF MsgOK, Live

LEMMA ShrinkType ==
    ASSUME TypeOK, NEW n \in 0..MaxSize, Shrink(n)
    PROVE  TypeOK'
<1>1. Realloc(n) /\ heap' = [heap EXCEPT ![raw.chunk] = Shrunk(Self, raw.pos, n)] /\ raw' = raw
  BY DEF Shrink, Self
<1>2. Shrunk(Self, raw.pos, n) \in Chunks
  BY <1>1, ReallocFacts, ShrunkFacts
<1>3. heap' \in Heaps
  BY <1>1, <1>2, ReallocFacts DEF Heaps
<1> QED
  BY <1>1, <1>3, ReallocFacts, TypeParts, TypePartsNext DEF RawOK

(* How far a chunk grows to the front.                                     *)
LEMMA GrowFacts ==
    ASSUME TypeOK, NEW n \in 0..MaxSize, GrowInPlace(n)
    PROVE  /\ Realloc(n) /\ Single /\ Grow(n) \in Nat /\ raw.pos - Grow(n) >= First
           /\ Self.size + Grow(n) = n /\ Self.size + Grow(n) <= MaxSize
           /\ heap' = [heap EXCEPT ![raw.chunk] = MovedToFront(Self, raw.pos, Grow(n))]
           /\ MovedToFront(Self, raw.pos, Grow(n)) \in Chunks
           /\ raw' = IF "chunk.c:93" \in slips THEN raw ELSE Ptr(raw.chunk, raw.pos - Grow(n))
           /\ raw.pos - Grow(n) \in Nat
<1>1. /\ Realloc(n) /\ Single /\ n > Self.size /\ Grow(n) <= raw.pos - First
      /\ heap' = [heap EXCEPT ![raw.chunk] = MovedToFront(Self, raw.pos, Grow(n))]
      /\ raw' = IF "chunk.c:93" \in slips THEN raw ELSE [raw EXCEPT !.pos = @ - Grow(n)]
  BY DEF GrowInPlace, NewPointer, FitsInFront, Self
<1>2. /\ Self.size \in Nat /\ raw \in Ptrs /\ raw.pos \in Nat /\ raw.pos >= First
      /\ Self \in Chunks
  BY <1>1, ReallocFacts
<1>3. n \in Nat /\ n <= MaxSize
  BY MessageAssumption
<1>4. Grow(n) \in Nat /\ Self.size + Grow(n) = n /\ raw.pos - Grow(n) >= First
  BY <1>1, <1>2, <1>3 DEF Grow, First
<1>5. MovedToFront(Self, raw.pos, Grow(n)) \in Chunks
  BY <1>2, <1>3, <1>4, MovedFacts
<1>6. [raw EXCEPT !.pos = @ - Grow(n)] = Ptr(raw.chunk, raw.pos - Grow(n))
  BY <1>2 DEF Ptrs, Ptr
<1>7. raw.pos - Grow(n) \in Nat
  BY <1>2, <1>4 DEF First
<1> QED
  BY <1>1, <1>3, <1>4, <1>5, <1>6, <1>7

LEMMA GrowInPlaceType ==
    ASSUME TypeOK, NEW n \in 0..MaxSize, GrowInPlace(n)
    PROVE  TypeOK'
<1>1. heap' \in Heaps
  BY GrowFacts, ReallocFacts DEF Heaps
<1>2. RawOK'
  BY GrowFacts, ReallocFacts DEF RawOK, Ptrs, Ptr
<1> QED
  BY <1>1, <1>2, GrowFacts, ReallocFacts, TypePartsNext

LEMMA GrowElsewhereType ==
    ASSUME TypeOK, NEW n \in 0..MaxSize, GrowElsewhere(n)
    PROVE  TypeOK'
<1>1. /\ Realloc(n) /\ Room(heap) # {} /\ raw' = Ptr(Fresh(heap), First)
      /\ heap' = Dropped(Allocated(heap, Copied(n)), CountOf(Big(raw)))
  BY DEF GrowElsewhere
<1>2. n \in Nat /\ n <= MaxSize
  BY MessageAssumption
<1>3. heap \in Heaps /\ RawOK /\ raw # None /\ Self # None
  BY <1>1, ReallocFacts, TypeParts
<1>4. Copied(n) \in Seq(Cells) /\ Len(Copied(n)) = n
  BY <1>2, <1>3, CopiedFacts
<1>5. /\ Fresh(heap) \in Chunk /\ heap[Fresh(heap)] = None
      /\ Allocated(heap, Copied(n)) \in Heaps
      /\ \A c \in Chunk : c # Fresh(heap) => Allocated(heap, Copied(n))[c] = heap[c]
  BY <1>1, <1>2, <1>3, <1>4, AllocFacts
<1>6. \A c \in Chunk : CountOf(Big(raw))[c] # 0 => c = raw.chunk
  BY CountOfFacts DEF Big
<1>7. \A c \in Chunk : CountOf(Big(raw))[c] # 0 => Allocated(heap, Copied(n))[c] # None
  BY <1>3, <1>5, <1>6 DEF Self
<1>8. heap' \in Heaps
  BY <1>1, <1>5, <1>7, CountOfFacts, DroppedFacts
<1>9. RawOK'
  BY <1>1, <1>5 DEF RawOK, Ptr, Ptrs, First
<1> QED
  BY <1>1, <1>8, <1>9, ReallocFacts, TypePartsNext

(* Where the code as written goes wrong, nothing but abort changes.        *)
LEMMA AbortType ==
    ASSUME TypeOK, abort' \subseteq Slips \cup {"freed", "chunk.c:154", "chunk.c:155"},
           UNCHANGED <<heap, msg, raw, lent, written, edits, slips>>
    PROVE  TypeOK'
BY TypeParts, TypePartsNext DEF MsgOK, RawOK, RestOK, Live

LEMMA MisusedNames ==
    \A P : MisusedIn(P) \subseteq Slips \cup {"freed", "chunk.c:154", "chunk.c:155"}
BY DEF MisusedIn, Misused, Failed

(* Every step keeps the types.                                             *)
LEMMA NextType == TypeOK /\ [Next]_vars => TypeOK'
<1> SUFFICES ASSUME TypeOK, [Next]_vars PROVE TypeOK'
  OBVIOUS
<1>1. ASSUME NEW m \in Msg, \/ NewMsg(m) \/ TermMsg(m) \/ JoinMsg(m) \/ TakeBody(m) \/ PutBody(m)
      PROVE  TypeOK'
  BY <1>1, NewMsgType, TermMsgType, JoinMsgType, TakeBodyType, PutBodyType
<1>2. ASSUME NEW m \in Msg, SizeOfSmall(m) PROVE TypeOK'
  BY <1>2, AbortType DEF SizeOfSmall, Slips
<1>3. ASSUME NEW m \in Msg, NEW d \in Msg, MvMsg(m, d) \/ CpMsg(m, d) \/ BulkCp(m, d)
      PROVE  TypeOK'
  BY <1>3, MvMsgType, CpMsgType, BulkCpType
<1>4. ASSUME NEW m \in Msg, NEW k \in 1..MaxCopies, BulkStart(m, k) PROVE TypeOK'
  BY <1>4, BulkStartType
<1>5. ASSUME NEW m \in Msg, NEW p \in Parts, NEW n \in 1..MaxSize, TrimMsg(m, p, n) PROVE TypeOK'
  BY <1>5, TrimMsgType
<1>6. CASE FreeRaw
  BY <1>6, FreeRawType
<1>7. ASSUME NEW n \in 0..MaxSize, Shrink(n) \/ GrowInPlace(n) \/ GrowElsewhere(n) PROVE TypeOK'
  BY <1>7, ShrinkType, GrowInPlaceType, GrowElsewhereType
<1>8. ASSUME NEW n \in 0..MaxSize, Overrun(n) PROVE TypeOK'
  BY <1>8, AbortType DEF Overrun, Slips
<1>9. CASE Misusing
  BY <1>9, AbortType, MisusedNames DEF Misusing, Misuse
<1>10. CASE UNCHANGED vars
  BY <1>10, AbortType, TypeParts DEF vars, RestOK
<1> QED
  BY <1>1, <1>2, <1>3, <1>4, <1>5, <1>6, <1>7, <1>8, <1>9, <1>10 DEF Next

(* Chunks, messages, references and pointers are what they should be,      *)
(* whichever lines are taken as written.                                   *)
THEOREM TypeCorrect == Spec => []TypeOK
<1>1. Init => TypeOK
  BY MessageAssumption, TextsAssumption DEF Init, TypeOK, Live
<1> QED
  BY <1>1, NextType, PTL DEF Spec

-----------------------------------------------------------------------------
(* References are counted.  Those of one message:                          *)
Of(m, c) == {x \in InMessages(c) : x[1] = m}

Weight(m, c) == IF Live(m) THEN CountIn(m)[c] * (lent[m] + 1) ELSE 0

LEMMA InMessagesFacts ==
    ASSUME NEW c
    PROVE  /\ \A m, p, k : <<m, <<p, k>>>> \in InMessages(c) <=>
                 /\ m \in Msg /\ p \in Parts /\ k \in 0..MaxCopies
                 /\ Live(m) /\ Pointing(m, p, c) /\ k <= lent[m]
           /\ \A x \in InMessages(c) : /\ x = <<x[1], <<x[2][1], x[2][2]>>>>
                                      /\ x[1] \in Msg /\ x[2][1] \in Parts
BY DEF InMessages, Places

LEMMA InMessagesFinite ==
    ASSUME NEW c
    PROVE  IsFiniteSet(InMessages(c)) /\ Cardinality(InMessages(c)) \in Nat
<1>1. IsFiniteSet(Parts)
  <2>1. Parts = ({"sphdr"} \cup {"hdrs"}) \cup {"body"}
    BY DEF Parts
  <2>2. IsFiniteSet({"sphdr"})
    BY FS_Singleton
  <2> QED
    BY <2>1, <2>2, FS_AddElement
<1>2. IsFiniteSet(0..MaxCopies)
  BY MessageAssumption, FS_Interval
<1>3. IsFiniteSet(Places)
  BY <1>1, <1>2, MessageAssumption, FS_Product DEF Places
<1>4. InMessages(c) \in SUBSET Places
  BY DEF InMessages
<1> QED
  BY <1>3, <1>4, FS_Subset, FS_CardinalityType

(* Every big part counts once for the message and once for each copy that  *)
(* is announced.                                                           *)
LEMMA OfFacts ==
    ASSUME lent \in [Msg -> 0..MaxCopies], NEW m \in Msg, NEW c \in Chunk
    PROVE  IsFiniteSet(Of(m, c)) /\ Cardinality(Of(m, c)) = Weight(m, c) /\ Weight(m, c) \in Nat
<1>1. CASE ~Live(m)
  <2>1. Of(m, c) = {}
    BY <1>1, InMessagesFacts DEF Of
  <2> QED
    BY <1>1, <2>1, FS_EmptySet DEF Weight
<1>2. CASE Live(m)
  <2> DEFINE L == 0..lent[m]
             P == Pointings(m, c)
  <2>1. lent[m] \in Nat /\ lent[m] <= MaxCopies
    BY MessageAssumption
  <2>2. Of(m, c) = {m} \X (P \X L)
    <3>1. L \subseteq 0..MaxCopies
      BY <2>1, MessageAssumption
    <3>2. ASSUME NEW x \in Of(m, c) PROVE x \in {m} \X (P \X L)
      <4>1. x \in InMessages(c) /\ x[1] = m
        BY DEF Of
      <4>2. x = <<m, <<x[2][1], x[2][2]>>>>
        BY <4>1, InMessagesFacts
      <4>3. x[2][1] \in Parts /\ x[2][2] \in 0..MaxCopies /\ Pointing(m, x[2][1], c) /\ x[2][2] <= lent[m]
        BY <4>1, <4>2, InMessagesFacts
      <4>4. x[2][1] \in P /\ x[2][2] \in L
        BY <2>1, <4>3, MessageAssumption DEF Pointings
      <4> HIDE DEF P, L
      <4> QED
        BY <4>2, <4>4
    <3>3. ASSUME NEW p \in P, NEW k \in L PROVE <<m, <<p, k>>>> \in Of(m, c)
      <4>1. <<m, <<p, k>>>> \in InMessages(c)
        BY <1>2, <2>1, <3>1, InMessagesFacts DEF Pointings
      <4> QED
        BY <4>1 DEF Of
    <3> HIDE DEF P, L
    <3>4. \A x \in {m} \X (P \X L) : \E p \in P, k \in L : x = <<m, <<p, k>>>>
      OBVIOUS
    <3> QED
      BY <3>2, <3>3, <3>4
  <2>3. IsFiniteSet(P) /\ Cardinality(P) = CountIn(m)[c] /\ CountIn(m)[c] \in Nat
    BY CountFacts DEF Counts
  <2>4. IsFiniteSet(L) /\ Cardinality(L) = lent[m] + 1
    BY <2>1, FS_Interval
  <2> HIDE DEF L, P
  <2>5. IsFiniteSet(P \X L) /\ Cardinality(P \X L) = CountIn(m)[c] * (lent[m] + 1)
    BY <2>3, <2>4, FS_Product
  <2>6. IsFiniteSet({m}) /\ Cardinality({m}) = 1
    BY FS_Singleton
  <2>7. IsFiniteSet({m} \X (P \X L)) /\ Cardinality({m} \X (P \X L)) = 1 * Cardinality(P \X L)
    BY <2>5, <2>6, FS_Product
  <2>8. CountIn(m)[c] * (lent[m] + 1) \in Nat
    BY <2>1, <2>3
  <2> QED
    BY <1>2, <2>2, <2>5, <2>7, <2>8 DEF Weight
<1> QED
  BY <1>1, <1>2

OfRight ==
    lent \in [Msg -> 0..MaxCopies] =>
       \A m \in Msg, c \in Chunk :
          IsFiniteSet(Of(m, c)) /\ Cardinality(Of(m, c)) = Weight(m, c) /\ Weight(m, c) \in Nat

LEMMA OfIsRight == OfRight
BY OfFacts DEF OfRight

LEMMA OfFactsNext == OfRight'
BY OfIsRight, PTL

(* The references that messages outside of D hold are the same when these  *)
(* are the same.                                                           *)
LEMMA OthersSame ==
    ASSUME NEW D, \A m \in Msg \ D : msg'[m] = msg[m] /\ lent'[m] = lent[m], NEW c
    PROVE  {x \in InMessages(c)' : x[1] \notin D} = {x \in InMessages(c) : x[1] \notin D}
BY DEF InMessages, Places, Live, Pointing

LEMMA DisjointUnion ==
    ASSUME NEW S, NEW T, IsFiniteSet(S), IsFiniteSet(T), S \cap T = {}
    PROVE  /\ IsFiniteSet(S \cup T) /\ Cardinality(S \cup T) = Cardinality(S) + Cardinality(T)
           /\ Cardinality(S) \in Nat /\ Cardinality(T) \in Nat
<1>1. /\ Cardinality(S \cup T) = Cardinality(S) + Cardinality(T) - Cardinality(S \cap T)
      /\ IsFiniteSet(S \cup T)
  BY FS_Union
<1>2. Cardinality(S) \in Nat /\ Cardinality(T) \in Nat
  BY FS_CardinalityType
<1>3. Cardinality(S \cap T) = 0
  BY FS_EmptySet, Zenon
<1> QED
  BY <1>1, <1>2, <1>3

(* When one message changes, the number of references changes by what this *)
(* message holds.                                                          *)
LEMMA OneChanges ==
    ASSUME lent \in [Msg -> 0..MaxCopies], lent' \in [Msg -> 0..MaxCopies], NEW d \in Msg,
           \A m \in Msg \ {d} : msg'[m] = msg[m] /\ lent'[m] = lent[m], NEW c \in Chunk
    PROVE  /\ Cardinality(InMessages(c)') = Cardinality(InMessages(c)) - Weight(d, c) + Weight(d, c)'
           /\ Weight(d, c) <= Cardinality(InMessages(c))
           /\ Weight(d, c) \in Nat /\ Weight(d, c)' \in Nat /\ Cardinality(InMessages(c)) \in Nat
<1> DEFINE A == {x \in InMessages(c) : x[1] \notin {d}}
           B == Of(d, c)
           C == Of(d, c)'
<1>1. {x \in InMessages(c)' : x[1] \notin {d}} = A
  BY OthersSame
<1>2. InMessages(c) = A \cup B /\ A \cap B = {}
  BY DEF Of
<1>3. InMessages(c)' = A \cup C /\ A \cap C = {}
  BY <1>1 DEF Of
<1>4. /\ IsFiniteSet(B) /\ Cardinality(B) = Weight(d, c) /\ Weight(d, c) \in Nat
      /\ IsFiniteSet(C) /\ Cardinality(C) = Weight(d, c)' /\ Weight(d, c)' \in Nat
  BY OfFacts, OfFactsNext DEF OfRight
<1>5. IsFiniteSet(InMessages(c)) /\ Cardinality(InMessages(c)) \in Nat
  BY InMessagesFinite
<1>6. IsFiniteSet(A) /\ Cardinality(A) \in Nat
  <2>1. A \in SUBSET InMessages(c)
    OBVIOUS
  <2> QED
    BY <1>5, <2>1, FS_Subset, FS_CardinalityType
<1> HIDE DEF A, B, C
<1>7. /\ Cardinality(A \cup B) = Cardinality(A) + Cardinality(B) - Cardinality(A \cap B)
      /\ Cardinality(A \cup C) = Cardinality(A) + Cardinality(C) - Cardinality(A \cap C)
  BY <1>4, <1>6, FS_Union
<1>8. Cardinality({}) = 0
  BY FS_EmptySet
<1> QED
  BY <1>2, <1>3, <1>4, <1>5, <1>6, <1>7, <1>8

(* When two messages change.                                               *)
LEMMA TwoChange ==
    ASSUME lent \in [Msg -> 0..MaxCopies], lent' \in [Msg -> 0..MaxCopies],
           NEW d \in Msg, NEW e \in Msg, d # e,
           \A m \in Msg \ {d, e} : msg'[m] = msg[m] /\ lent'[m] = lent[m], NEW c \in Chunk
    PROVE  /\ Cardinality(InMessages(c)') = Cardinality(InMessages(c))
                 - Weight(d, c) + Weight(d, c)' - Weight(e, c) + Weight(e, c)'
           /\ Cardinality(InMessages(c)) \in Nat
<1> DEFINE A == {x \in InMessages(c) : x[1] \notin {d, e}}
           B1 == Of(d, c)
           B2 == Of(e, c)
           C1 == Of(d, c)'
           C2 == Of(e, c)'
           B == B1 \cup B2
           C == C1 \cup C2
<1>1. {x \in InMessages(c)' : x[1] \notin {d, e}} = A
  BY OthersSame
<1>2. InMessages(c) = A \cup B /\ A \cap B = {} /\ B1 \cap B2 = {}
  BY DEF Of
<1>3. InMessages(c)' = A \cup C /\ A \cap C = {} /\ C1 \cap C2 = {}
  BY <1>1 DEF Of
<1>4. /\ IsFiniteSet(B1) /\ Cardinality(B1) = Weight(d, c) /\ Weight(d, c) \in Nat
      /\ IsFiniteSet(C1) /\ Cardinality(C1) = Weight(d, c)' /\ Weight(d, c)' \in Nat
      /\ IsFiniteSet(B2) /\ Cardinality(B2) = Weight(e, c) /\ Weight(e, c) \in Nat
      /\ IsFiniteSet(C2) /\ Cardinality(C2) = Weight(e, c)' /\ Weight(e, c)' \in Nat
  BY OfFacts, OfFactsNext DEF OfRight
<1>5. IsFiniteSet(InMessages(c)) /\ Cardinality(InMessages(c)) \in Nat
  BY InMessagesFinite
<1>6. IsFiniteSet(A)
  <2>1. A \in SUBSET InMessages(c)
    OBVIOUS
  <2> QED
    BY <1>5, <2>1, FS_Subset
<1> HIDE DEF A, B1, B2, C1, C2
<1>7. IsFiniteSet(B) /\ Cardinality(B) = Weight(d, c) + Weight(e, c)
  BY <1>2, <1>4, DisjointUnion
<1>8. IsFiniteSet(C) /\ Cardinality(C) = Weight(d, c)' + Weight(e, c)'
  BY <1>3, <1>4, DisjointUnion
<1> HIDE DEF B, C
<1>9. /\ Cardinality(InMessages(c)) = Cardinality(A) + Cardinality(B)
      /\ Cardinality(InMessages(c)') = Cardinality(A) + Cardinality(C)
      /\ Cardinality(A) \in Nat
  BY <1>2, <1>3, <1>6, <1>7, <1>8, DisjointUnion
<1> QED
  BY <1>4, <1>5, <1>7, <1>8, <1>9

-----------------------------------------------------------------------------
(* What a message counts after an operation.                               *)
LEMMA PointingsPrime ==
    ASSUME NEW m
    PROVE  \A c \in Chunk : CountIn(m)'[c] = Cardinality(Pointings(m, c)')
BY DEF CountIn, Pointings

LEMMA ReplacedCount ==
    ASSUME NEW m, NEW q \in Parts, NEW r, msg[m] \in [Parts -> Refs],
           msg'[m] = [msg[m] EXCEPT ![q] = r], NEW c \in Chunk
    PROVE  /\ CountIn(m)'[c] = CountIn(m)[c] - CountOf(msg[m][q])[c] + CountOf(r)[c]
           /\ CountOf(msg[m][q])[c] <= CountIn(m)[c]
<1> DEFINE P == Pointings(m, c)
           Q == Pointings(m, c)'
           old == Pointing(m, q, c)
           new == r.big /\ r.at.chunk = c
<1>1. P \ {q} = Q \ {q}
  BY DEF Pointings, Pointing
<1>2. q \in P <=> old
  BY DEF Pointings
<1>3. q \in Q <=> new
  BY DEF Pointings, Pointing
<1>4. CountOf(msg[m][q])[c] = IF old THEN 1 ELSE 0
  BY DEF CountOf, Pointing
<1>5. CountOf(r)[c] = IF new THEN 1 ELSE 0
  BY DEF CountOf
<1>6. IsFiniteSet(P) /\ CountIn(m)[c] = Cardinality(P) /\ Cardinality(P) \in Nat
  BY CountFacts, FS_CardinalityType
<1>7. CountIn(m)'[c] = Cardinality(Q)
  BY PointingsPrime
<1> HIDE DEF P, Q, old, new
<1>8. /\ IsFiniteSet(P \ {q})
      /\ Cardinality(P \ {q}) = IF q \in P THEN Cardinality(P) - 1 ELSE Cardinality(P)
  BY <1>6, FS_RemoveElement
<1>9. Q = IF new THEN (P \ {q}) \cup {q} ELSE P \ {q}
  BY <1>1, <1>3
<1>10. Cardinality((P \ {q}) \cup {q}) = Cardinality(P \ {q}) + 1
  BY <1>8, FS_AddElement
<1>11. Cardinality(P \ {q}) \in Nat
  BY <1>8, FS_CardinalityType
<1>12. Cardinality(Q) = Cardinality(P \ {q}) + IF new THEN 1 ELSE 0
  BY <1>9, <1>10, <1>11
<1> QED
  BY <1>2, <1>4, <1>5, <1>6, <1>7, <1>8, <1>11, <1>12

LEMMA PlainCount ==
    ASSUME NEW m, NEW r \in Refs, Proper(r), NEW c \in Chunk,
           \/ msg'[m] = Plain(r)
           \/ \E s : msg'[m] = [Plain(r) EXCEPT !["sphdr"] = Small(s)]
    PROVE  CountIn(m)'[c] = CountOf(r)[c]
<1> DEFINE Q == Pointings(m, c)'
           new == r.big /\ r.at.chunk = c
<1>1. /\ msg'[m]["body"] = r
      /\ \A p \in Parts : p # "body" => ~msg'[m][p].big
  <2>1. \A s : ~Small(s).big
    BY DEF Small
  <2>2. /\ Plain(r) \in [Parts -> Refs] /\ Plain(r)["body"] = r
        /\ \A p \in Parts : p # "body" => Plain(r)[p] = Small(<<>>)
    BY PlainFacts
  <2>3. "sphdr" \in Parts /\ "body" \in Parts /\ "sphdr" # "body"
    BY DEF Parts
  <2>4. CASE msg'[m] = Plain(r)
    BY <2>1, <2>2, <2>4
  <2>5. CASE \E s : msg'[m] = [Plain(r) EXCEPT !["sphdr"] = Small(s)]
    <3>1. PICK s : msg'[m] = [Plain(r) EXCEPT !["sphdr"] = Small(s)]
      BY <2>5
    <3>2. PICK v \in [Parts -> Refs] : v = Plain(r)
      BY <2>2
    <3> QED
      BY <2>1, <2>2, <2>3, <3>1, <3>2
  <2> QED
    BY <2>4, <2>5
<1>2. "body" \in Parts
  BY DEF Parts
<1>3. Q = IF new THEN {"body"} ELSE {}
  BY <1>1, <1>2 DEF Pointings, Pointing
<1>4. Cardinality({"body"}) = 1 /\ Cardinality({}) = 0
  BY FS_Singleton, FS_EmptySet
<1>5. CountIn(m)'[c] = Cardinality(Q)
  BY PointingsPrime
<1>6. CountOf(r)[c] = IF new THEN 1 ELSE 0
  BY DEF CountOf
<1> HIDE DEF Q, new
<1>7. CASE new
  BY <1>3, <1>4, <1>5, <1>6, <1>7
<1>8. CASE ~new
  BY <1>3, <1>4, <1>5, <1>6, <1>8
<1> QED
  BY <1>7, <1>8

LEMMA SameCount ==
    ASSUME NEW m, NEW d, msg'[d] = msg[m], NEW c \in Chunk
    PROVE  CountIn(d)'[c] = CountIn(m)[c]
BY DEF CountIn, Pointing

-----------------------------------------------------------------------------
(* f tells how many references there are to each chunk, and the heap's     *)
(* counters agree.                                                         *)
CountsOK(h, f) ==
    \A c \in Chunk : f[c] \in Nat /\ IF h[c] = None THEN f[c] = 0 ELSE h[c].refcount = f[c]

(* A chunk that stays keeps its bytes where they are.                      *)
Keeps(h, g) ==
    \A c \in Chunk : h[c] # None /\ g[c] # None => g[c].size = h[c].size /\ g[c].mem = h[c].mem

Less(f, n) == [c \in Chunk |-> f[c] - n[c]]
More(f, n) == [c \in Chunk |-> f[c] + n[c]]

LEMMA DropCounts ==
    ASSUME NEW h \in Heaps, NEW n \in Counts, NEW f, CountsOK(h, f), \A c \in Chunk : n[c] <= f[c]
    PROVE  /\ CountsOK(Dropped(h, n), Less(f, n)) /\ Keeps(h, Dropped(h, n))
           /\ \A c \in Chunk : n[c] # 0 => h[c] # None
<1>1. \A c \in Chunk : n[c] \in Nat /\ f[c] \in Nat
  BY DEF Counts, CountsOK
<1>2. \A c \in Chunk : n[c] # 0 => h[c] # None
  BY <1>1 DEF CountsOK
<1>3. ASSUME NEW c \in Chunk
      PROVE  /\ Less(f, n)[c] \in Nat
             /\ IF Dropped(h, n)[c] = None THEN Less(f, n)[c] = 0
                ELSE Dropped(h, n)[c].refcount = Less(f, n)[c]
             /\ h[c] # None /\ Dropped(h, n)[c] # None =>
                   Dropped(h, n)[c].size = h[c].size /\ Dropped(h, n)[c].mem = h[c].mem
  <2>1. /\ n[c] = 0 => Dropped(h, n)[c] = h[c]
        /\ n[c] # 0 /\ h[c].refcount <= n[c] => Dropped(h, n)[c] = None
        /\ n[c] # 0 /\ ~(h[c].refcount <= n[c]) =>
              /\ Dropped(h, n)[c] = [h[c] EXCEPT !.refcount = @ - n[c]]
              /\ Dropped(h, n)[c] \in Chunks
    BY <1>2, DroppedFacts
  <2>2. Less(f, n)[c] = f[c] - n[c] /\ f[c] - n[c] \in Nat
    BY <1>1 DEF Less
  <2>3. IF h[c] = None THEN f[c] = 0 ELSE h[c].refcount = f[c]
    BY DEF CountsOK
  <2>4. CASE n[c] = 0
    BY <1>1, <2>1, <2>2, <2>3, <2>4
  <2>5. CASE n[c] # 0
    <3>1. h[c] \in Chunks /\ h[c] # None
      BY <1>2, <2>5 DEF Heaps
    <3>2. CASE h[c].refcount <= n[c]
      BY <1>1, <2>1, <2>2, <2>3, <2>5, <3>1, <3>2
    <3>3. CASE ~(h[c].refcount <= n[c])
      <4>1. /\ [h[c] EXCEPT !.refcount = @ - n[c]].refcount = h[c].refcount - n[c]
            /\ [h[c] EXCEPT !.refcount = @ - n[c]].size = h[c].size
            /\ [h[c] EXCEPT !.refcount = @ - n[c]].mem = h[c].mem
        BY <3>1 DEF Chunks
      <4>2. Dropped(h, n)[c] # None
        BY <2>1, <2>5, <3>3, NoneAssumption
      <4> QED
        BY <2>1, <2>2, <2>3, <2>5, <3>1, <3>3, <4>1, <4>2
    <3> QED
      BY <3>2, <3>3
  <2> QED
    BY <2>4, <2>5
<1> QED
  BY <1>2, <1>3 DEF CountsOK, Keeps

LEMMA AddCounts ==
    ASSUME NEW h \in Heaps, NEW n \in Counts, NEW f, CountsOK(h, f),
           \A c \in Chunk : n[c] # 0 => f[c] # 0
    PROVE  CountsOK(Added(h, n), More(f, n)) /\ Keeps(h, Added(h, n))
<1>1. \A c \in Chunk : n[c] \in Nat /\ f[c] \in Nat
  BY DEF Counts, CountsOK
<1>2. ASSUME NEW c \in Chunk
      PROVE  /\ More(f, n)[c] \in Nat
             /\ IF Added(h, n)[c] = None THEN More(f, n)[c] = 0
                ELSE Added(h, n)[c].refcount = More(f, n)[c]
             /\ h[c] # None /\ Added(h, n)[c] # None =>
                   Added(h, n)[c].size = h[c].size /\ Added(h, n)[c].mem = h[c].mem
  <2>1. More(f, n)[c] = f[c] + n[c] /\ f[c] + n[c] \in Nat
    BY <1>1 DEF More
  <2>2. IF h[c] = None THEN f[c] = 0 ELSE h[c].refcount = f[c]
    BY DEF CountsOK
  <2>3. CASE h[c] = None
    BY <1>1, <2>1, <2>2, <2>3, AddedFacts
  <2>4. CASE h[c] # None
    <3>1. h[c] \in Chunks
      BY <2>4 DEF Heaps
    <3>2. /\ [h[c] EXCEPT !.refcount = @ + n[c]].refcount = h[c].refcount + n[c]
          /\ [h[c] EXCEPT !.refcount = @ + n[c]].size = h[c].size
          /\ [h[c] EXCEPT !.refcount = @ + n[c]].mem = h[c].mem
      BY <3>1 DEF Chunks
    <3>3. Added(h, n)[c] = [h[c] EXCEPT !.refcount = @ + n[c]] /\ Added(h, n)[c] # None
      BY <2>4, AddedFacts, NoneAssumption
    <3> QED
      BY <2>1, <2>2, <2>4, <3>2, <3>3
  <2> QED
    BY <2>3, <2>4
<1> QED
  BY <1>2 DEF CountsOK, Keeps

LEMMA AllocCounts ==
    ASSUME NEW h \in Heaps, Room(h) # {}, NEW s \in Seq(Cells), Len(s) <= MaxSize,
           NEW f \in [Chunk -> Nat], CountsOK(h, f)
    PROVE  /\ CountsOK(Allocated(h, s), [f EXCEPT ![Fresh(h)] = 1]) /\ Keeps(h, Allocated(h, s))
           /\ f[Fresh(h)] = 0
<1>1. /\ Fresh(h) \in Chunk /\ h[Fresh(h)] = None
      /\ Allocated(h, s)[Fresh(h)] = NewChunk(s) /\ NewChunk(s) \in Chunks
      /\ \A c \in Chunk : c # Fresh(h) => Allocated(h, s)[c] = h[c]
  BY AllocFacts
<1>2. NewChunk(s) # None /\ NewChunk(s).refcount = 1
  BY <1>1, NoneAssumption DEF NewChunk
<1> HIDE DEF NewChunk, Fresh, Allocated
<1> QED
  BY <1>1, <1>2 DEF CountsOK, Keeps


-----------------------------------------------------------------------------
(* The inductive invariant.  A pointer of a message or of a user leads     *)
(* behind a header of its chunk, and the chunk is as long as it says; the  *)
(* counters are true; no copies of a message are announced that is none.   *)
Behind(h, p) ==
    /\ h[p.chunk] # None
    /\ p.pos - 1 + h[p.chunk].size <= Len(h[p.chunk].mem)
    /\ h[p.chunk].mem[p.pos - 1] = Tag
    /\ h[p.chunk].mem[p.pos - 2] = Off(p.pos - First)

Held ==
    (UNION {Pointers(m) : m \in {x \in Msg : Live(x)}}) \cup (IF raw # None THEN {raw} ELSE {})

PointersInv == \A p \in Held : Behind(heap, p)
Announced   == \A m \in Msg : ~Live(m) => lent[m] = 0
CountsInv   == \A c \in Chunk : IF heap[c] = None THEN References(c) = 0
                                ELSE heap[c].refcount = References(c)
IInv == TypeOK /\ Announced /\ (slips = {} => Alive /\ PointersInv /\ CountsInv)

RefFn == [c \in Chunk |-> References(c)]

RawCount(c) == IF raw # None /\ raw.chunk = c THEN 1 ELSE 0

LEMMA ReferencesFacts ==
    ASSUME NEW c \in Chunk
    PROVE  /\ References(c) = Cardinality(InMessages(c)) + RawCount(c) /\ RefFn[c] = References(c)
           /\ References(c) \in Nat /\ RawCount(c) \in {0, 1} /\ Cardinality(InMessages(c)) \in Nat
BY InMessagesFinite DEF References, RefFn, RawCount

ReferencesRight ==
    \A c \in Chunk :
       /\ References(c) = Cardinality(InMessages(c)) + RawCount(c) /\ RefFn[c] = References(c)
       /\ References(c) \in Nat /\ RawCount(c) \in {0, 1} /\ Cardinality(InMessages(c)) \in Nat

LEMMA ReferencesAreRight == ReferencesRight
BY ReferencesFacts DEF ReferencesRight

LEMMA ReferencesNext == ReferencesRight'
BY ReferencesAreRight, PTL

LEMMA CountsParts == CountsInv <=> CountsOK(heap, RefFn)
BY ReferencesFacts DEF CountsInv, CountsOK

CountsPartsFact == CountsInv <=> CountsOK(heap, RefFn)

LEMMA CountsPartsNext == CountsPartsFact'
<1>1. CountsPartsFact
  BY CountsParts DEF CountsPartsFact
<1> QED
  BY <1>1, PTL

(* To show that the counters are true it is enough to know how many        *)
(* references there are.                                                   *)
LEMMA CountsHold ==
    ASSUME NEW f, CountsOK(heap', f), \A c \in Chunk : RefFn'[c] = f[c]
    PROVE  CountsInv'
<1>1. CountsOK(heap', RefFn')
  BY DEF CountsOK
<1>2. CountsOK(heap, RefFn)' <=> CountsOK(heap', RefFn')
  BY DEF CountsOK
<1> QED
  BY <1>1, <1>2, CountsPartsNext DEF CountsPartsFact

LEMMA HeldFacts ==
    /\ \A p : p \in Held <=> \/ raw # None /\ p = raw
                             \/ \E m \in Msg : Live(m) /\ p \in Pointers(m)
    /\ \A m \in Msg, p \in Parts : Live(m) /\ msg[m][p].big => msg[m][p].at \in Held
BY PointersFacts DEF Held

HeldIs ==
    \A p : p \in Held <=> \/ raw # None /\ p = raw
                          \/ \E m \in Msg, q \in Parts :
                                Live(m) /\ msg[m][q].big /\ p = msg[m][q].at

LEMMA HeldIsSo == HeldIs
BY HeldFacts, PointersFacts DEF HeldIs

LEMMA HeldNext == HeldIs'
BY HeldIsSo, PTL

LEMMA HeldType ==
    ASSUME TypeOK, NEW p \in Held
    PROVE  p \in Ptrs /\ p.chunk \in Chunk /\ p.pos \in Nat /\ p.pos >= First
<1>1. MsgOK /\ RawOK
  BY TypeParts
<1>2. CASE raw # None /\ p = raw
  BY <1>1, <1>2 DEF RawOK, Ptrs
<1>3. ASSUME NEW m \in Msg, NEW q \in Parts, Live(m), msg[m][q].big, p = msg[m][q].at
      PROVE  p \in Ptrs /\ p.chunk \in Chunk /\ p.pos \in Nat /\ p.pos >= First
  <2>1. msg[m][q] \in Refs /\ Proper(msg[m][q])
    BY <1>1, <1>3, LiveType
  <2> QED
    BY <1>3, <2>1, RefFacts
<1> QED
  BY <1>2, <1>3, HeldIsSo DEF HeldIs

(* Who holds a pointer is counted.                                         *)
LEMMA HeldIsCounted ==
    ASSUME TypeOK, NEW p \in Held
    PROVE  References(p.chunk) # 0
<1>1. p.chunk \in Chunk
  BY HeldType
<1>2. /\ References(p.chunk) = Cardinality(InMessages(p.chunk)) + RawCount(p.chunk)
      /\ Cardinality(InMessages(p.chunk)) \in Nat /\ RawCount(p.chunk) \in {0, 1}
  BY <1>1, ReferencesFacts
<1>3. CASE raw # None /\ p = raw
  BY <1>2, <1>3 DEF RawCount
<1>4. ASSUME NEW m \in Msg, NEW q \in Parts, Live(m), msg[m][q].big, p = msg[m][q].at
      PROVE  References(p.chunk) # 0
  <2>1. lent[m] \in Nat /\ 0 \in 0..MaxCopies
    BY MessageAssumption DEF TypeOK
  <2>2. <<m, <<q, 0>>>> \in InMessages(p.chunk)
    BY <1>4, <2>1, InMessagesFacts DEF Pointing
  <2>3. Cardinality(InMessages(p.chunk)) # 0
    BY <2>2, InMessagesFinite, FS_EmptySet
  <2> QED
    BY <1>2, <2>3
<1> QED
  BY <1>3, <1>4, HeldIsSo DEF HeldIs

HeldCounted == TypeOK => \A p \in Held : References(p.chunk) # 0 /\ p.chunk \in Chunk

LEMMA HeldCountedNext == HeldCounted'
<1>1. HeldCounted
  BY HeldIsCounted, HeldType DEF HeldCounted
<1> QED
  BY <1>1, PTL

(* A chunk that is counted once has one holder.                            *)
LEMMA Lone ==
    ASSUME TypeOK, NEW c \in Chunk, References(c) = 1,
           NEW m \in Msg, NEW q \in Parts, Live(m), Pointing(m, q, c)
    PROVE  /\ ~(raw # None /\ raw.chunk = c)
           /\ \A n \in Msg, p \in Parts : Live(n) /\ Pointing(n, p, c) => n = m /\ p = q
<1>1. \A n \in Msg : lent[n] \in Nat /\ 0 \in 0..MaxCopies
  BY MessageAssumption DEF TypeOK
<1>2. <<m, <<q, 0>>>> \in InMessages(c)
  BY <1>1, InMessagesFacts
<1>3. IsFiniteSet(InMessages(c)) /\ Cardinality(InMessages(c)) \in Nat
  BY InMessagesFinite
<1>4. Cardinality(InMessages(c)) # 0
  BY <1>2, <1>3, FS_EmptySet
<1>5. Cardinality(InMessages(c)) = 1 /\ RawCount(c) = 0
  BY <1>3, <1>4, ReferencesFacts
<1>6. PICK x : InMessages(c) = {x}
  BY <1>3, <1>5, FS_Singleton
<1>7. \A n \in Msg, p \in Parts : Live(n) /\ Pointing(n, p, c) => <<n, <<p, 0>>>> \in InMessages(c)
  BY <1>1, InMessagesFacts
<1>8. \A n \in Msg, p \in Parts :
         Live(n) /\ Pointing(n, p, c) => <<n, <<p, 0>>>> = <<m, <<q, 0>>>>
  BY <1>2, <1>6, <1>7
<1> QED
  BY <1>5, <1>8 DEF RawCount

LEMMA LoneRaw ==
    ASSUME TypeOK, raw # None, References(raw.chunk) = 1
    PROVE  \A n \in Msg, p \in Parts : ~(Live(n) /\ Pointing(n, p, raw.chunk))
<1> DEFINE c == raw.chunk
<1>1. c \in Chunk
  BY DEF TypeOK, Ptrs
<1>2. IsFiniteSet(InMessages(c)) /\ Cardinality(InMessages(c)) \in Nat
  BY InMessagesFinite
<1>3. RawCount(c) = 1
  BY DEF RawCount
<1>4. Cardinality(InMessages(c)) = 0
  BY <1>1, <1>2, <1>3, ReferencesFacts
<1>5. InMessages(c) = {}
  BY <1>2, <1>4, FS_EmptySet
<1>6. \A n \in Msg : lent[n] \in Nat /\ 0 \in 0..MaxCopies
  BY MessageAssumption DEF TypeOK
<1>7. \A n \in Msg, p \in Parts : Live(n) /\ Pointing(n, p, c) => <<n, <<p, 0>>>> \in InMessages(c)
  BY <1>6, InMessagesFacts
<1> QED
  BY <1>5, <1>7

(* A pointer that leads behind a header is no misuse.                      *)
LEMMA BehindIsSound ==
    ASSUME TypeOK, PointersInv, NEW p \in Held
    PROVE  Misused(p) = {}
<1>1. p.chunk \in Chunk /\ p.pos \in Nat /\ p.pos >= First
  BY HeldType
<1>2. heap[p.chunk] \in Chunks /\ Behind(heap, p)
  BY <1>1 DEF PointersInv, Behind, TypeOK
<1> DEFINE mem == heap[p.chunk].mem
<1>3. mem \in Seq(Cells) /\ heap[p.chunk].size \in Nat
  BY <1>2, MessageAssumption DEF Chunks
<1>4. /\ p.pos - 1 + heap[p.chunk].size <= Len(mem) /\ mem[p.pos - 1] = Tag
      /\ mem[p.pos - 2] = Off(p.pos - First) /\ heap[p.chunk] # None
  BY <1>2 DEF Behind
<1> HIDE DEF mem
<1>5. p.pos - 1 \in DOMAIN mem /\ p.pos - 2 \in DOMAIN mem
  BY <1>1, <1>3, <1>4 DEF First
<1>6. Cell(mem, p.pos - 1) = Tag /\ Cell(mem, p.pos - 2) = Off(p.pos - First)
  BY <1>4, <1>5 DEF Cell
<1> QED
  BY <1>4, <1>6 DEF Misused, Failed, mem

(* Pointers that are kept lead where they led: their chunks are counted,   *)
(* so they are still there, and what is there keeps its bytes.             *)
LEMMA PointersKept ==
    ASSUME PointersInv, TypeOK', CountsInv', Keeps(heap, heap'),
           \A p \in Held' : p \in Held \/ Behind(heap', p)
    PROVE  PointersInv'
<1> SUFFICES ASSUME NEW p \in Held' PROVE Behind(heap', p)
  BY DEF PointersInv, Behind
<1>1. CASE p \in Held
  <2>1. Behind(heap, p)
    BY <1>1 DEF PointersInv
  <2>2. References(p.chunk)' # 0 /\ p.chunk \in Chunk
    BY HeldCountedNext DEF HeldCounted
  <2>3. heap'[p.chunk] # None
    BY <2>2 DEF CountsInv
  <2> QED
    BY <2>1, <2>2, <2>3 DEF Behind, Keeps
<1> QED
  BY <1>1


-----------------------------------------------------------------------------
(* What holds while every line is taken as meant, and must hold again.     *)
Good == TypeOK /\ slips = {} /\ Announced /\ PointersInv /\ CountsInv
Kept == PointersInv' /\ CountsInv'

LEMMA GoodFacts ==
    ASSUME Good
    PROVE  /\ heap \in Heaps /\ MsgOK /\ RawOK /\ RestOK /\ CountsOK(heap, RefFn)
           /\ lent \in [Msg -> 0..MaxCopies] /\ RefFn \in [Chunk -> Nat]
           /\ \A m \in Msg : ~Live(m) => lent[m] = 0
           /\ \A m, c : ~Live(m) => Weight(m, c) = 0
           /\ (\A p \in Held : Behind(heap, p)) /\ PointersInv /\ slips = {} /\ TypeOK
BY TypeParts, CountsParts, ReferencesFacts DEF Good, RestOK, RefFn, Announced, Weight, PointersInv

LEMMA WeightFacts ==
    ASSUME lent \in [Msg -> 0..MaxCopies], NEW m \in Msg, NEW c \in Chunk
    PROVE  /\ Weight(m, c) \in Nat /\ Weight(m, c) + RawCount(c) <= RefFn[c]
           /\ CountIn(m)[c] \in Nat
           /\ Live(m) => CountIn(m)[c] <= Weight(m, c)
           /\ Live(m) /\ lent[m] = 0 => Weight(m, c) = CountIn(m)[c]
<1>1. Weight(m, c) \in Nat /\ Weight(m, c) = Cardinality(Of(m, c))
  BY OfFacts
<1>2. Of(m, c) \in SUBSET InMessages(c)
  BY DEF Of
<1>3. Weight(m, c) <= Cardinality(InMessages(c))
  BY <1>1, <1>2, InMessagesFinite, FS_Subset
<1>4. RefFn[c] = Cardinality(InMessages(c)) + RawCount(c) /\ RawCount(c) \in {0, 1}
      /\ Cardinality(InMessages(c)) \in Nat
  BY ReferencesFacts
<1>5. CountIn(m)[c] \in Nat /\ lent[m] \in Nat
  BY CountFacts, MessageAssumption DEF Counts
<1>6. Live(m) => Weight(m, c) = CountIn(m)[c] * (lent[m] + 1)
  BY DEF Weight
<1>7. CountIn(m)[c] * (lent[m] + 1) >= CountIn(m)[c]
  <2>1. \A a, b \in Nat : a * (b + 1) >= a
    <3>1. \A a, b \in Nat : a * b \in Nat /\ a * (b + 1) = a * b + a
      OBVIOUS
    <3> QED
      BY <3>1
  <2> QED
    BY <1>5, <2>1
<1>8. lent[m] = 0 => CountIn(m)[c] * (lent[m] + 1) = CountIn(m)[c]
  BY <1>5
<1> QED
  BY <1>1, <1>3, <1>4, <1>5, <1>6, <1>7, <1>8

(* How many references there are when one message and what the user holds  *)
(* change.                                                                 *)
LEMMA OneReferences ==
    ASSUME lent \in [Msg -> 0..MaxCopies], lent' \in [Msg -> 0..MaxCopies], NEW d \in Msg,
           \A m \in Msg \ {d} : msg'[m] = msg[m] /\ lent'[m] = lent[m], NEW c \in Chunk
    PROVE  RefFn'[c] = RefFn[c] - Weight(d, c) + Weight(d, c)' - RawCount(c) + RawCount(c)'
<1>1. /\ Cardinality(InMessages(c)') = Cardinality(InMessages(c)) - Weight(d, c) + Weight(d, c)'
      /\ Weight(d, c) \in Nat /\ Weight(d, c)' \in Nat /\ Cardinality(InMessages(c)) \in Nat
  BY OneChanges
<1>2. RefFn[c] = Cardinality(InMessages(c)) + RawCount(c) /\ RawCount(c) \in {0, 1}
  BY ReferencesFacts
<1>3. RefFn'[c] = Cardinality(InMessages(c)') + RawCount(c)' /\ RawCount(c)' \in {0, 1}
  BY ReferencesNext DEF ReferencesRight
<1> QED
  BY <1>1, <1>2, <1>3

(* When no message changes.                                                *)
LEMMA NoneReferences ==
    ASSUME msg' = msg, lent' = lent, NEW c \in Chunk
    PROVE  RefFn'[c] = RefFn[c] - RawCount(c) + RawCount(c)'
<1>1. InMessages(c)' = InMessages(c)
  BY DEF InMessages, Places, Live, Pointing
<1>2. /\ RefFn[c] = Cardinality(InMessages(c)) + RawCount(c) /\ RawCount(c) \in {0, 1}
      /\ Cardinality(InMessages(c)) \in Nat
  BY ReferencesFacts
<1>3. RefFn'[c] = Cardinality(InMessages(c)') + RawCount(c)' /\ RawCount(c)' \in {0, 1}
  BY ReferencesNext DEF ReferencesRight
<1> QED
  BY <1>1, <1>2, <1>3

(* A message that is live in the next state, and of which no copies are    *)
(* announced, weighs what it counts.                                       *)
WeightNow(m, c) ==
    /\ ~Live(m) => Weight(m, c) = 0
    /\ Live(m) /\ lent[m] = 0 /\ CountIn(m)[c] \in Nat => Weight(m, c) = CountIn(m)[c]

LEMMA WeightNext == ASSUME NEW m, NEW c PROVE WeightNow(m, c)'
<1>1. \A a \in Nat : a * (0 + 1) = a
  OBVIOUS
<1> QED
  BY <1>1 DEF WeightNow, Weight, Live

(* The first byte of a new chunk stands behind a header.                   *)
LEMMA NewIsBehind ==
    ASSUME slips = {}, NEW h \in Heaps, Room(h) # {}, NEW s \in Seq(Cells), Len(s) <= MaxSize
    PROVE  Behind(Allocated(h, s), Ptr(Fresh(h), First))
<1>1. /\ Allocated(h, s)[Fresh(h)] = NewChunk(s) /\ NewChunk(s) \in Chunks
  BY AllocFacts
<1>2. NewChunk(s) # None
  BY <1>1, NoneAssumption
<1>3. Header = <<Off(0), Tag>>
  BY DEF Header
<1>4. /\ Len(Header \o s) = Len(s) + 2 /\ (Header \o s)[1] = Off(0) /\ (Header \o s)[2] = Tag
  BY <1>3, HeaderFacts
<1>5. NewChunk(s).size = Len(s) /\ NewChunk(s).mem = Header \o s
  BY DEF NewChunk
<1>6. Ptr(Fresh(h), First).chunk = Fresh(h) /\ Ptr(Fresh(h), First).pos = 3
  BY DEF Ptr, First
<1> HIDE DEF NewChunk
<1>7. First = 3 /\ Len(s) \in Nat
  BY DEF First
<1> QED
  BY <1>1, <1>2, <1>4, <1>5, <1>6, <1>7 DEF Behind

(* A new reference counts once, and what was there stays.                  *)
LEMMA NewRefCounts ==
    ASSUME slips = {}, NEW h \in Heaps, NEW s \in Seq(Cells), Len(s) <= MaxSize,
           Len(s) >= RefMax => Room(h) # {}, NEW f \in [Chunk -> Nat], CountsOK(h, f)
    PROVE  /\ CountsOK(HeapNewRef(h, s), More(f, CountOf(NewRef(h, s))))
           /\ \A c \in Chunk : h[c] # None => HeapNewRef(h, s)[c] = h[c]
           /\ NewRef(h, s).big => /\ Behind(HeapNewRef(h, s), NewRef(h, s).at)
                                  /\ h[NewRef(h, s).at.chunk] = None
<1> DEFINE r == NewRef(h, s)
           g == HeapNewRef(h, s)
<1>1. /\ IF Len(s) < RefMax THEN r = Small(s) /\ g = h
         ELSE r = Big(Ptr(Fresh(h), First)) /\ g = Allocated(h, s)
      /\ \A c \in Chunk : h[c] # None => g[c] = h[c]
  BY NewRefFacts
<1>2. Len(s) \in Nat /\ RefMax \in Nat
  BY MessageAssumption
<1>3. \A c \in Chunk : CountOf(r)[c] = IF r.big /\ r.at.chunk = c THEN 1 ELSE 0
  BY CountOfFacts
<1> HIDE DEF r, g
<1>4. CASE Len(s) < RefMax
  <2>1. r = Small(s) /\ g = h /\ ~Small(s).big
    BY <1>1, <1>4 DEF Small
  <2>2. \A c \in Chunk : More(f, CountOf(r))[c] = f[c]
    BY <1>3, <2>1 DEF More
  <2>3. CountsOK(g, More(f, CountOf(r)))
    BY <2>1, <2>2 DEF CountsOK
  <2> QED
    BY <1>1, <2>1, <2>3 DEF r, g
<1>5. CASE ~(Len(s) < RefMax)
  <2>1. Room(h) # {}
    BY <1>2, <1>5
  <2>2. /\ r = Big(Ptr(Fresh(h), First)) /\ g = Allocated(h, s)
        /\ r.big /\ r.at = Ptr(Fresh(h), First) /\ r.at.chunk = Fresh(h)
    BY <1>1, <1>5 DEF Big, Ptr
  <2>3. CountsOK(g, [f EXCEPT ![Fresh(h)] = 1]) /\ f[Fresh(h)] = 0
    BY <2>1, <2>2, AllocCounts
  <2>4. h[Fresh(h)] = None /\ Fresh(h) \in Chunk
    BY <2>1, AllocFacts
  <2>5. Behind(g, r.at)
    BY <2>1, <2>2, NewIsBehind
  <2>6. \A c \in Chunk : More(f, CountOf(r))[c] = [f EXCEPT ![Fresh(h)] = 1][c]
    BY <1>3, <2>2, <2>3, <2>4 DEF More
  <2>7. CountsOK(g, More(f, CountOf(r)))
    BY <2>3, <2>6 DEF CountsOK
  <2> QED
    BY <1>1, <2>2, <2>4, <2>5, <2>7 DEF r, g
<1> QED
  BY <1>4, <1>5


-----------------------------------------------------------------------------
(* What another message holds it still holds, and the part of a message    *)
(* that is made anew holds its own pointer.                                *)
LEMMA HeldBecomes ==
    ASSUME NEW m \in Msg, \A n \in Msg \ {m} : msg'[n] = msg[n], NEW p \in Held'
    PROVE  \/ raw' # None /\ p = raw'
           \/ \E n \in Msg \ {m}, q \in Parts : Live(n) /\ msg[n][q].big /\ p = msg[n][q].at
           \/ \E q \in Parts : Live(m)' /\ msg'[m][q].big /\ p = msg'[m][q].at
<1>1. \/ raw' # None /\ p = raw'
      \/ \E n \in Msg, q \in Parts : Live(n)' /\ msg'[n][q].big /\ p = msg'[n][q].at
  BY HeldNext DEF HeldIs
<1> QED
  BY <1>1 DEF Live

LEMMA PlainHolds ==
    ASSUME NEW m, NEW r \in Refs, Proper(r), NEW q \in Parts, msg'[m][q].big,
           \/ msg'[m] = Plain(r)
           \/ \E s : msg'[m] = [Plain(r) EXCEPT !["sphdr"] = Small(s)]
    PROVE  r.big /\ msg'[m][q] = r
<1>1. \A s : ~Small(s).big
  BY DEF Small
<1>2. /\ Plain(r) \in [Parts -> Refs] /\ Plain(r)["body"] = r
      /\ \A p \in Parts : p # "body" => Plain(r)[p] = Small(<<>>)
  BY PlainFacts
<1>3. "sphdr" \in Parts /\ "body" \in Parts /\ "sphdr" # "body"
  BY DEF Parts
<1>4. CASE msg'[m] = Plain(r)
  BY <1>1, <1>2, <1>4
<1>5. CASE \E s : msg'[m] = [Plain(r) EXCEPT !["sphdr"] = Small(s)]
  <2>1. PICK s : msg'[m] = [Plain(r) EXCEPT !["sphdr"] = Small(s)]
    BY <1>5
  <2>2. PICK v \in [Parts -> Refs] : v = Plain(r)
    BY <1>2
  <2> QED
    BY <1>1, <1>2, <1>3, <2>1, <2>2
<1> QED
  BY <1>4, <1>5

LEMMA NewMsgKeeps ==
    ASSUME Good, TypeOK', NEW m \in Msg, NewMsg(m)
    PROVE  Kept /\ Keeps(heap, heap') /\ Live(m)'
<1> DEFINE t == Texts[written + 1]
           s == Bytes(t.body)
           h == Bytes(t.header)
           r == NewRef(heap, s)
<1>1. s \in Seq(Cells) /\ Len(s) <= MaxSize /\ h \in Seq(Cells) /\ Len(h) < RefMax
  BY TextFacts DEF Good
<1>2. /\ Len(s) >= RefMax => Room(heap) # {}
      /\ heap' = HeapNewRef(heap, s)
      /\ Becomes(m, [Plain(r) EXCEPT !["sphdr"] = Small(h)])
      /\ ~Live(m) /\ UNCHANGED <<raw, lent>>
  BY DEF NewMsg
<1> HIDE DEF s, h
<1>3. /\ slips = {} /\ heap \in Heaps /\ MsgOK /\ CountsOK(heap, RefFn) /\ RefFn \in [Chunk -> Nat]
      /\ lent \in [Msg -> 0..MaxCopies] /\ lent[m] = 0 /\ PointersInv
      /\ \A c \in Chunk : Weight(m, c) = 0
  BY <1>2, GoodFacts
<1>4. /\ CountsOK(heap', More(RefFn, CountOf(r)))
      /\ \A c \in Chunk : heap[c] # None => heap'[c] = heap[c]
      /\ r.big => Behind(heap', r.at)
  BY <1>1, <1>2, <1>3, NewRefCounts
<1>5. r \in Refs /\ Proper(r)
  BY <1>1, <1>2, <1>3, NewRefFacts
<1> HIDE DEF r
<1>6. /\ \A n \in Msg \ {m} : msg'[n] = msg[n] /\ lent'[n] = lent[n]
      /\ msg'[m] = [Plain(r) EXCEPT !["sphdr"] = Small(h)]
      /\ lent' \in [Msg -> 0..MaxCopies] /\ lent'[m] = 0
  BY <1>2, <1>3 DEF Becomes, MsgOK
<1>7. Live(m)'
  <2>1. /\ Plain(r) \in [Parts -> Refs] /\ "sphdr" \in Parts
        /\ \A p \in Parts : Proper(Plain(r)[p])
    BY <1>5, PlainFacts DEF Parts
  <2>2. Small(h) \in Refs /\ Proper(Small(h))
    BY <1>1, SmallFacts
  <2>3. [Plain(r) EXCEPT !["sphdr"] = Small(h)] \in [Parts -> Refs]
    BY <2>1, <2>2, ReplaceFacts
  <2> QED
    BY <1>6, <2>3, NoneAssumption DEF Live
<1>8. \A c \in Chunk : RefFn'[c] = More(RefFn, CountOf(r))[c]
  <2> SUFFICES ASSUME NEW c \in Chunk PROVE RefFn'[c] = More(RefFn, CountOf(r))[c]
    OBVIOUS
  <2>1. CountIn(m)'[c] = CountOf(r)[c]
    BY <1>5, <1>6, PlainCount
  <2>2. CountOf(r)[c] \in Nat /\ RefFn[c] \in Nat
    BY <1>3, CountOfFacts DEF Counts
  <2>3. Weight(m, c)' = CountOf(r)[c]
    BY <1>6, <1>7, <2>1, <2>2, WeightNext DEF WeightNow
  <2>4. RefFn'[c] = RefFn[c] - Weight(m, c) + Weight(m, c)' - RawCount(c) + RawCount(c)'
    BY <1>3, <1>6, OneReferences
  <2>5. RawCount(c)' = RawCount(c) /\ RawCount(c) \in {0, 1}
    BY <1>2 DEF RawCount
  <2> QED
    BY <1>3, <2>2, <2>3, <2>4, <2>5 DEF More
<1>9. CountsInv'
  BY <1>4, <1>8, CountsHold
<1>10. Keeps(heap, heap')
  BY <1>4 DEF Keeps
<1>11. ASSUME NEW p \in Held' PROVE p \in Held \/ Behind(heap', p)
  BY <1>2, <1>4, <1>5, <1>6, HeldBecomes, PlainHolds, HeldIsSo DEF HeldIs
<1> QED
  BY <1>3, <1>7, <1>9, <1>10, <1>11, PointersKept DEF Kept


LEMMA TermMsgKeeps ==
    ASSUME Good, TypeOK', NEW m \in Msg, TermMsg(m)
    PROVE  Kept /\ Keeps(heap, heap')
<1>1. /\ heap' = Dropped(heap, CountIn(m)) /\ Becomes(m, None) /\ UNCHANGED <<raw, lent>>
      /\ Live(m) /\ lent[m] = 0
  BY DEF TermMsg, Idle
<1>2. /\ heap \in Heaps /\ MsgOK /\ CountsOK(heap, RefFn) /\ RefFn \in [Chunk -> Nat]
      /\ lent \in [Msg -> 0..MaxCopies] /\ PointersInv
  BY GoodFacts
<1>3. CountIn(m) \in Counts /\ \A c \in Chunk : CountIn(m)[c] <= RefFn[c] /\ RawCount(c) \in {0, 1}
  <2>1. CountIn(m) \in Counts
    BY CountFacts
  <2> SUFFICES ASSUME NEW c \in Chunk PROVE CountIn(m)[c] <= RefFn[c] /\ RawCount(c) \in {0, 1}
    BY <2>1
  <2>2. Weight(m, c) = CountIn(m)[c] /\ Weight(m, c) + RawCount(c) <= RefFn[c] /\ Weight(m, c) \in Nat
    BY <1>1, <1>2, WeightFacts
  <2>3. RawCount(c) \in {0, 1} /\ RefFn[c] \in Nat
    BY <1>2, ReferencesFacts
  <2> QED
    BY <2>2, <2>3
<1>4. CountsOK(heap', Less(RefFn, CountIn(m))) /\ Keeps(heap, heap')
  BY <1>1, <1>2, <1>3, DropCounts
<1>5. /\ \A n \in Msg \ {m} : msg'[n] = msg[n] /\ lent'[n] = lent[n]
      /\ msg'[m] = None /\ lent' \in [Msg -> 0..MaxCopies]
  BY <1>1, <1>2 DEF Becomes, MsgOK
<1>6. \A c \in Chunk : RefFn'[c] = Less(RefFn, CountIn(m))[c]
  <2> SUFFICES ASSUME NEW c \in Chunk PROVE RefFn'[c] = Less(RefFn, CountIn(m))[c]
    OBVIOUS
  <2>1. Weight(m, c)' = 0
    BY <1>5, WeightNext DEF WeightNow, Live
  <2>2. Weight(m, c) = CountIn(m)[c] /\ CountIn(m)[c] \in Nat /\ RefFn[c] \in Nat
    BY <1>1, <1>2, WeightFacts
  <2>3. RefFn'[c] = RefFn[c] - Weight(m, c) + Weight(m, c)' - RawCount(c) + RawCount(c)'
    BY <1>2, <1>5, OneReferences
  <2>4. RawCount(c)' = RawCount(c)
    BY <1>1 DEF RawCount
  <2>5. RawCount(c) \in {0, 1}
    BY <1>3
  <2> QED
    BY <2>1, <2>2, <2>3, <2>4, <2>5 DEF Less
<1>7. CountsInv'
  BY <1>4, <1>6, CountsHold
<1>8. ASSUME NEW p \in Held' PROVE p \in Held
  BY <1>1, <1>5, HeldBecomes, HeldIsSo DEF HeldIs, Live
<1> QED
  BY <1>2, <1>4, <1>7, <1>8, PointersKept DEF Kept

(* How many references there are when two messages change.                 *)
LEMMA TwoReferences ==
    ASSUME lent \in [Msg -> 0..MaxCopies], lent' \in [Msg -> 0..MaxCopies],
           NEW d \in Msg, NEW e \in Msg, d # e, raw' = raw,
           \A m \in Msg \ {d, e} : msg'[m] = msg[m] /\ lent'[m] = lent[m], NEW c \in Chunk,
           Weight(d, c) + Weight(e, c) = Weight(d, c)' + Weight(e, c)'
    PROVE  RefFn'[c] = RefFn[c]
<1>1. Cardinality(InMessages(c)') = Cardinality(InMessages(c))
                 - Weight(d, c) + Weight(d, c)' - Weight(e, c) + Weight(e, c)'
  BY TwoChange
<1>2. /\ RefFn[c] = Cardinality(InMessages(c)) + RawCount(c) /\ RawCount(c) \in {0, 1}
      /\ Cardinality(InMessages(c)) \in Nat
  BY ReferencesFacts
<1>3. RefFn'[c] = Cardinality(InMessages(c)') + RawCount(c)' /\ RawCount(c)' \in {0, 1}
  BY ReferencesNext DEF ReferencesRight
<1>4. RawCount(c)' = RawCount(c)
  BY DEF RawCount
<1>5. /\ Weight(d, c) \in Nat /\ Weight(e, c) \in Nat
      /\ Weight(d, c)' \in Nat /\ Weight(e, c)' \in Nat
  BY OfFacts, OfFactsNext DEF OfRight
<1> QED
  BY <1>1, <1>2, <1>3, <1>4, <1>5

LEMMA MvMsgKeeps ==
    ASSUME Good, TypeOK', NEW m \in Msg, NEW d \in Msg, MvMsg(m, d)
    PROVE  Kept /\ Keeps(heap, heap')
<1>1. /\ msg' = [msg EXCEPT ![d] = msg[m], ![m] = None] /\ UNCHANGED <<heap, raw, lent>>
      /\ Live(m) /\ lent[m] = 0 /\ ~Live(d) /\ m # d
  BY DEF MvMsg, Idle, Live
<1>2. /\ heap \in Heaps /\ MsgOK /\ CountsOK(heap, RefFn) /\ RefFn \in [Chunk -> Nat]
      /\ lent \in [Msg -> 0..MaxCopies] /\ PointersInv
  BY GoodFacts
<1>3. /\ msg'[d] = msg[m] /\ msg'[m] = None
      /\ \A n \in Msg \ {m, d} : msg'[n] = msg[n] /\ lent'[n] = lent[n]
      /\ lent' \in [Msg -> 0..MaxCopies] /\ lent'[d] = 0
  BY <1>1, <1>2, GoodFacts DEF MsgOK
<1>4. \A c \in Chunk : RefFn'[c] = RefFn[c]
  <2> SUFFICES ASSUME NEW c \in Chunk PROVE RefFn'[c] = RefFn[c]
    OBVIOUS
  <2>1. Weight(m, c) = CountIn(m)[c] /\ CountIn(m)[c] \in Nat /\ Weight(d, c) = 0
    BY <1>1, <1>2, WeightFacts, GoodFacts
  <2>2. Weight(m, c)' = 0
    BY <1>3, WeightNext DEF WeightNow, Live
  <2>3. CountIn(d)'[c] = CountIn(m)[c] /\ Live(d)'
    BY <1>1, <1>3, SameCount DEF Live
  <2>4. Weight(d, c)' = CountIn(m)[c]
    BY <1>3, <2>1, <2>3, WeightNext DEF WeightNow
  <2>5. Weight(m, c) + Weight(d, c) = Weight(m, c)' + Weight(d, c)'
    BY <2>1, <2>2, <2>4
  <2>6. raw' = raw /\ m # d /\ \A n \in Msg \ {m, d} : msg'[n] = msg[n] /\ lent'[n] = lent[n]
    BY <1>1, <1>3
  <2> QED
    BY <1>2, <1>3, <2>5, <2>6, TwoReferences
<1>5. CountsInv'
  BY <1>1, <1>2, <1>4, CountsHold
<1>6. ASSUME NEW p \in Held' PROVE p \in Held
  <2>1. CASE raw' # None /\ p = raw'
    BY <1>1, <2>1, HeldIsSo DEF HeldIs
  <2>2. ASSUME NEW n \in Msg, NEW q \in Parts, Live(n)', msg'[n][q].big, p = msg'[n][q].at
        PROVE  p \in Held
    <3>1. CASE n = d
      BY <1>1, <1>3, <2>2, <3>1, HeldIsSo DEF HeldIs
    <3>2. CASE n # d
      BY <1>3, <2>2, <3>2, HeldIsSo DEF HeldIs, Live
    <3> QED
      BY <3>1, <3>2
  <2> QED
    BY <2>1, <2>2, HeldNext DEF HeldIs
<1>7. Keeps(heap, heap')
  BY <1>1 DEF Keeps
<1> QED
  BY <1>2, <1>5, <1>6, <1>7, PointersKept DEF Kept

(* A copy of a message holds what the message holds.                       *)
LEMMA CopyHolds ==
    ASSUME MsgOK, NEW m \in Msg, NEW d \in Msg, Live(m), Becomes(d, msg[m]), raw' = raw, NEW p \in Held'
    PROVE  p \in Held
<1>1. msg'[d] = msg[m] /\ \A n \in Msg \ {d} : msg'[n] = msg[n]
  BY DEF Becomes, MsgOK
<1> QED
  BY <1>1, HeldBecomes, HeldIsSo DEF HeldIs

LEMMA CpMsgKeeps ==
    ASSUME Good, TypeOK', NEW m \in Msg, NEW d \in Msg, CpMsg(m, d)
    PROVE  Kept /\ Keeps(heap, heap')
<1>1. /\ heap' = Added(heap, CountIn(m)) /\ Becomes(d, msg[m]) /\ UNCHANGED <<raw, lent>>
      /\ Live(m) /\ ~Live(d)
  BY DEF CpMsg, Counted
<1>2. /\ heap \in Heaps /\ MsgOK /\ CountsOK(heap, RefFn) /\ RefFn \in [Chunk -> Nat]
      /\ lent \in [Msg -> 0..MaxCopies] /\ PointersInv /\ lent[d] = 0
  BY <1>1, GoodFacts
<1>3. CountIn(m) \in Counts /\ \A c \in Chunk : CountIn(m)[c] # 0 => RefFn[c] # 0
  <2>1. CountIn(m) \in Counts
    BY CountFacts
  <2> SUFFICES ASSUME NEW c \in Chunk PROVE CountIn(m)[c] # 0 => RefFn[c] # 0
    BY <2>1
  <2>2. /\ CountIn(m)[c] <= Weight(m, c) /\ Weight(m, c) + RawCount(c) <= RefFn[c]
        /\ Weight(m, c) \in Nat /\ CountIn(m)[c] \in Nat
    BY <1>1, <1>2, WeightFacts
  <2>3. RawCount(c) \in {0, 1}
    BY ReferencesFacts
  <2> QED
    BY <2>2, <2>3
<1>4. CountsOK(heap', More(RefFn, CountIn(m))) /\ Keeps(heap, heap')
  BY <1>1, <1>2, <1>3, AddCounts
<1>5. /\ \A n \in Msg \ {d} : msg'[n] = msg[n] /\ lent'[n] = lent[n]
      /\ msg'[d] = msg[m] /\ lent' \in [Msg -> 0..MaxCopies] /\ lent'[d] = 0
  BY <1>1, <1>2 DEF Becomes, MsgOK
<1>6. \A c \in Chunk : RefFn'[c] = More(RefFn, CountIn(m))[c]
  <2> SUFFICES ASSUME NEW c \in Chunk PROVE RefFn'[c] = More(RefFn, CountIn(m))[c]
    OBVIOUS
  <2>1. CountIn(d)'[c] = CountIn(m)[c] /\ Live(d)' /\ CountIn(m)[c] \in Nat
    BY <1>1, <1>3, <1>5, SameCount DEF Live, Counts
  <2>2. Weight(d, c)' = CountIn(m)[c]
    BY <1>5, <2>1, WeightNext DEF WeightNow
  <2>3. Weight(d, c) = 0 /\ RefFn[c] \in Nat
    BY <1>1, <1>2, GoodFacts
  <2>4. RefFn'[c] = RefFn[c] - Weight(d, c) + Weight(d, c)' - RawCount(c) + RawCount(c)'
    BY <1>2, <1>5, OneReferences
  <2>5. RawCount(c)' = RawCount(c) /\ RawCount(c) \in {0, 1}
    BY <1>1 DEF RawCount
  <2> QED
    BY <2>1, <2>2, <2>3, <2>4, <2>5 DEF More
<1>7. CountsInv'
  BY <1>4, <1>6, CountsHold
<1>8. ASSUME NEW p \in Held' PROVE p \in Held
  BY <1>1, <1>2, CopyHolds
<1> QED
  BY <1>2, <1>4, <1>7, <1>8, PointersKept DEF Kept


LEMMA BulkStartKeeps ==
    ASSUME Good, TypeOK', NEW m \in Msg, NEW k \in 1..MaxCopies, BulkStart(m, k)
    PROVE  Kept /\ Keeps(heap, heap')
<1> DEFINE w == Times(CountIn(m), k)
<1>1. /\ heap' = Added(heap, w) /\ lent' = [lent EXCEPT ![m] = k] /\ UNCHANGED <<msg, raw>>
      /\ Live(m) /\ lent[m] = 0
  BY DEF BulkStart
<1>2. /\ heap \in Heaps /\ MsgOK /\ CountsOK(heap, RefFn) /\ RefFn \in [Chunk -> Nat]
      /\ lent \in [Msg -> 0..MaxCopies] /\ PointersInv
  BY GoodFacts
<1>3. k \in Nat /\ \A c \in Chunk : CountIn(m)[c] \in Nat
  BY MessageAssumption, CountFacts DEF Counts
<1>4. /\ \A x \in Nat : x * k \in Nat /\ x * (k + 1) = x * k + x
      /\ 0 * k = 0
  BY <1>3
<1>5. w \in Counts /\ \A c \in Chunk : w[c] = CountIn(m)[c] * k
  BY <1>3, <1>4 DEF Times, Counts
<1>6. \A c \in Chunk : w[c] # 0 => RefFn[c] # 0
  <2> SUFFICES ASSUME NEW c \in Chunk, w[c] # 0 PROVE RefFn[c] # 0
    OBVIOUS
  <2>1. CountIn(m)[c] # 0
    BY <1>4, <1>5
  <2>2. /\ CountIn(m)[c] <= Weight(m, c) /\ Weight(m, c) + RawCount(c) <= RefFn[c]
        /\ Weight(m, c) \in Nat /\ CountIn(m)[c] \in Nat
    BY <1>1, <1>2, WeightFacts
  <2>3. RawCount(c) \in {0, 1}
    BY ReferencesFacts
  <2> QED
    BY <2>1, <2>2, <2>3
<1> HIDE DEF w
<1>7. CountsOK(heap', More(RefFn, w)) /\ Keeps(heap, heap')
  BY <1>1, <1>2, <1>5, <1>6, AddCounts
<1>8. /\ \A n \in Msg \ {m} : msg'[n] = msg[n] /\ lent'[n] = lent[n]
      /\ lent' \in [Msg -> 0..MaxCopies] /\ lent'[m] = k
  BY <1>1, <1>2
<1>9. \A c \in Chunk : RefFn'[c] = More(RefFn, w)[c]
  <2> SUFFICES ASSUME NEW c \in Chunk PROVE RefFn'[c] = More(RefFn, w)[c]
    OBVIOUS
  <2>1. CountIn(m)'[c] = CountIn(m)[c]
    BY <1>1, SameCount
  <2>2. Weight(m, c)' = CountIn(m)'[c] * (lent'[m] + 1)
    BY <1>1 DEF Weight, Live
  <2>3. Weight(m, c)' = w[c] + CountIn(m)[c]
    BY <1>3, <1>4, <1>5, <1>8, <2>1, <2>2
  <2>4. Weight(m, c) = CountIn(m)[c] /\ RefFn[c] \in Nat /\ w[c] \in Nat
    BY <1>1, <1>2, <1>5, WeightFacts DEF Counts
  <2>5. RefFn'[c] = RefFn[c] - Weight(m, c) + Weight(m, c)' - RawCount(c) + RawCount(c)'
    BY <1>2, <1>8, OneReferences
  <2>6. RawCount(c)' = RawCount(c) /\ RawCount(c) \in {0, 1}
    BY <1>1 DEF RawCount
  <2> QED
    BY <1>3, <2>3, <2>4, <2>5, <2>6 DEF More
<1>10. CountsInv'
  BY <1>7, <1>9, CountsHold
<1>11. ASSUME NEW p \in Held' PROVE p \in Held
  BY <1>1, HeldNext, HeldIsSo DEF HeldIs, Live
<1> QED
  BY <1>2, <1>7, <1>10, <1>11, PointersKept DEF Kept

LEMMA BulkCpKeeps ==
    ASSUME Good, TypeOK', NEW m \in Msg, NEW d \in Msg, BulkCp(m, d)
    PROVE  Kept /\ Keeps(heap, heap')
<1>1. /\ Becomes(d, msg[m]) /\ lent' = [lent EXCEPT ![m] = @ - 1] /\ UNCHANGED <<heap, raw>>
      /\ Live(m) /\ lent[m] > 0 /\ ~Live(d) /\ m # d
  BY DEF BulkCp
<1>2. /\ heap \in Heaps /\ MsgOK /\ CountsOK(heap, RefFn) /\ RefFn \in [Chunk -> Nat]
      /\ lent \in [Msg -> 0..MaxCopies] /\ PointersInv /\ lent[d] = 0
  BY <1>1, GoodFacts
<1>3. /\ msg'[d] = msg[m] /\ msg'[m] = msg[m] /\ lent'[d] = 0 /\ lent'[m] = lent[m] - 1
      /\ \A n \in Msg \ {m, d} : msg'[n] = msg[n] /\ lent'[n] = lent[n]
  BY <1>1, <1>2 DEF MsgOK, Becomes
<1>4. lent' \in [Msg -> 0..MaxCopies] /\ lent[m] \in Nat
  BY <1>2, MessageAssumption DEF TypeOK
<1>5. \A a, b \in Nat : a * (b + 1) = a * (b - 1 + 1) + a
  <2>1. \A a, b \in Nat : a * (b + 1) = a * b + a /\ b - 1 + 1 = b
    OBVIOUS
  <2> QED
    BY <2>1
<1>6. \A c \in Chunk : RefFn'[c] = RefFn[c]
  <2> SUFFICES ASSUME NEW c \in Chunk PROVE RefFn'[c] = RefFn[c]
    OBVIOUS
  <2>1. /\ CountIn(d)'[c] = CountIn(m)[c] /\ CountIn(m)'[c] = CountIn(m)[c] /\ CountIn(m)[c] \in Nat
        /\ Live(d)' /\ Live(m)'
    BY <1>1, <1>3, SameCount, CountFacts DEF Live, Counts
  <2>2. Weight(d, c)' = CountIn(m)[c]
    BY <1>3, <2>1, WeightNext DEF WeightNow
  <2>3. /\ Weight(m, c) = CountIn(m)[c] * (lent[m] + 1) /\ Weight(d, c) = 0
        /\ Weight(m, c)' = CountIn(m)[c] * (lent[m] - 1 + 1)
    BY <1>1, <1>3, <2>1 DEF Weight, Live
  <2>4. Weight(m, c) \in Nat /\ Weight(m, c)' \in Nat
    BY <1>2, <1>4, OfFacts, OfFactsNext DEF OfRight
  <2>5. Weight(m, c) = Weight(m, c)' + CountIn(m)[c]
    BY <1>4, <1>5, <2>1, <2>3
  <2>6. Weight(m, c) + Weight(d, c) = Weight(m, c)' + Weight(d, c)'
    BY <2>1, <2>2, <2>3, <2>4, <2>5
  <2>7. raw' = raw /\ m # d
    BY <1>1
  <2> QED
    BY <1>2, <1>3, <1>4, <2>6, <2>7, TwoReferences
<1>7. CountsInv'
  BY <1>1, <1>2, <1>6, CountsHold
<1>8. ASSUME NEW p \in Held' PROVE p \in Held
  BY <1>1, <1>2, CopyHolds
<1>9. Keeps(heap, heap')
  BY <1>1 DEF Keeps
<1> QED
  BY <1>2, <1>7, <1>8, <1>9, PointersKept DEF Kept

(* What the replacement of one part of a message makes of its references.  *)
LEMMA ReplacedReferences ==
    ASSUME Good, TypeOK', NEW m \in Msg, Live(m), lent[m] = 0, lent' = lent,
           NEW q \in Parts, NEW r \in Refs, Becomes(m, [msg[m] EXCEPT ![q] = r]), NEW c \in Chunk
    PROVE  /\ RefFn'[c] = RefFn[c] - CountOf(msg[m][q])[c] + CountOf(r)[c] - RawCount(c) + RawCount(c)'
           /\ CountOf(msg[m][q])[c] + RawCount(c) <= RefFn[c]
<1>1. /\ MsgOK /\ lent \in [Msg -> 0..MaxCopies] /\ RefFn \in [Chunk -> Nat]
  BY GoodFacts
<1>2. msg[m] \in [Parts -> Refs]
  BY <1>1, LiveType
<1>3. /\ \A n \in Msg \ {m} : msg'[n] = msg[n] /\ lent'[n] = lent[n]
      /\ msg'[m] = [msg[m] EXCEPT ![q] = r] /\ lent' \in [Msg -> 0..MaxCopies] /\ lent'[m] = 0
  BY <1>1 DEF Becomes, MsgOK
<1>4. Live(m)'
  BY <1>2, <1>3, NoneAssumption DEF Live
<1>5. /\ CountIn(m)'[c] = CountIn(m)[c] - CountOf(msg[m][q])[c] + CountOf(r)[c]
      /\ CountOf(msg[m][q])[c] <= CountIn(m)[c]
  BY <1>2, <1>3, ReplacedCount
<1>6. /\ CountIn(m)[c] \in Nat /\ CountOf(msg[m][q])[c] \in Nat /\ CountOf(r)[c] \in Nat
      /\ RefFn[c] \in Nat
  BY <1>1, CountFacts, CountOfFacts DEF Counts
<1>7. CountIn(m)'[c] \in Nat
  BY <1>5, <1>6
<1>8. Weight(m, c)' = CountIn(m)'[c]
  BY <1>3, <1>4, <1>7, WeightNext DEF WeightNow
<1>9. Weight(m, c) = CountIn(m)[c] /\ Weight(m, c) + RawCount(c) <= RefFn[c]
  BY <1>1, WeightFacts
<1>10. RefFn'[c] = RefFn[c] - Weight(m, c) + Weight(m, c)' - RawCount(c) + RawCount(c)'
  BY <1>1, <1>3, OneReferences
<1>11. RawCount(c) \in {0, 1} /\ RawCount(c)' \in {0, 1}
  BY DEF RawCount
<1> QED
  BY <1>5, <1>6, <1>8, <1>9, <1>10, <1>11

LEMMA ReplacedHolds ==
    ASSUME MsgOK, NEW m \in Msg, Live(m), NEW q \in Parts, NEW r \in Refs,
           Becomes(m, [msg[m] EXCEPT ![q] = r]), NEW p \in Held'
    PROVE  \/ raw' # None /\ p = raw'
           \/ r.big /\ p = r.at
           \/ \E n \in Msg, s \in Parts :
                 Live(n) /\ msg[n][s].big /\ p = msg[n][s].at /\ ~(n = m /\ s = q)
<1>1. msg[m] \in [Parts -> Refs]
  BY LiveType
<1>2. msg'[m] = [msg[m] EXCEPT ![q] = r] /\ \A n \in Msg \ {m} : msg'[n] = msg[n]
  BY DEF Becomes, MsgOK
<1>3. \A s \in Parts : msg'[m][s] = IF s = q THEN r ELSE msg[m][s]
  BY <1>1, <1>2
<1>4. \/ raw' # None /\ p = raw'
      \/ \E n \in Msg \ {m}, s \in Parts : Live(n) /\ msg[n][s].big /\ p = msg[n][s].at
      \/ \E s \in Parts : Live(m)' /\ msg'[m][s].big /\ p = msg'[m][s].at
  BY <1>2, HeldBecomes
<1>5. ASSUME NEW s \in Parts, msg'[m][s].big, p = msg'[m][s].at
      PROVE  \/ r.big /\ p = r.at
             \/ s # q /\ msg[m][s].big /\ p = msg[m][s].at
  BY <1>3, <1>5
<1> QED
  BY <1>4, <1>5


(* Where trimming writes the header, and how far the bytes reach.          *)
LEMMA TidyIsBehind ==
    ASSUME NEW mem \in Seq(Cells), NEW pos \in Nat, pos >= First, NEW n \in Nat,
           pos - 1 + n <= Len(mem), NEW h, NEW c, h[c] # None,
           h[c].size = n, NEW k \in Int, h[c].mem = Tidy(mem, pos, k)
    PROVE  Behind(h, Ptr(c, pos))
<1>1. Len(mem) \in Nat /\ pos >= 3
  BY DEF First
<1>2. pos - 1 \in 1..Len(mem) /\ pos - 2 \in 1..Len(mem)
  BY <1>1
<1>3. /\ Len(Tidy(mem, pos, k)) = Len(mem)
      /\ Tidy(mem, pos, k)[pos - 1] = Tag /\ Tidy(mem, pos, k)[pos - 2] = Off(pos - First)
  BY <1>2, TidyFacts
<1>4. Ptr(c, pos).chunk = c /\ Ptr(c, pos).pos = pos
  BY DEF Ptr
<1> QED
  BY <1>3, <1>4 DEF Behind

(* A chunk that its only holder changes.                                   *)
LEMMA OneChunkChanges ==
    ASSUME Good, NEW c \in Chunk, heap[c] # None, NEW x \in Chunks, heap' = [heap EXCEPT ![c] = x],
           x.refcount = heap[c].refcount, \A d \in Chunk : RefFn'[d] = RefFn[d],
           \A p \in Held' : \/ p \in Held /\ p.chunk # c
                            \/ Behind(heap', p)
    PROVE  Kept
<1>1. heap \in Heaps /\ CountsOK(heap, RefFn) /\ PointersInv /\ TypeOK
  BY GoodFacts
<1>2. heap'[c] = x /\ x # None /\ \A d \in Chunk : d # c => heap'[d] = heap[d]
  BY <1>1, NoneAssumption DEF Heaps
<1>3. CountsOK(heap', RefFn)
  BY <1>1, <1>2 DEF CountsOK
<1>4. CountsInv'
  BY <1>3, CountsHold
<1>5. ASSUME NEW p \in Held' PROVE Behind(heap', p)
  <2>1. CASE p \in Held /\ p.chunk # c
    <3>1. Behind(heap, p) /\ p.chunk \in Chunk
      BY <1>1, <2>1, HeldType DEF PointersInv
    <3>2. heap'[p.chunk] = heap[p.chunk]
      BY <1>2, <2>1, <3>1
    <3> QED
      BY <3>1, <3>2 DEF Behind
  <2> QED
    BY <2>1
<1>6. PointersInv'
  BY <1>5 DEF PointersInv, Behind
<1> QED
  BY <1>4, <1>6 DEF Kept

LEMMA TrimMsgKeeps ==
    ASSUME Good, TypeOK', NEW m \in Msg, NEW p \in Parts, NEW n \in 1..MaxSize, TrimMsg(m, p, n)
    PROVE  Kept
<1> DEFINE r == msg[m][p]
           t == TrimmedRef(r, n)
<1>1. /\ Live(m) /\ lent[m] = 0 /\ n <= Size(r) /\ Unshared(r) /\ heap' = HeapTrimmed(r, n)
      /\ Becomes(m, [msg[m] EXCEPT ![p] = t]) /\ UNCHANGED <<raw, lent>>
  BY DEF TrimMsg, Idle
<1>2. /\ heap \in Heaps /\ MsgOK /\ CountsOK(heap, RefFn) /\ RefFn \in [Chunk -> Nat]
      /\ TypeOK /\ PointersInv
  BY GoodFacts
<1>3. r \in Refs /\ Proper(r) /\ n \in Nat
  BY <1>1, <1>2, LiveType
<1>4. \A c \in Chunk : RawCount(c)' = RawCount(c) /\ RawCount(c) \in {0, 1}
  BY <1>1 DEF RawCount
<1>5. CASE r.big
  <2> DEFINE c == r.at.chunk
  <2>1. c \in Chunk /\ r.at \in Ptrs /\ r.at.pos \in Nat /\ r.at.pos >= First
    BY <1>3, <1>5, RefFacts
  <2>2. t = Big(Ptr(c, r.at.pos + n)) /\ t \in Refs
    BY <1>3, <1>5, TrimmedRefFacts
  <2>3. r.at \in Held
    BY <1>1, <1>5, HeldFacts
  <2>4. Behind(heap, r.at)
    BY <1>2, <2>3 DEF PointersInv
  <2>5. heap[c] # None /\ heap[c] \in Chunks
    BY <1>2, <2>1, <2>4 DEF Behind, Heaps
  <2>6. n \in 0..heap[c].size /\ heap[c].size \in Nat
    BY <1>1, <1>3, <1>5, <2>5, MessageAssumption DEF Size, Chunks
  <2> DEFINE x == TrimmedChunk(heap[c], r.at.pos, n)
  <2>7. /\ x \in Chunks /\ x.refcount = heap[c].refcount /\ x.size = heap[c].size - n
        /\ x.mem = Tidy(heap[c].mem, r.at.pos + n, heap[c].size - n)
    BY <2>1, <2>5, <2>6, TrimmedFacts
  <2>8. heap' = [heap EXCEPT ![c] = x]
    BY <1>1, <1>5 DEF HeapTrimmed
  <2>9. t.big /\ t.at = Ptr(c, r.at.pos + n) /\ t.at.chunk = c
    BY <2>2 DEF Big, Ptr
  <2> HIDE DEF x
  <2>10. Behind(heap', t.at)
    <3> DEFINE mem == heap[c].mem
               pos == r.at.pos
               size == heap[c].size
    <3>1. mem \in Seq(Cells) /\ pos - 1 + size <= Len(mem)
      BY <2>4, <2>5 DEF Behind, Chunks
    <3>2. heap'[c] # None /\ heap'[c].size = size - n /\ heap'[c].mem = Tidy(mem, pos + n, size - n)
      BY <1>2, <2>1, <2>7, <2>8, NoneAssumption DEF Heaps
    <3>3. pos \in Nat /\ pos >= First /\ size \in Nat /\ n <= size
      BY <2>1, <2>6
    <3> HIDE DEF mem, pos, size
    <3>4. Len(mem) \in Nat
      BY <3>1
    <3>5. PICK a \in Nat : a = pos + n /\ a >= First
      BY <1>3, <3>3 DEF First
    <3>6. PICK z \in Nat : z = size - n /\ a - 1 + z <= Len(mem)
      BY <1>3, <3>1, <3>3, <3>4, <3>5
    <3>7. Behind(heap', Ptr(c, a))
      BY <3>1, <3>2, <3>5, <3>6, TidyIsBehind
    <3> QED
      BY <2>9, <3>5, <3>7 DEF pos
  <2>11. References(c) = 1
    <3>1. heap[c].refcount = 1
      BY <1>1, <1>5 DEF Unshared
    <3> QED
      BY <2>1, <2>5, <3>1 DEF Good, CountsInv
  <2>12. Pointing(m, p, c)
    BY <1>5 DEF Pointing
  <2> HIDE DEF c, t, r
  <2>13. /\ ~(raw # None /\ raw.chunk = c)
         /\ \A k \in Msg, q \in Parts : Live(k) /\ Pointing(k, q, c) => k = m /\ q = p
    BY <1>1, <1>2, <2>1, <2>11, <2>12, Lone
  <2>14. ASSUME NEW y \in Held'
         PROVE  (y \in Held /\ y.chunk # c) \/ Behind(heap', y)
    <3>1. \/ raw' # None /\ y = raw'
          \/ t.big /\ y = t.at
          \/ \E k \in Msg, s \in Parts :
                Live(k) /\ msg[k][s].big /\ y = msg[k][s].at /\ ~(k = m /\ s = p)
      BY <1>1, <1>2, <2>2, ReplacedHolds
    <3>2. CASE raw' # None /\ y = raw'
      BY <1>1, <2>13, <3>2, HeldFacts
    <3>3. CASE t.big /\ y = t.at
      BY <2>10, <3>3
    <3>4. ASSUME NEW k \in Msg, NEW s \in Parts, Live(k), msg[k][s].big, y = msg[k][s].at, ~(k = m /\ s = p)
          PROVE  y \in Held /\ y.chunk # c
      BY <2>13, <3>4, HeldFacts DEF Pointing
    <3> QED
      BY <3>1, <3>2, <3>3, <3>4
  <2>15. ASSUME NEW d \in Chunk PROVE RefFn'[d] = RefFn[d]
    <3>1. /\ RefFn'[d] = RefFn[d] - CountOf(r)[d] + CountOf(t)[d] - RawCount(d) + RawCount(d)'
      BY <1>1, <1>2, <2>2, ReplacedReferences DEF r
    <3>2. CountOf(r)[d] = CountOf(t)[d] /\ CountOf(r)[d] \in {0, 1}
      BY <1>5, <2>9, CountOfFacts DEF c
    <3> QED
      BY <1>2, <1>4, <3>1, <3>2
  <2> QED
    BY <2>1, <2>5, <2>7, <2>8, <2>14, <2>15, OneChunkChanges
<1>6. CASE ~r.big
  <2>1. heap' = heap /\ t = Small(SubSeq(r.data, n + 1, Len(r.data)))
    BY <1>1, <1>6 DEF HeapTrimmed, TrimmedRef
  <2>2. ~t.big /\ t \in Refs
    <3>1. r.data \in Seq(Cells)
      BY <1>3, <1>6, RefFacts
    <3>2. SubSeq(r.data, n + 1, Len(r.data)) \in Seq(Cells)
      BY <1>3, <3>1
    <3> QED
      BY <2>1, <3>2 DEF Small, Refs
  <2> HIDE DEF t, r
  <2>3. ASSUME NEW d \in Chunk PROVE RefFn'[d] = RefFn[d]
    <3>1. /\ RefFn'[d] = RefFn[d] - CountOf(r)[d] + CountOf(t)[d] - RawCount(d) + RawCount(d)'
      BY <1>1, <1>2, <2>2, ReplacedReferences DEF r
    <3>2. CountOf(r)[d] = 0 /\ CountOf(t)[d] = 0
      BY <1>6, <2>2, CountOfFacts
    <3> QED
      BY <1>2, <1>4, <3>1, <3>2
  <2>4. CountsInv'
    BY <1>2, <2>1, <2>3, CountsHold
  <2>5. ASSUME NEW y \in Held' PROVE y \in Held
    BY <1>1, <1>2, <2>2, ReplacedHolds, HeldIsSo DEF HeldIs
  <2>6. Keeps(heap, heap')
    BY <2>1 DEF Keeps
  <2> QED
    BY <1>2, <2>4, <2>5, <2>6, PointersKept DEF Kept
<1> QED
  BY <1>5, <1>6


LEMMA JoinMsgKeeps ==
    ASSUME Good, TypeOK', NEW m \in Msg, JoinMsg(m)
    PROVE  Kept /\ Keeps(heap, heap')
<1> DEFINE all == Value(msg[m]["sphdr"]) \o Value(msg[m]["body"])
           r == NewRef(heap, all)
           g == HeapNewRef(heap, all)
           f == More(RefFn, CountOf(r))
           n == CountIn(m)
<1>1. /\ Live(m) /\ lent[m] = 0 /\ Edit(Pointers(m)) /\ Len(all) <= MaxSize
      /\ (Len(all) >= RefMax => Room(heap) # {})
      /\ heap' = Dropped(g, n) /\ Becomes(m, Plain(r)) /\ UNCHANGED <<raw, lent>>
  BY DEF JoinMsg, Idle
<1>2. /\ heap \in Heaps /\ MsgOK /\ CountsOK(heap, RefFn) /\ RefFn \in [Chunk -> Nat]
      /\ lent \in [Msg -> 0..MaxCopies] /\ PointersInv /\ slips = {} /\ TypeOK
  BY GoodFacts
<1>3. all \in Seq(Cells)
  BY <1>1, <1>2, JoinedFacts DEF Edit, Sound
<1> HIDE DEF all
<1>4. /\ CountsOK(g, f) /\ \A c \in Chunk : heap[c] # None => g[c] = heap[c]
      /\ r.big => Behind(g, r.at)
  BY <1>1, <1>2, <1>3, NewRefCounts
<1>5. r \in Refs /\ Proper(r) /\ g \in Heaps
  BY <1>1, <1>2, <1>3, NewRefFacts
<1> HIDE DEF r, g
<1>6. ASSUME NEW c \in Chunk
      PROVE  /\ n[c] \in Nat /\ n[c] <= RefFn[c] /\ RefFn[c] \in Nat
             /\ CountOf(r)[c] \in Nat /\ f[c] = RefFn[c] + CountOf(r)[c]
             /\ Weight(m, c) = n[c] /\ RawCount(c) \in {0, 1}
  <2>1. /\ Weight(m, c) = n[c] /\ n[c] \in Nat /\ Weight(m, c) + RawCount(c) <= RefFn[c]
    BY <1>1, <1>2, WeightFacts
  <2>2. RawCount(c) \in {0, 1} /\ RefFn[c] \in Nat /\ CountOf(r)[c] \in Nat
    BY <1>2, CountOfFacts DEF RawCount, Counts
  <2>3. f[c] = RefFn[c] + CountOf(r)[c]
    BY DEF More
  <2> QED
    BY <2>1, <2>2, <2>3
<1>7. n \in Counts
  BY CountFacts
<1> HIDE DEF n, f
<1>8. \A c \in Chunk : n[c] <= f[c]
  BY <1>6
<1>9. CountsOK(heap', Less(f, n)) /\ Keeps(g, heap')
  BY <1>1, <1>4, <1>5, <1>7, <1>8, DropCounts
<1>10. /\ \A k \in Msg \ {m} : msg'[k] = msg[k] /\ lent'[k] = lent[k]
       /\ msg'[m] = Plain(r) /\ lent' \in [Msg -> 0..MaxCopies] /\ lent'[m] = 0
  BY <1>1, <1>2 DEF Becomes, MsgOK
<1>11. Live(m)'
  BY <1>5, <1>10, PlainFacts, NoneAssumption DEF Live
<1>12. ASSUME NEW c \in Chunk PROVE RefFn'[c] = Less(f, n)[c]
  <2>1. CountIn(m)'[c] = CountOf(r)[c]
    BY <1>5, <1>10, PlainCount
  <2>2. Weight(m, c)' = CountOf(r)[c]
    BY <1>6, <1>10, <1>11, <2>1, WeightNext DEF WeightNow
  <2>3. RefFn'[c] = RefFn[c] - Weight(m, c) + Weight(m, c)' - RawCount(c) + RawCount(c)'
    BY <1>2, <1>10, OneReferences
  <2>4. RawCount(c)' = RawCount(c)
    BY <1>1 DEF RawCount
  <2>5. Less(f, n)[c] = f[c] - n[c]
    BY DEF Less
  <2> QED
    BY <1>6, <2>2, <2>3, <2>4, <2>5
<1>13. CountsInv'
  BY <1>9, <1>12, CountsHold
<1>14. Keeps(heap, heap')
  <2> SUFFICES ASSUME NEW c \in Chunk, heap[c] # None, heap'[c] # None
               PROVE  heap'[c].size = heap[c].size /\ heap'[c].mem = heap[c].mem
    BY DEF Keeps
  <2>1. g[c] = heap[c]
    BY <1>4
  <2> QED
    BY <1>9, <2>1 DEF Keeps
<1>15. r.big => Behind(heap', r.at)
  <2> SUFFICES ASSUME r.big PROVE Behind(heap', r.at)
    OBVIOUS
  <2> DEFINE c == r.at.chunk
  <2>1. c \in Chunk /\ CountOf(r)[c] = 1
    BY <1>5, RefFacts, CountOfFacts
  <2> HIDE DEF c
  <2>2. Less(f, n)[c] # 0
    <3>1. Less(f, n)[c] = f[c] - n[c]
      BY <2>1 DEF Less
    <3> QED
      BY <1>6, <2>1, <3>1
  <2>3. heap'[c] # None
    BY <1>9, <2>1, <2>2 DEF CountsOK
  <2> QED
    BY <1>4, <1>9, <2>1, <2>3 DEF Behind, Keeps, c
<1>16. ASSUME NEW p \in Held' PROVE p \in Held \/ Behind(heap', p)
  <2>1. CASE raw' # None /\ p = raw'
    BY <1>1, <2>1, HeldIsSo DEF HeldIs
  <2>2. ASSUME NEW k \in Msg \ {m}, NEW q \in Parts, Live(k), msg[k][q].big, p = msg[k][q].at
        PROVE  p \in Held
    BY <2>2, HeldFacts
  <2>3. ASSUME NEW q \in Parts, msg'[m][q].big, p = msg'[m][q].at
        PROVE  Behind(heap', p)
    BY <1>5, <1>10, <1>15, <2>3, PlainHolds
  <2> QED
    BY <1>10, <2>1, <2>2, <2>3, HeldBecomes
<1> QED
  BY <1>2, <1>13, <1>14, <1>16, PointersKept DEF Kept

LEMMA TakeBodyKeeps ==
    ASSUME Good, TypeOK', NEW m \in Msg, TakeBody(m)
    PROVE  Kept /\ Keeps(heap, heap')
<1> DEFINE body == msg[m]["body"]
           left == Small(<<>>)
<1>1. /\ slips = {} /\ heap \in Heaps /\ MsgOK /\ CountsOK(heap, RefFn) /\ RefFn \in [Chunk -> Nat]
      /\ lent \in [Msg -> 0..MaxCopies] /\ PointersInv /\ TypeOK
  BY GoodFacts
<1>2. /\ Live(m) /\ lent[m] = 0 /\ lent' = lent /\ raw = None
      /\ body.big \/ Room(heap) # {}
      /\ heap' = IF body.big THEN heap ELSE Allocated(heap, body.data)
      /\ raw' = IF body.big THEN body.at ELSE Ptr(Fresh(heap), First)
      /\ Becomes(m, [msg[m] EXCEPT !["body"] = left])
  BY <1>1 DEF TakeBody, Idle, LeftBehind
<1>3. "body" \in Parts /\ body \in Refs /\ Proper(body)
  BY <1>1, <1>2, LiveType DEF Parts
<1>4. left \in Refs /\ ~left.big
  BY NothingFacts
<1> HIDE DEF body, left
<1>5. ASSUME NEW c \in Chunk
      PROVE  RefFn'[c] = RefFn[c] - CountOf(body)[c] + RawCount(c)' /\ RefFn[c] \in Nat
  <2>1. RefFn'[c] = RefFn[c] - CountOf(body)[c] + CountOf(left)[c] - RawCount(c) + RawCount(c)'
    BY <1>2, <1>3, <1>4, ReplacedReferences DEF body
  <2>2. CountOf(left)[c] = 0 /\ CountOf(body)[c] \in {0, 1}
    BY <1>4, CountOfFacts
  <2>3. RawCount(c) = 0 /\ RawCount(c)' \in {0, 1}
    BY <1>2 DEF RawCount
  <2> QED
    BY <1>1, <2>1, <2>2, <2>3
<1>6. ASSUME NEW p \in Held' PROVE p \in Held \/ (raw' # None /\ p = raw')
  <2>1. \/ raw' # None /\ p = raw'
        \/ left.big /\ p = left.at
        \/ \E k \in Msg, s \in Parts :
              Live(k) /\ msg[k][s].big /\ p = msg[k][s].at /\ ~(k = m /\ s = "body")
    <3>1. PICK q \in Parts : q = "body"
      BY <1>3
    <3>2. Becomes(m, [msg[m] EXCEPT ![q] = left])
      BY <1>2, <3>1
    <3>3. \/ raw' # None /\ p = raw'
          \/ left.big /\ p = left.at
          \/ \E k \in Msg, s \in Parts :
                Live(k) /\ msg[k][s].big /\ p = msg[k][s].at /\ ~(k = m /\ s = q)
      BY <1>1, <1>2, <1>4, <3>2, ReplacedHolds
    <3> QED
      BY <3>1, <3>3
  <2> QED
    BY <1>4, <2>1, HeldFacts
<1>7. CASE body.big
  <2>1. heap' = heap /\ raw' = body.at /\ raw' # None
    BY <1>2, <1>3, <1>7, RefFacts, NoneAssumption
  <2>2. ASSUME NEW c \in Chunk PROVE RefFn'[c] = RefFn[c]
    <3>1. CountOf(body)[c] = RawCount(c)' /\ RawCount(c)' \in {0, 1}
      BY <1>7, <2>1, CountOfFacts DEF RawCount
    <3> QED
      BY <1>5, <3>1
  <2>3. CountsInv'
    BY <1>1, <2>1, <2>2, CountsHold
  <2>4. Keeps(heap, heap')
    BY <2>1 DEF Keeps
  <2>5. body.at \in Held
    BY <1>2, <1>3, <1>7, HeldFacts DEF body
  <2> QED
    BY <1>1, <1>6, <2>1, <2>3, <2>4, <2>5, PointersKept DEF Kept
<1>8. CASE ~body.big
  <2>1. /\ Room(heap) # {} /\ heap' = Allocated(heap, body.data)
        /\ raw' = Ptr(Fresh(heap), First)
    BY <1>2, <1>8
  <2>2. body.data \in Seq(Cells) /\ Len(body.data) <= MaxSize
    <3>1. body.data \in Seq(Cells) /\ Len(body.data) < RefMax
      BY <1>3, <1>8, RefFacts
    <3>2. Len(body.data) \in Nat /\ RefMax \in Nat /\ MaxSize \in Nat /\ RefMax <= MaxSize
      BY <3>1, MessageAssumption
    <3> QED
      BY <3>1, <3>2
  <2>3. /\ CountsOK(heap', [RefFn EXCEPT ![Fresh(heap)] = 1]) /\ Keeps(heap, heap')
        /\ RefFn[Fresh(heap)] = 0
    BY <1>1, <2>1, <2>2, AllocCounts
  <2>4. Fresh(heap) \in Chunk
    BY <1>1, <2>1, <2>2, AllocFacts
  <2>5. Behind(heap', raw')
    BY <1>1, <2>1, <2>2, NewIsBehind
  <2>6. raw'.chunk = Fresh(heap) /\ raw' # None
    <3>1. raw' \in Ptrs
      BY <2>1, <2>4 DEF Ptr, Ptrs, First
    <3> QED
      BY <2>1, <3>1, NoneAssumption DEF Ptr
  <2>7. ASSUME NEW c \in Chunk PROVE RefFn'[c] = [RefFn EXCEPT ![Fresh(heap)] = 1][c]
    <3>1. CountOf(body)[c] = 0 /\ RawCount(c)' = IF c = Fresh(heap) THEN 1 ELSE 0
      BY <1>8, <2>6, CountOfFacts DEF RawCount
    <3> QED
      BY <1>1, <1>5, <2>3, <2>4, <3>1
  <2>8. CountsInv'
    BY <2>3, <2>7, CountsHold
  <2> QED
    BY <1>1, <1>6, <2>3, <2>5, <2>8, PointersKept DEF Kept
<1> QED
  BY <1>7, <1>8


(* The pointer that a user holds.                                          *)
LEMMA RawFacts ==
    ASSUME Good, raw # None
    PROVE  /\ raw \in Held /\ raw \in Ptrs /\ raw.chunk \in Chunk /\ raw.pos \in Nat
           /\ raw.pos >= First /\ Behind(heap, raw) /\ heap[raw.chunk] \in Chunks
           /\ heap[raw.chunk] # None /\ Big(raw) \in Refs /\ Proper(Big(raw))
           /\ \A c \in Chunk : CountOf(Big(raw))[c] = RawCount(c)
<1>1. raw \in Held
  BY HeldFacts
<1>2. /\ raw \in Ptrs /\ raw.chunk \in Chunk /\ raw.pos \in Nat /\ raw.pos >= First
  BY <1>1, GoodFacts, HeldType
<1>3. Behind(heap, raw)
  BY <1>1, GoodFacts
<1>4. heap[raw.chunk] \in Chunks /\ heap[raw.chunk] # None
  BY <1>2, <1>3, GoodFacts DEF Behind, Heaps
<1>5. Big(raw) \in Refs /\ Proper(Big(raw)) /\ Big(raw).big /\ Big(raw).at = raw
  BY <1>2, BigFacts
<1>6. \A c \in Chunk : CountOf(Big(raw))[c] = RawCount(c)
  BY <1>5, CountOfFacts DEF RawCount
<1> QED
  BY <1>1, <1>2, <1>3, <1>4, <1>5, <1>6

(* nn_msg_init_chunk: the pointer moves into a new message.                *)
LEMMA PutNewKeeps ==
    ASSUME Good, TypeOK', NEW m \in Msg, ~Live(m), raw # None, raw' = None,
           Becomes(m, Plain(Big(raw))), heap' = heap, lent' = lent
    PROVE  Kept /\ Keeps(heap, heap')
<1>1. /\ heap \in Heaps /\ MsgOK /\ CountsOK(heap, RefFn) /\ RefFn \in [Chunk -> Nat]
      /\ lent \in [Msg -> 0..MaxCopies] /\ PointersInv /\ lent[m] = 0
      /\ \A c : Weight(m, c) = 0
  BY GoodFacts
<1>2. PICK r \in Refs : r = Big(raw) /\ Proper(r)
  BY RawFacts
<1>3. /\ \A k \in Msg \ {m} : msg'[k] = msg[k] /\ lent'[k] = lent[k]
      /\ msg'[m] = Plain(r) /\ lent' \in [Msg -> 0..MaxCopies] /\ lent'[m] = 0
  BY <1>1, <1>2 DEF Becomes, MsgOK
<1>4. Live(m)'
  BY <1>2, <1>3, PlainFacts, NoneAssumption DEF Live
<1>5. ASSUME NEW c \in Chunk PROVE RefFn'[c] = RefFn[c]
  <2>1. CountIn(m)'[c] = CountOf(r)[c]
    BY <1>2, <1>3, PlainCount
  <2>2. CountOf(r)[c] = RawCount(c) /\ RawCount(c) \in {0, 1} /\ RawCount(c)' = 0
    BY <1>2, RawFacts DEF RawCount
  <2>3. Weight(m, c)' = RawCount(c)
    BY <1>3, <1>4, <2>1, <2>2, WeightNext DEF WeightNow
  <2>4. RefFn'[c] = RefFn[c] - Weight(m, c) + Weight(m, c)' - RawCount(c) + RawCount(c)'
    BY <1>1, <1>3, OneReferences
  <2>5. RefFn[c] \in Nat /\ Weight(m, c) = 0
    BY <1>1
  <2> QED
    BY <2>2, <2>3, <2>4, <2>5
<1>6. CountsInv'
  BY <1>1, <1>5, CountsHold
<1>7. ASSUME NEW p \in Held' PROVE p \in Held
  <2>1. ASSUME NEW k \in Msg \ {m}, NEW q \in Parts, Live(k), msg[k][q].big, p = msg[k][q].at
        PROVE  p \in Held
    BY <2>1, HeldFacts
  <2>2. ASSUME NEW q \in Parts, msg'[m][q].big, p = msg'[m][q].at
        PROVE  p \in Held
    <3>1. msg'[m][q] = r
      <4>1. Proper(r) /\ msg'[m] = Plain(r) /\ msg'[m][q].big
        BY <1>2, <1>3, <2>2
      <4> QED
        BY <4>1, PlainHolds
    <3>2. p = raw
      BY <1>2, <2>2, <3>1 DEF Big
    <3> QED
      BY <3>2, RawFacts
  <2> QED
    BY <1>3, <2>1, <2>2, HeldBecomes
<1>8. Keeps(heap, heap')
  BY DEF Keeps
<1> QED
  BY <1>1, <1>6, <1>7, <1>8, PointersKept DEF Kept

(* nn_msg_replace_body: the old body is left, the pointer moves in.        *)
LEMMA PutBodyInKeeps ==
    ASSUME Good, TypeOK', NEW m \in Msg, Live(m), lent[m] = 0, raw # None, raw' = None,
           heap' = Dropped(heap, CountOf(msg[m]["body"])),
           Becomes(m, [msg[m] EXCEPT !["body"] = Big(raw)]), lent' = lent
    PROVE  Kept /\ Keeps(heap, heap')
<1>1. /\ heap \in Heaps /\ MsgOK /\ CountsOK(heap, RefFn) /\ RefFn \in [Chunk -> Nat]
      /\ lent \in [Msg -> 0..MaxCopies] /\ PointersInv
  BY GoodFacts
<1>2. PICK q \in Parts : q = "body"
  BY DEF Parts
<1>3. PICK r \in Refs : r = Big(raw)
  BY RawFacts
<1>4. PICK n : n = CountOf(msg[m][q])
  OBVIOUS
<1>5. Becomes(m, [msg[m] EXCEPT ![q] = r]) /\ heap' = Dropped(heap, n)
  BY <1>2, <1>3, <1>4
<1>6. ASSUME NEW c \in Chunk
      PROVE  /\ RefFn'[c] = RefFn[c] - n[c] /\ n[c] \in {0, 1} /\ n[c] <= RefFn[c]
  <2>1. /\ RefFn'[c] = RefFn[c] - n[c] + CountOf(r)[c] - RawCount(c) + RawCount(c)'
        /\ n[c] + RawCount(c) <= RefFn[c]
    BY <1>1, <1>4, <1>5, ReplacedReferences
  <2>2. CountOf(r)[c] = RawCount(c) /\ RawCount(c) \in {0, 1} /\ RawCount(c)' = 0
    BY <1>3, RawFacts DEF RawCount
  <2>3. n[c] \in {0, 1} /\ RefFn[c] \in Nat
    BY <1>1, <1>4, CountOfFacts
  <2> QED
    BY <2>1, <2>2, <2>3
<1>7. n \in Counts
  BY <1>4, CountOfFacts
<1>8. CountsOK(heap', Less(RefFn, n)) /\ Keeps(heap, heap')
  BY <1>1, <1>5, <1>6, <1>7, DropCounts
<1>9. \A c \in Chunk : RefFn'[c] = Less(RefFn, n)[c]
  BY <1>6 DEF Less
<1>10. CountsInv'
  BY <1>8, <1>9, CountsHold
<1>11. ASSUME NEW p \in Held' PROVE p \in Held
  <2>1. \/ r.big /\ p = r.at
        \/ \E k \in Msg, s \in Parts :
              Live(k) /\ msg[k][s].big /\ p = msg[k][s].at /\ ~(k = m /\ s = q)
    BY <1>1, <1>5, ReplacedHolds
  <2>2. r.at = raw
    BY <1>3 DEF Big
  <2> QED
    BY <2>1, <2>2, HeldFacts, RawFacts
<1> QED
  BY <1>1, <1>8, <1>10, <1>11, PointersKept DEF Kept

LEMMA PutBodyKeeps ==
    ASSUME Good, TypeOK', NEW m \in Msg, PutBody(m)
    PROVE  Kept /\ Keeps(heap, heap')
BY PutNewKeeps, PutBodyInKeeps DEF PutBody, Idle

LEMMA FreeRawKeeps ==
    ASSUME Good, TypeOK', FreeRaw
    PROVE  Kept /\ Keeps(heap, heap')
<1>1. /\ raw # None /\ raw' = None /\ heap' = Dropped(heap, CountOf(Big(raw)))
      /\ msg' = msg /\ lent' = lent
  BY DEF FreeRaw
<1>2. /\ heap \in Heaps /\ CountsOK(heap, RefFn) /\ RefFn \in [Chunk -> Nat] /\ PointersInv
      /\ lent \in [Msg -> 0..MaxCopies]
  BY GoodFacts
<1>3. PICK n : n = CountOf(Big(raw))
  OBVIOUS
<1>4. n \in Counts
  BY <1>3, CountOfFacts
<1>5. ASSUME NEW c \in Chunk PROVE n[c] <= RefFn[c] /\ RefFn'[c] = Less(RefFn, n)[c]
  <2>1. n[c] = RawCount(c) /\ RawCount(c) \in {0, 1} /\ RawCount(c)' = 0
    BY <1>1, <1>3, RawFacts DEF RawCount
  <2>2. RefFn'[c] = RefFn[c] - RawCount(c) + RawCount(c)' /\ RefFn[c] \in Nat
    BY <1>1, <1>2, NoneReferences
  <2>3. RefFn[c] = Cardinality(InMessages(c)) + RawCount(c) /\ Cardinality(InMessages(c)) \in Nat
    BY ReferencesFacts
  <2> QED
    BY <2>1, <2>2, <2>3 DEF Less
<1>6. CountsOK(heap', Less(RefFn, n)) /\ Keeps(heap, heap')
  BY <1>1, <1>2, <1>3, <1>4, <1>5, DropCounts
<1>7. CountsInv'
  BY <1>5, <1>6, CountsHold
<1>8. ASSUME NEW p \in Held' PROVE p \in Held
  BY <1>1, HeldNext, HeldIsSo DEF HeldIs, Live
<1> QED
  BY <1>2, <1>6, <1>7, <1>8, PointersKept DEF Kept

-----------------------------------------------------------------------------
(* nn_chunk_realloc in place: the caller is the only holder, and its new   *)
(* pointer leads behind the header.                                        *)
LEMMA InPlaceKeeps ==
    ASSUME Good, TypeOK', raw # None, msg' = msg, lent' = lent, Single,
           NEW x \in Chunks, heap' = [heap EXCEPT ![raw.chunk] = x],
           x.refcount = Self.refcount, raw' # None, raw'.chunk = raw.chunk, Behind(heap', raw')
    PROVE  Kept
<1>1. raw.chunk \in Chunk /\ heap[raw.chunk] # None /\ Self = heap[raw.chunk]
  BY RawFacts DEF Self
<1>2. References(raw.chunk) = 1
  BY <1>1 DEF Good, CountsInv, Single
<1>3. \A n \in Msg, p \in Parts : ~(Live(n) /\ Pointing(n, p, raw.chunk))
  BY <1>2, GoodFacts, LoneRaw
<1>4. ASSUME NEW c \in Chunk PROVE RefFn'[c] = RefFn[c]
  <2>1. RefFn'[c] = RefFn[c] - RawCount(c) + RawCount(c)' /\ RefFn[c] \in Nat
    BY NoneReferences, GoodFacts
  <2>2. RawCount(c) = RawCount(c)' /\ RawCount(c) \in {0, 1}
    BY DEF RawCount
  <2> QED
    BY <2>1, <2>2
<1>5. ASSUME NEW p \in Held'
      PROVE  \/ p \in Held /\ p.chunk # raw.chunk
             \/ Behind(heap', p)
  <2>1. \/ p = raw'
        \/ \E m \in Msg, q \in Parts : Live(m) /\ msg[m][q].big /\ p = msg[m][q].at
    BY HeldNext DEF HeldIs, Live
  <2>2. ASSUME NEW m \in Msg, NEW q \in Parts, Live(m), msg[m][q].big, p = msg[m][q].at
        PROVE  p \in Held /\ p.chunk # raw.chunk
    BY <1>3, <2>2, HeldFacts DEF Pointing
  <2> QED
    BY <2>1, <2>2
<1>6. x.refcount = heap[raw.chunk].refcount
  BY <1>1
<1> QED
  BY <1>1, <1>4, <1>5, <1>6, OneChunkChanges

LEMMA ShrinkKeeps ==
    ASSUME Good, TypeOK', NEW n \in 0..MaxSize, Shrink(n)
    PROVE  Kept
<1> DEFINE x == Shrunk(Self, raw.pos, n)
           mem == Self.mem
           pos == raw.pos
           size == Self.size
<1>1. /\ raw # None /\ UNCHANGED <<msg, lent, raw>> /\ Single /\ n <= Self.size
      /\ heap' = [heap EXCEPT ![raw.chunk] = x]
  BY DEF Shrink, Realloc, Self
<1>2. /\ raw \in Ptrs /\ raw.chunk \in Chunk /\ pos \in Nat /\ pos >= First
      /\ Behind(heap, raw) /\ Self \in Chunks
  BY <1>1, RawFacts DEF Self
<1>3. /\ x \in Chunks /\ x.refcount = Self.refcount /\ x.size = n /\ x.mem = Tidy(mem, pos, n)
  BY <1>2, ShrunkFacts
<1>4. mem \in Seq(Cells) /\ pos - 1 + size <= Len(mem) /\ size \in Nat /\ n \in Nat /\ n \in Int
  BY <1>2, MessageAssumption DEF Behind, Self, Chunks
<1>5. heap'[raw.chunk] = x /\ x # None
  BY <1>1, <1>2, <1>3, GoodFacts, NoneAssumption DEF Heaps
<1>6. raw = Ptr(raw.chunk, pos)
  BY <1>2 DEF Ptr, Ptrs
<1> HIDE DEF x, mem, pos
<1>7. pos - 1 + n <= Len(mem)
  <2>1. Len(mem) \in Nat
    BY <1>4
  <2> QED
    BY <1>1, <1>2, <1>4, <2>1
<1>8. Behind(heap', Ptr(raw.chunk, pos))
  BY <1>2, <1>3, <1>4, <1>5, <1>7, TidyIsBehind
<1> QED
  BY <1>1, <1>3, <1>6, <1>8, InPlaceKeeps

LEMMA GrowInPlaceKeeps ==
    ASSUME Good, TypeOK', NEW n \in 0..MaxSize, GrowInPlace(n)
    PROVE  Kept
<1> DEFINE grow == Grow(n)
           x == MovedToFront(Self, raw.pos, grow)
           mem == Shifted(Self.mem, grow)
           pos == raw.pos
           size == Self.size
<1>1. slips = {} /\ TypeOK /\ heap \in Heaps
  BY GoodFacts
<1>2. /\ Single /\ grow \in Nat /\ pos - grow >= First /\ size + grow = n /\ size + grow <= MaxSize
      /\ heap' = [heap EXCEPT ![raw.chunk] = x]
      /\ x \in Chunks /\ raw' = Ptr(raw.chunk, pos - grow) /\ pos - grow \in Nat
  BY <1>1, GrowFacts
<1>3. raw # None /\ UNCHANGED <<msg, lent>>
  BY DEF GrowInPlace, NewPointer, Realloc
<1>4. /\ raw \in Ptrs /\ raw.chunk \in Chunk /\ pos \in Nat /\ Behind(heap, raw) /\ Self \in Chunks
  BY <1>3, RawFacts DEF Self
<1>5. x.refcount = Self.refcount /\ x.size = size + grow /\ x.mem = Tidy(mem, pos - grow, size)
  BY <1>2, <1>4, MovedFacts
<1>6. mem \in Seq(Cells) /\ Len(mem) = Len(Self.mem) /\ Self.mem \in Seq(Cells)
  BY <1>4, ShiftedFacts DEF Chunks
<1>7. size \in Nat /\ pos - 1 + size <= Len(Self.mem)
  BY <1>4, MessageAssumption DEF Behind, Self, Chunks
<1>8. heap'[raw.chunk] = x /\ x # None
  BY <1>1, <1>2, <1>4, NoneAssumption DEF Heaps
<1>9. raw'.chunk = raw.chunk /\ raw' \in Ptrs /\ raw' # None
  <2>1. raw' \in Ptrs /\ raw'.chunk = raw.chunk
    BY <1>2, <1>4 DEF Ptr, Ptrs
  <2> QED
    BY <2>1, NoneAssumption
<1> HIDE DEF grow, x, mem, pos, size
<1>10. PICK a \in Nat : a = pos - grow /\ a >= First
  BY <1>2
<1>11. PICK z \in Nat : z = size + grow /\ a - 1 + z <= Len(mem)
  BY <1>2, <1>4, <1>6, <1>7, <1>10
<1>12. size \in Int /\ heap'[raw.chunk] # None /\ heap'[raw.chunk].size = z
       /\ heap'[raw.chunk].mem = Tidy(mem, a, size)
  BY <1>5, <1>7, <1>8, <1>10, <1>11
<1>13. Behind(heap', Ptr(raw.chunk, a))
  BY <1>6, <1>10, <1>11, <1>12, TidyIsBehind
<1> QED
  BY <1>2, <1>3, <1>5, <1>9, <1>10, <1>13, InPlaceKeeps

(* nn_chunk_realloc with a new chunk: the caller's reference is given up.  *)
LEMMA GrowElsewhereKeeps ==
    ASSUME Good, TypeOK', NEW n \in 0..MaxSize, GrowElsewhere(n)
    PROVE  Kept /\ Keeps(heap, heap')
<1>1. /\ raw # None /\ UNCHANGED <<msg, lent>> /\ Room(heap) # {} /\ raw' = Ptr(Fresh(heap), First)
      /\ heap' = Dropped(Allocated(heap, Copied(n)), CountOf(Big(raw)))
  BY DEF GrowElsewhere, Realloc
<1>2. /\ heap \in Heaps /\ CountsOK(heap, RefFn) /\ RefFn \in [Chunk -> Nat] /\ PointersInv
      /\ lent \in [Msg -> 0..MaxCopies] /\ slips = {} /\ RawOK
  BY GoodFacts
<1>3. n \in Nat /\ n <= MaxSize
  BY MessageAssumption
<1>4. PICK s \in Seq(Cells) : s = Copied(n) /\ Len(s) <= MaxSize
  <2>1. Self # None
    BY <1>1, RawFacts DEF Self
  <2> QED
    BY <1>1, <1>2, <1>3, <2>1, CopiedFacts
<1>5. PICK k : k = CountOf(Big(raw))
  OBVIOUS
<1>6. PICK g : g = Allocated(heap, s)
  OBVIOUS
<1>7. PICK new : new = Fresh(heap)
  OBVIOUS
<1>8. PICK f : f = [RefFn EXCEPT ![new] = 1]
  OBVIOUS
<1>9. /\ new \in Chunk /\ heap[new] = None /\ g \in Heaps
      /\ \A c \in Chunk : c # new => g[c] = heap[c]
  BY <1>1, <1>2, <1>4, <1>6, <1>7, AllocFacts
<1>10. CountsOK(g, f) /\ Keeps(heap, g) /\ RefFn[new] = 0
  BY <1>1, <1>2, <1>4, <1>6, <1>7, <1>8, AllocCounts
<1>11. Behind(g, Ptr(new, First))
  BY <1>1, <1>2, <1>4, <1>6, <1>7, NewIsBehind
<1>12. raw' = Ptr(new, First) /\ heap' = Dropped(g, k)
  BY <1>1, <1>4, <1>5, <1>6, <1>7
<1>13. raw'.chunk = new /\ raw' # None
  <2>1. Ptr(new, First) \in Ptrs /\ Ptr(new, First).chunk = new
    BY <1>9 DEF Ptr, Ptrs, First
  <2> QED
    BY <1>12, <2>1, NoneAssumption
<1>14. raw.chunk # new /\ raw.chunk \in Chunk
  BY <1>1, <1>9, RawFacts
<1>15. ASSUME NEW c \in Chunk
       PROVE  /\ k[c] = RawCount(c) /\ RawCount(c) \in {0, 1} /\ k[c] <= f[c]
              /\ f[c] = IF c = new THEN 1 ELSE RefFn[c]
              /\ RefFn'[c] = Less(f, k)[c]
  <2>1. k[c] = RawCount(c) /\ RawCount(c) \in {0, 1}
    BY <1>1, <1>5, RawFacts DEF RawCount
  <2>2. RefFn'[c] = RefFn[c] - RawCount(c) + RawCount(c)' /\ RefFn[c] \in Nat
    BY <1>1, <1>2, NoneReferences
  <2>3. RefFn[c] = Cardinality(InMessages(c)) + RawCount(c) /\ Cardinality(InMessages(c)) \in Nat
    BY ReferencesFacts
  <2>4. f[c] = IF c = new THEN 1 ELSE RefFn[c]
    BY <1>2, <1>8, <1>9
  <2>5. Less(f, k)[c] = f[c] - k[c]
    BY DEF Less
  <2>6. CASE c = new
    <3>1. RawCount(c) = 0 /\ RawCount(c)' = 1
      BY <1>13, <1>14, <2>6 DEF RawCount
    <3> QED
      BY <1>10, <2>1, <2>2, <2>4, <2>5, <2>6, <3>1
  <2>7. CASE c # new
    <3>1. RawCount(c)' = 0
      BY <1>13, <2>7 DEF RawCount
    <3> QED
      BY <2>1, <2>2, <2>3, <2>4, <2>5, <2>7, <3>1
  <2> QED
    BY <2>6, <2>7
<1>16. k \in Counts
  BY <1>5, CountOfFacts
<1>17. CountsOK(heap', Less(f, k)) /\ Keeps(g, heap')
  BY <1>9, <1>10, <1>12, <1>15, <1>16, DropCounts
<1>18. CountsInv'
  BY <1>15, <1>17, CountsHold
<1>19. Keeps(heap, heap')
  <2> SUFFICES ASSUME NEW c \in Chunk, heap[c] # None, heap'[c] # None
               PROVE  heap'[c].size = heap[c].size /\ heap'[c].mem = heap[c].mem
    BY DEF Keeps
  <2>1. g[c] = heap[c]
    BY <1>9
  <2> QED
    BY <1>17, <2>1 DEF Keeps
<1>20. Behind(heap', raw')
  <2>1. RawCount(new) = 0
    BY <1>14 DEF RawCount
  <2>2. Less(f, k)[new] = 1
    <3>1. Less(f, k)[new] = f[new] - k[new]
      BY <1>9 DEF Less
    <3> QED
      BY <1>9, <1>15, <2>1, <3>1
  <2>3. heap'[new] # None /\ g[new] # None
    BY <1>9, <1>11, <1>17, <2>2 DEF CountsOK, Behind, Ptr
  <2>4. heap'[new].size = g[new].size /\ heap'[new].mem = g[new].mem
    BY <1>9, <1>17, <2>3 DEF Keeps
  <2>5. Ptr(new, First).chunk = new
    BY DEF Ptr
  <2> QED
    BY <1>11, <1>12, <2>3, <2>4, <2>5 DEF Behind
<1>21. ASSUME NEW p \in Held' PROVE p \in Held \/ Behind(heap', p)
  <2>1. \/ p = raw'
        \/ \E m \in Msg, q \in Parts : Live(m) /\ msg[m][q].big /\ p = msg[m][q].at
    BY <1>1, HeldNext DEF HeldIs, Live
  <2> QED
    BY <1>20, <2>1, HeldFacts
<1> QED
  BY <1>2, <1>18, <1>19, <1>21, PointersKept DEF Kept


-----------------------------------------------------------------------------
(* While every line is taken as meant, no step finds an assertion wrong or *)
(* memory freed that it uses.                                              *)
LEMMA GoodIsAlive ==
    ASSUME Good, Alive
    PROVE  ~Misusing /\ \A n \in 0..MaxSize : ~Overrun(n) /\ \A m \in Msg : ~SizeOfSmall(m)
<1>1. slips = {} /\ TypeOK /\ PointersInv
  BY GoodFacts
<1>2. \A p \in Held : Misused(p) = {}
  BY <1>1, BehindIsSound
<1>3. \A P : P \subseteq Held => MisusedIn(P) = {}
  BY <1>2 DEF MisusedIn
<1>4. \A m \in Msg : Live(m) => Pointers(m) \subseteq Held
  BY HeldFacts
<1>5. raw # None => {raw} \subseteq Held
  BY HeldFacts
<1>6. ~Misusing
  BY <1>3, <1>4, <1>5 DEF Misusing, Misuse, Idle
<1> QED
  BY <1>1, <1>6 DEF Overrun, Overruns, SizeOfSmall, SizeFails

(* Copies are announced of messages only.                                  *)
LEMMA AnnouncedNext ==
    ASSUME TypeOK, Announced, [Next]_vars
    PROVE  Announced'
<1>1. \A m \in Msg : ~Live(m) => lent[m] = 0
  BY DEF Announced
<1> SUFFICES ASSUME NEW x \in Msg, ~Live(x)' PROVE lent'[x] = 0
  BY DEF Announced
<1>2. MsgOK /\ lent \in [Msg -> 0..MaxCopies] /\ None \notin [Parts -> Refs]
  BY TypeParts, NoneAssumption DEF RestOK
<1>3. ASSUME lent' = lent, NEW m \in Msg, NEW v, Becomes(m, v), m = x => lent[m] = 0
      PROVE  lent'[x] = 0
  <2>1. x # m => msg'[x] = msg[x]
    BY <1>2, <1>3 DEF Becomes, MsgOK
  <2> QED
    BY <1>1, <1>3, <2>1 DEF Live
<1>4. ASSUME lent' = lent, msg' = msg PROVE lent'[x] = 0
  BY <1>1, <1>4 DEF Live
<1>5. ASSUME NEW m \in Msg, \/ NewMsg(m) \/ TermMsg(m) \/ JoinMsg(m) \/ TakeBody(m) \/ PutBody(m)
      PROVE  lent'[x] = 0
  <2>1. lent' = lent /\ lent[m] = 0 /\ \E v : Becomes(m, v)
    BY <1>1, <1>5 DEF NewMsg, TermMsg, JoinMsg, TakeBody, PutBody, Idle
  <2> QED
    BY <1>3, <2>1
<1>6. ASSUME NEW m \in Msg, NEW d \in Msg, MvMsg(m, d) PROVE lent'[x] = 0
  <2>1. /\ lent' = lent /\ lent[m] = 0 /\ lent[d] = 0
        /\ msg' = [msg EXCEPT ![d] = msg[m], ![m] = None]
    BY <1>1, <1>6 DEF MvMsg, Idle
  <2>2. x # m /\ x # d => msg'[x] = msg[x]
    BY <1>2, <2>1 DEF MsgOK
  <2> QED
    BY <1>1, <2>1, <2>2 DEF Live
<1>7. ASSUME NEW m \in Msg, NEW d \in Msg, CpMsg(m, d) PROVE lent'[x] = 0
  BY <1>1, <1>3, <1>7 DEF CpMsg
<1>8. ASSUME NEW m \in Msg, NEW d \in Msg, BulkCp(m, d) PROVE lent'[x] = 0
  <2>1. /\ Becomes(d, msg[m]) /\ lent' = [lent EXCEPT ![m] = @ - 1] /\ Live(m) /\ ~Live(d)
    BY <1>8 DEF BulkCp
  <2>2. msg'[d] = msg[m] /\ \A n \in Msg : n # d => msg'[n] = msg[n]
    BY <1>2, <2>1 DEF Becomes, MsgOK
  <2>3. x # m /\ x # d
    BY <2>1, <2>2 DEF Live
  <2> QED
    BY <1>1, <1>2, <2>1, <2>2, <2>3 DEF Live
<1>9. ASSUME NEW m \in Msg, NEW k \in 1..MaxCopies, BulkStart(m, k) PROVE lent'[x] = 0
  <2>1. lent' = [lent EXCEPT ![m] = k] /\ msg' = msg /\ Live(m)
    BY <1>9 DEF BulkStart
  <2> QED
    BY <1>1, <1>2, <2>1 DEF Live
<1>10. ASSUME NEW m \in Msg, NEW p \in Parts, NEW n \in 1..MaxSize, TrimMsg(m, p, n)
       PROVE  lent'[x] = 0
  BY <1>3, <1>10 DEF TrimMsg, Idle
<1>11. ASSUME NEW n \in 0..MaxSize,
              Shrink(n) \/ GrowInPlace(n) \/ GrowElsewhere(n) \/ Overrun(n)
       PROVE  lent'[x] = 0
  BY <1>4, <1>11 DEF Shrink, GrowInPlace, GrowElsewhere, Realloc, Overrun
<1>12. CASE FreeRaw \/ Misusing \/ UNCHANGED vars
  BY <1>4, <1>12 DEF FreeRaw, Misusing, Misuse, vars
<1>13. ASSUME NEW m \in Msg, SizeOfSmall(m) PROVE lent'[x] = 0
  BY <1>4, <1>13 DEF SizeOfSmall
<1> QED
  BY <1>5, <1>6, <1>7, <1>8, <1>9, <1>10, <1>11, <1>12, <1>13 DEF Next

(* Which lines are taken as written does not change.                       *)
LEMMA SlipsStay == [Next]_vars => slips' = slips
<1> SUFFICES ASSUME [Next]_vars PROVE slips' = slips
  OBVIOUS
<1>1. ASSUME NEW P, Use(P) \/ Edit(P) \/ Misuse(P) PROVE slips' = slips
  BY <1>1 DEF Use, Edit, Misuse, Sound
<1>2. ASSUME NEW m \in Msg, \/ NewMsg(m) \/ TermMsg(m) \/ JoinMsg(m) \/ SizeOfSmall(m)
                            \/ TakeBody(m) \/ PutBody(m)
      PROVE  slips' = slips
  BY <1>1, <1>2 DEF NewMsg, TermMsg, JoinMsg, SizeOfSmall, TakeBody, PutBody
<1>3. ASSUME NEW m \in Msg, NEW d \in Msg, MvMsg(m, d) \/ CpMsg(m, d) \/ BulkCp(m, d)
      PROVE  slips' = slips
  BY <1>1, <1>3 DEF MvMsg, CpMsg, BulkCp
<1>4. ASSUME NEW m \in Msg, NEW k \in 1..MaxCopies, BulkStart(m, k) PROVE slips' = slips
  BY <1>1, <1>4 DEF BulkStart
<1>5. ASSUME NEW m \in Msg, NEW p \in Parts, NEW n \in 1..MaxSize, TrimMsg(m, p, n)
      PROVE  slips' = slips
  BY <1>1, <1>5 DEF TrimMsg
<1>6. ASSUME NEW n \in 0..MaxSize,
             Shrink(n) \/ GrowInPlace(n) \/ GrowElsewhere(n) \/ Overrun(n)
      PROVE  slips' = slips
  BY <1>1, <1>6 DEF Shrink, GrowInPlace, GrowElsewhere, Realloc, Overrun
<1>7. CASE FreeRaw \/ Misusing \/ UNCHANGED vars
  BY <1>1, <1>7 DEF FreeRaw, Misusing, vars
<1> QED
  BY <1>2, <1>3, <1>4, <1>5, <1>6, <1>7 DEF Next

LEMMA GoodNext ==
    ASSUME Good, Alive, TypeOK', [Next]_vars
    PROVE  Kept /\ Alive'
<1>1. ~Misusing /\ \A n \in 0..MaxSize : ~Overrun(n) /\ \A m \in Msg : ~SizeOfSmall(m)
  BY GoodIsAlive
<1>2. 0 \in 0..MaxSize
  BY MessageAssumption
<1>3. ASSUME NEW P, Use(P) \/ Edit(P) PROVE Alive'
  BY <1>3 DEF Use, Edit, Sound, Alive
<1>4. ASSUME NEW m \in Msg, \/ NewMsg(m) \/ TermMsg(m) \/ JoinMsg(m) \/ TakeBody(m) \/ PutBody(m)
      PROVE  Kept /\ Alive'
  <2>1. Kept
    BY <1>4, NewMsgKeeps, TermMsgKeeps, JoinMsgKeeps, TakeBodyKeeps, PutBodyKeeps
  <2>2. Alive'
    BY <1>3, <1>4 DEF NewMsg, TermMsg, JoinMsg, TakeBody, PutBody, Alive
  <2> QED
    BY <2>1, <2>2
<1>5. ASSUME NEW m \in Msg, NEW d \in Msg, MvMsg(m, d) \/ CpMsg(m, d) \/ BulkCp(m, d)
      PROVE  Kept /\ Alive'
  BY <1>3, <1>5, MvMsgKeeps, CpMsgKeeps, BulkCpKeeps DEF MvMsg, CpMsg, BulkCp
<1>6. ASSUME NEW m \in Msg, NEW k \in 1..MaxCopies, BulkStart(m, k) PROVE Kept /\ Alive'
  BY <1>3, <1>6, BulkStartKeeps DEF BulkStart
<1>7. ASSUME NEW m \in Msg, NEW p \in Parts, NEW n \in 1..MaxSize, TrimMsg(m, p, n)
      PROVE  Kept /\ Alive'
  BY <1>3, <1>7, TrimMsgKeeps DEF TrimMsg
<1>8. ASSUME NEW n \in 0..MaxSize, Shrink(n) \/ GrowInPlace(n) \/ GrowElsewhere(n)
      PROVE  Kept /\ Alive'
  BY <1>3, <1>8, ShrinkKeeps, GrowInPlaceKeeps, GrowElsewhereKeeps
     DEF Shrink, GrowInPlace, GrowElsewhere, Realloc
<1>9. CASE FreeRaw
  BY <1>3, <1>9, FreeRawKeeps DEF FreeRaw
<1>10. CASE UNCHANGED vars
  <2>1. msg' = msg /\ lent' = lent /\ raw' = raw /\ heap' = heap /\ Alive'
    BY <1>10 DEF vars, Alive
  <2>2. /\ CountsOK(heap, RefFn) /\ RefFn \in [Chunk -> Nat] /\ PointersInv
    BY GoodFacts
  <2>3. ASSUME NEW c \in Chunk PROVE RefFn'[c] = RefFn[c]
    <3>1. RefFn'[c] = RefFn[c] - RawCount(c) + RawCount(c)'
      BY <2>1, NoneReferences
    <3>2. RawCount(c)' = RawCount(c) /\ RawCount(c) \in {0, 1} /\ RefFn[c] \in Nat
      BY <2>1, <2>2 DEF RawCount
    <3> QED
      BY <3>1, <3>2
  <2>4. CountsInv'
    BY <2>1, <2>2, <2>3, CountsHold
  <2>5. Keeps(heap, heap')
    BY <2>1 DEF Keeps
  <2>6. \A p \in Held' : p \in Held
    BY <2>1, HeldNext, HeldIsSo DEF HeldIs, Live
  <2> QED
    BY <2>1, <2>2, <2>4, <2>5, <2>6, PointersKept DEF Kept
<1> QED
  BY <1>1, <1>2, <1>4, <1>5, <1>6, <1>7, <1>8, <1>9, <1>10 DEF Next

LEMMA InitInv == Init => IInv
<1> SUFFICES ASSUME Init PROVE IInv
  OBVIOUS
<1>1. TypeOK
  BY MessageAssumption, TextsAssumption DEF Init, TypeOK, Live
<1>2. Announced /\ Alive
  BY DEF Init, Announced, Alive
<1>3. \A m \in Msg : ~Live(m)
  BY DEF Init, Live
<1>4. raw = None /\ \A c \in Chunk : heap[c] = None
  BY DEF Init
<1>5. Held = {}
  BY <1>3, <1>4, HeldIsSo DEF HeldIs
<1>6. \A c \in Chunk : References(c) = 0
  <2> SUFFICES ASSUME NEW c \in Chunk PROVE References(c) = 0
    OBVIOUS
  <2>1. InMessages(c) = {}
    BY <1>3, InMessagesFacts
  <2>2. Cardinality({}) = 0
    BY FS_EmptySet
  <2>3. Cardinality(InMessages(c)) = 0
    BY <2>1, <2>2, Zenon
  <2>4. RawCount(c) = 0
    BY <1>4 DEF RawCount
  <2> QED
    BY <2>3, <2>4, ReferencesFacts
<1> QED
  BY <1>1, <1>2, <1>4, <1>5, <1>6 DEF IInv, PointersInv, CountsInv

LEMMA NextInv == IInv /\ [Next]_vars => IInv'
<1> SUFFICES ASSUME IInv, [Next]_vars PROVE IInv'
  OBVIOUS
<1>1. TypeOK' /\ Announced'
  BY NextType, AnnouncedNext DEF IInv
<1>2. slips' = slips
  BY SlipsStay
<1>3. ASSUME slips = {} PROVE Alive' /\ PointersInv' /\ CountsInv'
  <2>1. Good /\ Alive
    BY <1>3 DEF IInv, Good
  <2> QED
    BY <1>1, <2>1, GoodNext DEF Kept
<1> QED
  BY <1>1, <1>2, <1>3 DEF IInv

(* While every line is taken as meant a chunk lives as long as something   *)
(* refers to it and no longer, and no pointer misses the header of its     *)
(* chunk: with any number of messages, chunks and announced copies, for    *)
(* texts and chunks of any length.                                         *)
THEOREM RefcountsAreTrue == Spec => []RefcountsTrue
<1>1. IInv => RefcountsTrue
  BY DEF IInv, RefcountsTrue, CountsInv
<1> QED
  BY <1>1, InitInv, NextInv, PTL DEF Spec


-----------------------------------------------------------------------------
(* Messages as values.  What a reference reads as in the heap h.           *)
ValueIn(h, r) ==
    IF r.big THEN [i \in 1..h[r.at.chunk].size |-> Cell(h[r.at.chunk].mem, r.at.pos + i - 1)]
    ELSE r.data

LEMMA ValueInFacts ==
    ASSUME NEW h \in Heaps, NEW r \in Refs, Proper(r), r.big => h[r.at.chunk] # None
    PROVE  /\ ValueIn(h, r) \in Seq(Cells)
           /\ r.big => /\ Len(ValueIn(h, r)) = h[r.at.chunk].size /\ h[r.at.chunk].size \in Nat
                       /\ \A i \in 1..h[r.at.chunk].size :
                             ValueIn(h, r)[i] = Cell(h[r.at.chunk].mem, r.at.pos + i - 1)
<1>1. CASE ~r.big
  BY <1>1, RefFacts DEF ValueIn
<1>2. CASE r.big
  <2> DEFINE n == h[r.at.chunk].size
             mem == h[r.at.chunk].mem
             f == [i \in 1..n |-> Cell(mem, r.at.pos + i - 1)]
  <2>1. h[r.at.chunk] \in Chunks
    BY <1>2, RefFacts DEF Heaps
  <2>2. n \in Nat /\ mem \in Seq(Cells)
    BY <2>1, MessageAssumption DEF Chunks
  <2>3. ValueIn(h, r) = f
    BY <1>2 DEF ValueIn
  <2>4. \A i \in 1..n : f[i] = Cell(mem, r.at.pos + i - 1)
    OBVIOUS
  <2>5. f \in [1..n -> Cells]
    BY <2>2, CellType
  <2> HIDE DEF f
  <2>6. f \in Seq(Cells) /\ Len(f) = n
    BY <2>2, <2>5, CountedSeq
  <2> QED
    BY <2>2, <2>3, <2>4, <2>6
<1> QED
  BY <1>1, <1>2

(* Two sequences of cells are the same when their cells are.               *)
LEMMA SameCells ==
    ASSUME NEW s \in Seq(Cells), NEW t \in Seq(Cells), Len(s) = Len(t),
           \A i \in 1..Len(s) : s[i] = t[i]
    PROVE  s = t
OBVIOUS

(* A reference reads the same in two heaps that agree on its chunk.        *)
LEMMA ValueSame ==
    ASSUME NEW h, NEW g, NEW r,
           r.big => g[r.at.chunk].size = h[r.at.chunk].size /\ g[r.at.chunk].mem = h[r.at.chunk].mem
    PROVE  ValueIn(g, r) = ValueIn(h, r)
BY DEF ValueIn

(* A new chunk reads as what was put into it.                              *)
LEMMA ReadsAs ==
    ASSUME slips = {}, NEW g \in Heaps, NEW c \in Chunk, g[c] # None, NEW s \in Seq(Cells),
           g[c].size = Len(s), g[c].mem = Header \o s
    PROVE  ValueIn(g, Big(Ptr(c, First))) = s
<1> DEFINE p == Ptr(c, First)
           r == Big(p)
<1>1. p \in Ptrs /\ p.pos >= First /\ p.chunk = c /\ p.pos = 3
  BY DEF Ptr, Ptrs, First
<1>2. r \in Refs /\ Proper(r) /\ r.big /\ r.at = p
  BY <1>1, BigFacts
<1> HIDE DEF r, p
<1>3. /\ ValueIn(g, r) \in Seq(Cells) /\ Len(ValueIn(g, r)) = Len(s)
      /\ \A i \in 1..Len(s) : ValueIn(g, r)[i] = Cell(Header \o s, 3 + i - 1)
  <2>1. r.at.chunk = c /\ r.at.pos = 3 /\ r.big /\ r \in Refs /\ Proper(r)
    BY <1>1, <1>2
  <2>2. /\ ValueIn(g, r) \in Seq(Cells) /\ Len(ValueIn(g, r)) = g[c].size
        /\ \A i \in 1..g[c].size : ValueIn(g, r)[i] = Cell(g[c].mem, 3 + i - 1)
    <3>1. r.big => g[r.at.chunk] # None
      BY <2>1
    <3>2. PICK v : v = ValueIn(g, r)
      OBVIOUS
    <3>3. /\ v \in Seq(Cells) /\ Len(v) = g[r.at.chunk].size
          /\ \A i \in 1..g[r.at.chunk].size : v[i] = Cell(g[r.at.chunk].mem, r.at.pos + i - 1)
      BY <2>1, <3>1, <3>2, ValueInFacts
    <3> QED
      BY <2>1, <3>2, <3>3
  <2> QED
    BY <2>2
<1>4. /\ Header \o s \in Seq(Cells) /\ Len(Header \o s) = Len(s) + 2
      /\ \A i \in 1..Len(s) : (Header \o s)[i + 2] = s[i]
  BY HeaderFacts
<1>5. ASSUME NEW i \in 1..Len(s) PROVE ValueIn(g, r)[i] = s[i]
  <2>1. 3 + i - 1 = i + 2 /\ i + 2 \in 1..Len(s) + 2
    OBVIOUS
  <2>2. i + 2 \in DOMAIN (Header \o s)
    BY <1>4, <2>1
  <2> QED
    BY <1>3, <1>4, <2>1, <2>2 DEF Cell
<1> QED
  BY <1>3, <1>5, SameCells DEF r, p

(* The refinement mapping, in a state where all goes well.                 *)
IsRight ==
    Good /\ Alive =>
       /\ Contents \in [Msg -> [Parts -> Seq(Cells)] \cup {None}]
       /\ \A m \in Msg : Contents[m] # None <=> Live(m)
       /\ \A m \in Msg : Live(m) => /\ Contents[m] \in [Parts -> Seq(Cells)]
                                    /\ \A p \in Parts : Contents[m][p] = ValueIn(heap, msg[m][p])
       /\ Outside \in Seq(Cells) \cup {None}
       /\ Outside # None <=> raw # None
       /\ raw # None => Outside = ValueIn(heap, Big(raw)) /\ Outside \in Seq(Cells)

LEMMA IsRightNow == IsRight
<1> SUFFICES ASSUME Good, Alive
             PROVE  /\ Contents \in [Msg -> [Parts -> Seq(Cells)] \cup {None}]
                    /\ \A m \in Msg : Contents[m] # None <=> Live(m)
                    /\ \A m \in Msg : Live(m) =>
                          /\ Contents[m] \in [Parts -> Seq(Cells)]
                          /\ \A p \in Parts : Contents[m][p] = ValueIn(heap, msg[m][p])
                    /\ Outside \in Seq(Cells) \cup {None}
                    /\ Outside # None <=> raw # None
                    /\ raw # None => Outside = ValueIn(heap, Big(raw)) /\ Outside \in Seq(Cells)
  BY DEF IsRight
<1>1. Meant /\ heap \in Heaps /\ MsgOK
  BY GoodFacts DEF Meant
<1>2. \A r : Value(r) = ValueIn(heap, r)
  BY DEF Value, Data, ValueIn
<1>3. Contents = [m \in Msg |-> IF Live(m) THEN [p \in Parts |-> ValueIn(heap, msg[m][p])] ELSE None]
  BY <1>1, <1>2 DEF Contents
<1>4. ASSUME NEW m \in Msg, Live(m)
      PROVE  [p \in Parts |-> ValueIn(heap, msg[m][p])] \in [Parts -> Seq(Cells)]
  <2>1. ASSUME NEW p \in Parts PROVE ValueIn(heap, msg[m][p]) \in Seq(Cells)
    <3>1. msg[m][p] \in Refs /\ Proper(msg[m][p])
      BY <1>1, <1>4, LiveType
    <3>2. msg[m][p].big => heap[msg[m][p].at.chunk] # None
      BY <1>4, HeldFacts, GoodFacts DEF Behind
    <3> QED
      BY <1>1, <3>1, <3>2, ValueInFacts
  <2> QED
    BY <2>1
<1>5. raw # None => Outside = ValueIn(heap, Big(raw)) /\ Outside \in Seq(Cells)
  <2> SUFFICES ASSUME raw # None
               PROVE  Outside = ValueIn(heap, Big(raw)) /\ Outside \in Seq(Cells)
    OBVIOUS
  <2>1. Outside = ValueIn(heap, Big(raw))
    BY <1>1 DEF Outside, Data, ValueIn, Big
  <2>2. Big(raw) \in Refs /\ Proper(Big(raw)) /\ heap[Big(raw).at.chunk] # None
    BY RawFacts DEF Big
  <2> QED
    BY <1>1, <2>1, <2>2, ValueInFacts
<1>6. raw = None => Outside = None
  BY DEF Outside
<1> QED
  BY <1>3, <1>4, <1>5, <1>6, NoneAssumption

LEMMA IsRightNext == IsRight'
BY IsRightNow, PTL

Steps == Good /\ Alive /\ Good' /\ Alive'

LEMMA StepsFacts ==
    ASSUME Steps
    PROVE  /\ Contents \in [Msg -> [Parts -> Seq(Cells)] \cup {None}]
           /\ \A m \in Msg : Contents[m] # None <=> Live(m)
           /\ \A m \in Msg : Live(m) => /\ Contents[m] \in [Parts -> Seq(Cells)]
                                        /\ \A p \in Parts : Contents[m][p] = ValueIn(heap, msg[m][p])
           /\ Outside # None <=> raw # None
           /\ raw # None => Outside = ValueIn(heap, Big(raw)) /\ Outside \in Seq(Cells)
           /\ Contents' \in [Msg -> [Parts -> Seq(Cells)] \cup {None}]
           /\ \A m \in Msg : Contents'[m] # None <=> msg'[m] # None
           /\ \A m \in Msg : msg'[m] # None =>
                 /\ Contents'[m] \in [Parts -> Seq(Cells)]
                 /\ \A p \in Parts : Contents'[m][p] = ValueIn(heap', msg'[m][p])
           /\ Outside' # None <=> raw' # None
           /\ raw' # None => Outside' = ValueIn(heap', Big(raw')) /\ Outside' \in Seq(Cells)
<1>1. \A m, p : ValueIn(heap, msg[m][p])' = ValueIn(heap', msg'[m][p])
  BY DEF ValueIn
<1>2. ValueIn(heap, Big(raw))' = ValueIn(heap', Big(raw'))
  BY DEF ValueIn, Big
<1>3. \A m : Live(m)' <=> msg'[m] # None
  BY DEF Live
<1>4. Good /\ Alive /\ Good' /\ Alive'
  BY DEF Steps
<1> QED
  BY <1>1, <1>2, <1>3, <1>4, IsRightNow, IsRightNext DEF IsRight

(* Pointers that are held before and after lead to chunks that are there.  *)
LEMMA BothThere ==
    ASSUME Steps
    PROVE  /\ \A m \in Msg, p \in Parts : msg[m] # None /\ msg[m][p].big =>
                 msg[m][p].at.chunk \in Chunk /\ heap[msg[m][p].at.chunk] # None
           /\ \A m \in Msg, p \in Parts : msg'[m] # None /\ msg'[m][p].big =>
                 heap'[msg'[m][p].at.chunk] # None
           /\ raw # None => raw.chunk \in Chunk /\ heap[raw.chunk] # None
           /\ raw' # None => heap'[raw'.chunk] # None
<1>1. PointersInv /\ PointersInv' /\ TypeOK
  BY DEF Steps, Good
<1>2. \A p \in Held : p.chunk \in Chunk /\ heap[p.chunk] # None
  BY <1>1, HeldType DEF PointersInv, Behind
<1>3. \A p \in Held' : heap'[p.chunk] # None
  BY <1>1 DEF PointersInv, Behind
<1> QED
  BY <1>2, <1>3, HeldIsSo, HeldNext DEF HeldIs, Live

(* A reference that a message had and a message still has, reads the same. *)
LEMMA MessageStays ==
    ASSUME Steps, Keeps(heap, heap'), NEW n \in Msg, NEW d \in Msg, msg'[d] = msg[n]
    PROVE  Contents'[d] = Contents[n]
<1>1. CASE msg[n] = None
  BY <1>1, StepsFacts DEF Live
<1>2. CASE msg[n] # None
  <2>1. /\ Contents[n] \in [Parts -> Seq(Cells)] /\ Contents'[d] \in [Parts -> Seq(Cells)]
        /\ \A p \in Parts : Contents[n][p] = ValueIn(heap, msg[n][p])
        /\ \A p \in Parts : Contents'[d][p] = ValueIn(heap', msg[n][p])
    BY <1>2, StepsFacts DEF Live
  <2>2. ASSUME NEW p \in Parts PROVE ValueIn(heap', msg[n][p]) = ValueIn(heap, msg[n][p])
    <3>1. msg[n][p].big => /\ msg[n][p].at.chunk \in Chunk /\ heap[msg[n][p].at.chunk] # None
                           /\ heap'[msg[n][p].at.chunk] # None
      BY <1>2, BothThere
    <3> QED
      BY <3>1, ValueSame DEF Keeps
  <2> QED
    BY <2>1, <2>2
<1> QED
  BY <1>1, <1>2

LEMMA OutsideStays ==
    ASSUME Steps, Keeps(heap, heap'), raw' = raw
    PROVE  Outside' = Outside
<1>1. CASE raw = None
  BY <1>1, StepsFacts
<1>2. CASE raw # None
  <2>1. Outside = ValueIn(heap, Big(raw)) /\ Outside' = ValueIn(heap', Big(raw))
    BY <1>2, StepsFacts
  <2>2. raw.chunk \in Chunk /\ heap[raw.chunk] # None /\ heap'[raw.chunk] # None
    BY <1>2, BothThere
  <2>3. Big(raw).at = raw
    BY DEF Big
  <2> QED
    BY <2>1, <2>2, <2>3, ValueSame DEF Keeps
<1> QED
  BY <1>1, <1>2

(* When one message changes its contents change alone.                     *)
LEMMA OneContent ==
    ASSUME Steps, Keeps(heap, heap'), NEW m \in Msg, \A n \in Msg \ {m} : msg'[n] = msg[n]
    PROVE  Contents' = [Contents EXCEPT ![m] = Contents'[m]]
<1>1. /\ Contents \in [Msg -> [Parts -> Seq(Cells)] \cup {None}]
      /\ Contents' \in [Msg -> [Parts -> Seq(Cells)] \cup {None}]
  BY StepsFacts
<1>2. \A n \in Msg \ {m} : Contents'[n] = Contents[n]
  BY MessageStays
<1> QED
  BY <1>1, <1>2

LEMMA BecomesContent ==
    ASSUME Steps, Keeps(heap, heap'), NEW m \in Msg, NEW x, Becomes(m, x)
    PROVE  Contents' = [Contents EXCEPT ![m] = Contents'[m]] /\ msg'[m] = x
<1>1. msg'[m] = x /\ \A n \in Msg \ {m} : msg'[n] = msg[n]
  BY GoodFacts DEF Becomes, MsgOK, Steps
<1> QED
  BY <1>1, OneContent


(* Each operation is one of MsgValue's.                                    *)
LEMMA StepsAre == Steps => Good /\ Alive /\ TypeOK' /\ slips = {} /\ MsgOK /\ heap' \in Heaps
BY TypePartsNext, GoodFacts DEF Steps, Good

LEMMA NewMsgWrites ==
    ASSUME Steps, NEW m \in Msg, NewMsg(m)
    PROVE  Values!Write(m)
<1>1. Keeps(heap, heap') /\ Live(m)' /\ ~Live(m) /\ raw' = raw /\ \E x : Becomes(m, x)
  BY StepsAre, NewMsgKeeps DEF NewMsg
<1>2. Contents' = [Contents EXCEPT ![m] = Contents'[m]] /\ Outside' = Outside
  BY <1>1, BecomesContent, OutsideStays
<1>3. Contents[m] = None /\ Contents'[m] # None
  BY <1>1, StepsFacts DEF Live
<1> QED
  BY <1>2, <1>3 DEF Values!Write, Values!Is

LEMMA TermMsgForgets ==
    ASSUME Steps, NEW m \in Msg, TermMsg(m)
    PROVE  Values!Forget(m)
<1>1. Keeps(heap, heap') /\ Live(m) /\ raw' = raw /\ Becomes(m, None)
  BY StepsAre, TermMsgKeeps DEF TermMsg, Idle
<1>2. /\ Contents' = [Contents EXCEPT ![m] = Contents'[m]] /\ Outside' = Outside
      /\ msg'[m] = None
  BY <1>1, BecomesContent, OutsideStays
<1>3. Contents[m] # None /\ Contents'[m] = None
  BY <1>1, <1>2, StepsFacts
<1> QED
  BY <1>2, <1>3 DEF Values!Forget, Values!Is

LEMMA CopiesAre ==
    ASSUME Steps, Keeps(heap, heap'), NEW m \in Msg, NEW d \in Msg, Live(m), ~Live(d),
           Becomes(d, msg[m]), raw' = raw
    PROVE  Values!Copy(m, d)
<1>1. /\ Contents' = [Contents EXCEPT ![d] = Contents'[d]] /\ Outside' = Outside
      /\ msg'[d] = msg[m]
  BY BecomesContent, OutsideStays
<1>2. Contents'[d] = Contents[m]
  BY <1>1, MessageStays
<1>3. Contents[m] # None /\ Contents[d] = None
  BY StepsFacts
<1> QED
  BY <1>1, <1>2, <1>3 DEF Values!Copy, Values!Is

LEMMA CpMsgCopies ==
    ASSUME Steps, NEW m \in Msg, NEW d \in Msg, CpMsg(m, d) \/ BulkCp(m, d)
    PROVE  Values!Copy(m, d)
<1>1. Keeps(heap, heap')
  BY StepsAre, CpMsgKeeps, BulkCpKeeps
<1> QED
  BY <1>1, CopiesAre DEF CpMsg, BulkCp

LEMMA MvMsgMoves ==
    ASSUME Steps, NEW m \in Msg, NEW d \in Msg, MvMsg(m, d)
    PROVE  Values!Move(m, d)
<1>1. /\ Keeps(heap, heap') /\ Live(m) /\ ~Live(d) /\ raw' = raw /\ m # d
      /\ msg' = [msg EXCEPT ![d] = msg[m], ![m] = None]
  BY StepsAre, MvMsgKeeps DEF MvMsg, Idle, Live
<1>2. msg'[d] = msg[m] /\ msg'[m] = None /\ \A n \in Msg \ {m, d} : msg'[n] = msg[n]
  BY <1>1, StepsAre DEF MsgOK
<1>3. /\ Contents'[d] = Contents[m] /\ \A n \in Msg \ {m, d} : Contents'[n] = Contents[n]
      /\ Outside' = Outside
  BY <1>1, <1>2, MessageStays, OutsideStays
<1>4. /\ Contents'[m] = None /\ Contents[m] # None /\ Contents[d] = None
      /\ Contents \in [Msg -> [Parts -> Seq(Cells)] \cup {None}]
      /\ Contents' \in [Msg -> [Parts -> Seq(Cells)] \cup {None}]
  BY <1>1, <1>2, StepsFacts
<1>5. Contents' = [Contents EXCEPT ![d] = Contents[m], ![m] = None]
  BY <1>1, <1>3, <1>4
<1> QED
  BY <1>3, <1>4, <1>5 DEF Values!Move, Values!Is

LEMMA BulkStartIsSilent ==
    ASSUME Steps, NEW m \in Msg, NEW k \in 1..MaxCopies, BulkStart(m, k)
    PROVE  Contents' = Contents /\ Outside' = Outside
<1>1. Keeps(heap, heap') /\ msg' = msg /\ raw' = raw
  BY StepsAre, BulkStartKeeps DEF BulkStart
<1>2. \A n \in Msg : Contents'[n] = Contents[n]
  BY <1>1, MessageStays
<1>3. /\ Contents \in [Msg -> [Parts -> Seq(Cells)] \cup {None}]
      /\ Contents' \in [Msg -> [Parts -> Seq(Cells)] \cup {None}]
  BY StepsFacts
<1> QED
  BY <1>1, <1>2, <1>3, OutsideStays

(* What an empty message with a body reads as.                             *)
LEMMA AloneFacts ==
    ASSUME NEW v, NEW w \in [Parts -> Seq(Cells)], w["body"] = v,
           \A p \in Parts : p # "body" => w[p] = <<>>
    PROVE  w = Values!Alone(v)
<1>1. "body" \in Parts /\ w = [p \in Parts |-> IF p = "body" THEN v ELSE <<>>]
  BY DEF Parts
<1> QED
  BY <1>1 DEF Values!Alone

LEMMA PlainReads ==
    ASSUME Steps, NEW m \in Msg, NEW r \in Refs, Proper(r), msg'[m] = Plain(r)
    PROVE  Contents'[m] = Values!Alone(ValueIn(heap', r))
<1>1. /\ Plain(r) \in [Parts -> Refs] /\ Plain(r)["body"] = r
      /\ \A p \in Parts : p # "body" => Plain(r)[p] = Small(<<>>)
  BY PlainFacts
<1>2. msg'[m] # None
  BY <1>1, NoneAssumption
<1>3. /\ Contents'[m] \in [Parts -> Seq(Cells)]
      /\ \A p \in Parts : Contents'[m][p] = ValueIn(heap', msg'[m][p])
  BY <1>2, StepsFacts
<1>4. \A h : ValueIn(h, Small(<<>>)) = <<>>
  BY DEF ValueIn, Small
<1>5. "body" \in Parts
  BY DEF Parts
<1>6. /\ Contents'[m]["body"] = ValueIn(heap', r)
      /\ \A p \in Parts : p # "body" => Contents'[m][p] = <<>>
  BY <1>1, <1>3, <1>4, <1>5
<1> QED
  BY <1>3, <1>6, AloneFacts

LEMMA JoinMsgJoins ==
    ASSUME Steps, NEW m \in Msg, JoinMsg(m)
    PROVE  Values!Join(m)
<1> DEFINE all == Value(msg[m]["sphdr"]) \o Value(msg[m]["body"])
           r == NewRef(heap, all)
           g == HeapNewRef(heap, all)
           n == CountIn(m)
<1>1. /\ Live(m) /\ Edit(Pointers(m)) /\ Len(all) <= MaxSize
      /\ (Len(all) >= RefMax => Room(heap) # {})
      /\ heap' = Dropped(g, n) /\ Becomes(m, Plain(r)) /\ raw' = raw
  BY DEF JoinMsg, Idle
<1>2. /\ heap \in Heaps /\ MsgOK /\ slips = {} /\ TypeOK /\ heap' \in Heaps
  BY GoodFacts, StepsAre
<1>3. Keeps(heap, heap')
  BY StepsAre, JoinMsgKeeps
<1>4. all \in Seq(Cells)
  BY <1>1, <1>2, JoinedFacts DEF Edit, Sound
<1>5. all = Contents[m]["sphdr"] \o Contents[m]["body"]
  <2>1. \A x : Value(x) = ValueIn(heap, x)
    BY DEF Value, Data, ValueIn
  <2>2. "sphdr" \in Parts /\ "body" \in Parts
    BY DEF Parts
  <2> QED
    BY <1>1, <2>1, <2>2, StepsFacts
<1> HIDE DEF all
<1>6. /\ r \in Refs /\ Proper(r) /\ g \in Heaps
      /\ IF Len(all) < RefMax THEN r = Small(all)
         ELSE r = Big(Ptr(Fresh(heap), First)) /\ g = Allocated(heap, all)
      /\ \A c \in Chunk : heap[c] # None => g[c] = heap[c]
  BY <1>1, <1>2, <1>4, NewRefFacts
<1>7. /\ Contents' = [Contents EXCEPT ![m] = Contents'[m]] /\ Outside' = Outside
      /\ msg'[m] = Plain(r)
  BY <1>1, <1>3, BecomesContent, OutsideStays
<1>8. ValueIn(heap', r) = all
  <2>1. CASE Len(all) < RefMax
    BY <1>6, <2>1 DEF ValueIn, Small
  <2>2. CASE ~(Len(all) < RefMax)
    <3> DEFINE c == Fresh(heap)
    <3>1. Room(heap) # {}
      <4>1. Len(all) \in Nat /\ RefMax \in Nat
        BY <1>4, MessageAssumption
      <4> QED
        BY <1>1, <2>2, <4>1
    <3>2. c \in Chunk /\ heap[c] = None /\ Allocated(heap, all)[c] = NewChunk(all)
      BY <1>1, <1>2, <1>4, <3>1, AllocFacts
    <3>3. r = Big(Ptr(c, First)) /\ g[c] = NewChunk(all)
      BY <1>6, <2>2, <3>2
    <3>4. \A x \in Chunk : n[x] # 0 => heap[x] # None
      BY <1>1, CountedIsThere DEF Edit, Sound
    <3>5. n \in Counts /\ n[c] = 0
      BY <3>2, <3>4, CountFacts
    <3> HIDE DEF n, g, r, c
    <3>6. \A x \in Chunk : n[x] # 0 => g[x] # None
      BY <1>6, <3>4
    <3>7. heap'[c] = g[c]
      <4>1. g \in Heaps /\ n \in Counts /\ \A x \in Chunk : n[x] # 0 => g[x] # None
        BY <1>6, <3>5, <3>6
      <4>2. \A x \in Chunk : n[x] = 0 => Dropped(g, n)[x] = g[x]
        BY <4>1, DroppedFacts
      <4>3. c \in Chunk /\ n[c] = 0 /\ heap' = Dropped(g, n)
        BY <1>1, <3>2, <3>5
      <4> QED
        BY <4>2, <4>3
    <3>8. NewChunk(all).size = Len(all) /\ NewChunk(all).mem = Header \o all
      BY DEF NewChunk
    <3>9. heap'[c] # None
      <4>1. NewChunk(all) \in Chunks
        BY <1>1, <1>2, <1>4, <3>1, AllocFacts
      <4> QED
        BY <3>3, <3>7, <4>1, NoneAssumption
    <3> HIDE DEF NewChunk
    <3> QED
      BY <1>2, <1>4, <3>2, <3>3, <3>7, <3>8, <3>9, ReadsAs
  <2> QED
    BY <2>1, <2>2
<1> HIDE DEF r, g
<1>9. Contents'[m] = Values!Alone(all)
  BY <1>6, <1>7, <1>8, PlainReads
<1>10. Contents[m] # None
  BY <1>1, StepsFacts
<1>11. Contents' = [Contents EXCEPT ![m] = Values!Alone(Contents[m]["sphdr"] \o Contents[m]["body"])]
  BY <1>5, <1>7, <1>9
<1> QED
  BY <1>7, <1>10, <1>11 DEF Values!Join, Values!Is

(* One part of a message becomes another reference, the others stay.       *)
Others(m, q) ==
    \A n \in Msg, p \in Parts :
        Live(n) /\ msg[n][p].big /\ (n # m \/ p # q) =>
            LET c == msg[n][p].at.chunk
            IN  heap'[c].size = heap[c].size /\ heap'[c].mem = heap[c].mem

LEMMA ReplacedReads ==
    ASSUME Steps, NEW m \in Msg, Live(m), NEW q \in Parts, NEW r \in Refs, Others(m, q),
           Becomes(m, [msg[m] EXCEPT ![q] = r])
    PROVE  Contents' = [Contents EXCEPT ![m] = [Contents[m] EXCEPT ![q] = ValueIn(heap', r)]]
<1>1. msg[m] \in [Parts -> Refs]
  BY StepsAre, LiveType
<1>2. msg'[m] = [msg[m] EXCEPT ![q] = r] /\ \A n \in Msg \ {m} : msg'[n] = msg[n]
  BY StepsAre DEF Becomes, MsgOK
<1>3. msg'[m] # None /\ msg[m] # None
  BY <1>1, <1>2, NoneAssumption
<1>4. /\ Contents[m] \in [Parts -> Seq(Cells)] /\ Contents'[m] \in [Parts -> Seq(Cells)]
      /\ \A p \in Parts : Contents[m][p] = ValueIn(heap, msg[m][p])
      /\ \A p \in Parts : Contents'[m][p] = ValueIn(heap', msg'[m][p])
  BY <1>3, StepsFacts DEF Live
<1>5. \A p \in Parts : msg'[m][p] = IF p = q THEN r ELSE msg[m][p]
  BY <1>1, <1>2
<1>6. ASSUME NEW n \in Msg, NEW p \in Parts, Live(n), n # m \/ p # q
      PROVE  ValueIn(heap', msg[n][p]) = ValueIn(heap, msg[n][p])
  BY <1>6, ValueSame DEF Others
<1>7. \A p \in Parts : Contents'[m][p] = IF p = q THEN ValueIn(heap', r) ELSE Contents[m][p]
  BY <1>3, <1>4, <1>5, <1>6 DEF Live
<1>8. Contents'[m] = [Contents[m] EXCEPT ![q] = ValueIn(heap', r)]
  BY <1>4, <1>7
<1>9. ASSUME NEW n \in Msg \ {m} PROVE Contents'[n] = Contents[n]
  <2>1. CASE msg[n] = None
    BY <1>2, <2>1, StepsFacts DEF Live
  <2>2. CASE msg[n] # None
    <3>1. /\ Contents[n] \in [Parts -> Seq(Cells)] /\ Contents'[n] \in [Parts -> Seq(Cells)]
          /\ \A p \in Parts : Contents[n][p] = ValueIn(heap, msg[n][p])
          /\ \A p \in Parts : Contents'[n][p] = ValueIn(heap', msg[n][p])
      <4>1. msg'[n] = msg[n] /\ msg[n] # None /\ n \in Msg
        BY <1>2, <2>2
      <4>2. /\ Contents[n] \in [Parts -> Seq(Cells)]
            /\ \A p \in Parts : Contents[n][p] = ValueIn(heap, msg[n][p])
        BY <4>1, StepsFacts DEF Live
      <4>3. /\ Contents'[n] \in [Parts -> Seq(Cells)]
            /\ \A p \in Parts : Contents'[n][p] = ValueIn(heap', msg'[n][p])
        BY <4>1, StepsFacts
      <4> QED
        BY <4>1, <4>2, <4>3
    <3>2. n \in Msg /\ n # m /\ Live(n)
      BY <2>2 DEF Live
    <3>3. \A p \in Parts : ValueIn(heap', msg[n][p]) = ValueIn(heap, msg[n][p])
      BY <1>6, <3>2
    <3> QED
      BY <3>1, <3>3
  <2> QED
    BY <2>1, <2>2
<1>10. /\ Contents \in [Msg -> [Parts -> Seq(Cells)] \cup {None}]
       /\ Contents' \in [Msg -> [Parts -> Seq(Cells)] \cup {None}]
  BY StepsFacts
<1> QED
  BY <1>8, <1>9, <1>10

LEMMA OthersStay ==
    ASSUME Steps, Keeps(heap, heap'), NEW m \in Msg, NEW q \in Parts,
           NEW r \in Refs, Becomes(m, [msg[m] EXCEPT ![q] = r])
    PROVE  Others(m, q)
<1> SUFFICES ASSUME NEW n \in Msg, NEW p \in Parts, Live(n), msg[n][p].big, n # m \/ p # q
             PROVE  LET c == msg[n][p].at.chunk
                    IN  heap'[c].size = heap[c].size /\ heap'[c].mem = heap[c].mem
  BY DEF Others
<1>1. msg[n] \in [Parts -> Refs]
  BY StepsAre, LiveType
<1>2. msg'[n] = IF n = m THEN [msg[n] EXCEPT ![q] = r] ELSE msg[n]
  BY StepsAre DEF Becomes, MsgOK
<1>3. msg'[n] # None
  BY <1>1, <1>2, NoneAssumption
<1>4. msg'[n][p] = msg[n][p]
  BY <1>1, <1>2
<1> QED
  BY <1>3, <1>4, BothThere DEF Keeps, Live

(* FreeRaw, PutBody and TakeBody.                                          *)
LEMMA NoneChange ==
    ASSUME Steps, msg' = msg,
           \A n \in Msg, p \in Parts : Live(n) /\ msg[n][p].big =>
               LET c == msg[n][p].at.chunk
               IN  heap'[c].size = heap[c].size /\ heap'[c].mem = heap[c].mem
    PROVE  Contents' = Contents
<1>1. ASSUME NEW n \in Msg PROVE Contents'[n] = Contents[n]
  <2>1. CASE msg[n] = None
    BY <2>1, StepsFacts DEF Live
  <2>2. CASE msg[n] # None
    <3>1. /\ Contents[n] \in [Parts -> Seq(Cells)] /\ Contents'[n] \in [Parts -> Seq(Cells)]
          /\ \A p \in Parts : Contents[n][p] = ValueIn(heap, msg[n][p])
          /\ \A p \in Parts : Contents'[n][p] = ValueIn(heap', msg[n][p])
      BY <2>2, StepsFacts DEF Live
    <3>2. \A p \in Parts : ValueIn(heap', msg[n][p]) = ValueIn(heap, msg[n][p])
      BY <2>2, ValueSame DEF Live
    <3> QED
      BY <3>1, <3>2
  <2> QED
    BY <2>1, <2>2
<1>2. /\ Contents \in [Msg -> [Parts -> Seq(Cells)] \cup {None}]
      /\ Contents' \in [Msg -> [Parts -> Seq(Cells)] \cup {None}]
  BY StepsFacts
<1> QED
  BY <1>1, <1>2

LEMMA AllStay ==
    ASSUME Steps, Keeps(heap, heap'), msg' = msg
    PROVE  Contents' = Contents
<1>1. \A n \in Msg, p \in Parts : Live(n) /\ msg[n][p].big =>
          LET c == msg[n][p].at.chunk
          IN  heap'[c].size = heap[c].size /\ heap'[c].mem = heap[c].mem
  BY BothThere DEF Keeps, Live
<1> QED
  BY <1>1, NoneChange

LEMMA FreeRawReleases ==
    ASSUME Steps, FreeRaw
    PROVE  Values!Release
<1>1. Keeps(heap, heap') /\ msg' = msg /\ raw # None /\ raw' = None
  BY StepsAre, FreeRawKeeps DEF FreeRaw
<1>2. Contents' = Contents /\ Outside # None /\ Outside' = None
  BY <1>1, AllStay, StepsFacts
<1> QED
  BY <1>2 DEF Values!Release

LEMMA PutBodyPuts ==
    ASSUME Steps, NEW m \in Msg, PutBody(m)
    PROVE  Values!Put(m)
<1>1. Keeps(heap, heap') /\ raw # None /\ raw' = None
  BY StepsAre, PutBodyKeeps DEF PutBody
<1>2. Big(raw) \in Refs /\ Proper(Big(raw)) /\ Big(raw).big /\ Big(raw).at = raw
  BY <1>1, StepsAre, RawFacts DEF Big
<1>3. Outside # None /\ Outside' = None /\ Outside = ValueIn(heap, Big(raw))
  BY <1>1, StepsFacts
<1>4. raw.chunk \in Chunk /\ heap[raw.chunk] # None
  BY <1>1, BothThere
<1>5. heap'[raw.chunk] # None => ValueIn(heap', Big(raw)) = Outside
  BY <1>1, <1>2, <1>3, <1>4, ValueSame DEF Keeps
<1>6. CASE ~Live(m)
  <2>1. Becomes(m, Plain(Big(raw))) /\ heap' = heap
    BY <1>6 DEF PutBody, Idle
  <2>2. Contents' = [Contents EXCEPT ![m] = Contents'[m]] /\ msg'[m] = Plain(Big(raw))
    BY <1>1, <2>1, BecomesContent
  <2>3. Contents'[m] = Values!Alone(ValueIn(heap', Big(raw)))
    BY <1>2, <2>2, PlainReads
  <2>4. Contents[m] = None
    BY <1>6, StepsFacts
  <2>5. Contents' = [Contents EXCEPT ![m] = Values!Alone(Outside)]
    BY <1>4, <1>5, <2>1, <2>2, <2>3
  <2> QED
    BY <1>3, <2>4, <2>5 DEF Values!Put, Values!Is
<1>7. CASE Live(m)
  <2>1. PICK q \in Parts : q = "body"
    BY DEF Parts
  <2>2. Becomes(m, [msg[m] EXCEPT ![q] = Big(raw)])
    BY <1>7, <2>1 DEF PutBody
  <2>3. Contents' = [Contents EXCEPT ![m] = [Contents[m] EXCEPT ![q] = ValueIn(heap', Big(raw))]]
    BY <1>1, <1>2, <1>7, <2>2, OthersStay, ReplacedReads
  <2>4. heap'[raw.chunk] # None
    <3>1. msg'[m] = [msg[m] EXCEPT ![q] = Big(raw)] /\ msg[m] \in [Parts -> Refs]
      BY <1>7, <2>2, StepsAre, LiveType DEF Becomes, MsgOK
    <3>2. msg'[m][q] = Big(raw) /\ msg'[m] # None
      BY <1>2, <3>1, NoneAssumption
    <3> QED
      BY <1>2, <3>2, BothThere
  <2>5. Contents[m] # None
    BY <1>7, StepsFacts
  <2>6. Contents' = [Contents EXCEPT ![m] = [Contents[m] EXCEPT !["body"] = Outside]]
    BY <1>5, <2>1, <2>3, <2>4
  <2> QED
    BY <1>3, <2>5, <2>6 DEF Values!Put, Values!Is
<1> QED
  BY <1>6, <1>7

LEMMA FreshFacts ==
    ASSUME heap \in Heaps, Room(heap) # {}
    PROVE  Fresh(heap) \in Chunk
<1>1. PICK s \in Seq(Cells) : Len(s) <= MaxSize
  <2>1. <<>> \in Seq(Cells) /\ Len(<<>>) <= MaxSize
    BY MessageAssumption
  <2> QED
    BY <2>1
<1> QED
  BY <1>1, AllocFacts

LEMMA TakeBodyTakes ==
    ASSUME Steps, NEW m \in Msg, TakeBody(m)
    PROVE  Values!Take(m)
<1>1. PICK q \in Parts : q = "body"
  BY DEF Parts
<1>2. PICK body : body = msg[m][q]
  OBVIOUS
<1>3. /\ Live(m) /\ raw = None /\ (body.big \/ Room(heap) # {})
      /\ heap' = IF body.big THEN heap ELSE Allocated(heap, body.data)
      /\ raw' = IF body.big THEN body.at ELSE Ptr(Fresh(heap), First)
      /\ Becomes(m, [msg[m] EXCEPT ![q] = Small(<<>>)])
  BY <1>1, <1>2, StepsAre DEF TakeBody, Idle, LeftBehind
<1>4. Keeps(heap, heap') /\ Small(<<>>) \in Refs
  BY StepsAre, TakeBodyKeeps, NothingFacts
<1>5. Contents' = [Contents EXCEPT ![m] = [Contents[m] EXCEPT ![q] = ValueIn(heap', Small(<<>>))]]
  BY <1>3, <1>4, OthersStay, ReplacedReads
<1>6. ValueIn(heap', Small(<<>>)) = <<>>
  BY DEF ValueIn, Small
<1>7. Contents' = [Contents EXCEPT ![m] = [Contents[m] EXCEPT !["body"] = <<>>]]
  BY <1>1, <1>5, <1>6
<1>8. body \in Refs /\ Proper(body) /\ heap \in Heaps
  BY <1>2, <1>3, StepsAre, LiveType, GoodFacts
<1>9. Contents[m] # None /\ Contents[m][q] = ValueIn(heap, body) /\ Outside = None
  BY <1>2, <1>3, StepsFacts
<1>10. raw' # None
  <2>1. CASE body.big
    BY <1>3, <1>8, <2>1, RefFacts, NoneAssumption
  <2>2. CASE ~body.big
    <3>1. Room(heap) # {} /\ raw' = Ptr(Fresh(heap), First)
      BY <1>3, <2>2
    <3>2. Fresh(heap) \in Chunk
      BY <1>8, <3>1, FreshFacts
    <3>3. Ptr(Fresh(heap), First) \in Ptrs
      BY <3>2 DEF Ptr, Ptrs, First
    <3> QED
      BY <3>1, <3>3, NoneAssumption
  <2> QED
    BY <2>1, <2>2
<1>11. Outside' = ValueIn(heap', Big(raw'))
  BY <1>10, StepsFacts
<1>12. Outside' = ValueIn(heap, body)
  <2>1. CASE body.big
    BY <1>3, <1>11, <2>1 DEF ValueIn, Big
  <2>2. CASE ~body.big
    <3>1. body.data \in Seq(Cells) /\ Len(body.data) < RefMax /\ ValueIn(heap, body) = body.data
      BY <1>8, <2>2, RefFacts DEF ValueIn
    <3>2. Len(body.data) <= MaxSize
      BY <3>1, MessageAssumption
    <3>3. PICK s \in Seq(Cells) : s = body.data /\ Len(s) <= MaxSize
      BY <3>1, <3>2
    <3>4. PICK new : new = Fresh(heap)
      OBVIOUS
    <3>5. new \in Chunk /\ heap'[new] = NewChunk(s) /\ NewChunk(s) \in Chunks
      BY <1>3, <1>8, <2>2, <3>3, <3>4, AllocFacts
    <3>6. NewChunk(s).size = Len(s) /\ NewChunk(s).mem = Header \o s
      BY DEF NewChunk
    <3>7. heap'[new] # None
      BY <3>5, NoneAssumption
    <3> HIDE DEF NewChunk
    <3>8. ValueIn(heap', Big(Ptr(new, First))) = s
      BY <3>5, <3>6, <3>7, StepsAre, ReadsAs
    <3> QED
      BY <1>3, <1>11, <2>2, <3>1, <3>3, <3>4, <3>8
  <2> QED
    BY <2>1, <2>2
<1> QED
  BY <1>1, <1>7, <1>9, <1>12 DEF Values!Take, Values!Is


(* Trimming and resizing: the bytes that stay.                             *)
LEMMA TidyCells ==
    ASSUME NEW mem \in Seq(Cells), NEW pos \in Nat, pos >= First, NEW z \in Nat,
           pos - 1 + z <= Len(mem)
    PROVE  \A i \in 1..z : Cell(Tidy(mem, pos, z), pos + i - 1) = Cell(mem, pos + i - 1)
<1> SUFFICES ASSUME NEW i \in 1..z
             PROVE  Cell(Tidy(mem, pos, z), pos + i - 1) = Cell(mem, pos + i - 1)
  OBVIOUS
<1>1. PICK k \in Int : k = pos + i - 1
  OBVIOUS
<1>2. k \in 1..Len(mem) /\ k \in pos..pos + z - 1
  BY <1>1 DEF First
<1>3. PICK t \in Seq(Cells) : t = Tidy(mem, pos, z) /\ Len(t) = Len(mem)
  BY TidyFacts
<1>4. t[k] = mem[k]
  BY <1>2, <1>3, TidyFacts
<1>5. k \in DOMAIN t /\ k \in DOMAIN mem
  BY <1>2, <1>3
<1> QED
  BY <1>1, <1>3, <1>4, <1>5 DEF Cell

(* The chunk outside, and what it becomes.                                 *)
LEMMA OutsideIs ==
    ASSUME Steps, raw # None
    PROVE  /\ Outside # None /\ Self \in Chunks /\ Outside \in Seq(Cells)
           /\ Self.size \in Nat /\ Self.mem \in Seq(Cells) /\ Len(Outside) = Self.size
           /\ raw.pos - 1 + Self.size <= Len(Self.mem)
           /\ \A i \in 1..Self.size : Outside[i] = Cell(Self.mem, raw.pos + i - 1)
<1>1. PICK r \in Refs : r = Big(raw) /\ Proper(r) /\ r.big /\ r.at = raw
  BY StepsAre, RawFacts DEF Big
<1>2. /\ Self \in Chunks /\ heap \in Heaps /\ heap[raw.chunk] # None /\ Self = heap[raw.chunk]
      /\ Behind(heap, raw)
  BY StepsAre, GoodFacts, RawFacts DEF Self
<1>3. Outside = ValueIn(heap, r) /\ Outside # None
  BY <1>1, StepsFacts
<1>4. PICK v : v = ValueIn(heap, r)
  OBVIOUS
<1>5. /\ v \in Seq(Cells) /\ Len(v) = heap[r.at.chunk].size
      /\ \A i \in 1..heap[r.at.chunk].size : v[i] = Cell(heap[r.at.chunk].mem, r.at.pos + i - 1)
  BY <1>1, <1>2, <1>4, ValueInFacts
<1>6. Self.size \in Nat /\ Self.mem \in Seq(Cells)
  BY <1>2, MessageAssumption DEF Chunks
<1> QED
  BY <1>1, <1>2, <1>3, <1>4, <1>5, <1>6 DEF Behind

LEMMA OutsideBecomes ==
    ASSUME Steps, raw' \in Ptrs, raw'.pos >= First
    PROVE  /\ Outside' # None /\ Outside' \in Seq(Cells)
           /\ Len(Outside') = heap'[raw'.chunk].size
           /\ \A i \in 1..heap'[raw'.chunk].size :
                 Outside'[i] = Cell(heap'[raw'.chunk].mem, raw'.pos + i - 1)
<1>1. raw' # None
  BY NoneAssumption
<1>2. heap'[raw'.chunk] # None /\ heap' \in Heaps
  BY <1>1, BothThere, StepsAre
<1>3. PICK r \in Refs : r = Big(raw') /\ Proper(r) /\ r.big /\ r.at = raw'
  BY BigFacts
<1>4. Outside' = ValueIn(heap', r) /\ Outside' # None
  BY <1>1, <1>3, StepsFacts
<1>5. PICK v : v = ValueIn(heap', r)
  OBVIOUS
<1>6. PICK h : h = heap'
  OBVIOUS
<1>7. /\ v \in Seq(Cells) /\ Len(v) = h[r.at.chunk].size
      /\ \A i \in 1..h[r.at.chunk].size : v[i] = Cell(h[r.at.chunk].mem, r.at.pos + i - 1)
  BY <1>2, <1>3, <1>5, <1>6, ValueInFacts
<1> QED
  BY <1>3, <1>4, <1>5, <1>6, <1>7

LEMMA ResizeIs ==
    ASSUME Outside # None, Outside' # None, Contents' = Contents,
           Outside \in Seq(Cells), Outside' \in Seq(Cells),
           \A i \in 1..Len(Outside) : i \in 1..Len(Outside') => Outside'[i] = Outside[i]
    PROVE  Values!Resize
BY DEF Values!Resize

(* In place nobody else is concerned.                                      *)
LEMMA InPlaceOthers ==
    ASSUME Steps, raw # None, msg' = msg, Single, NEW x, heap' = [heap EXCEPT ![raw.chunk] = x]
    PROVE  Contents' = Contents
<1>1. raw.chunk \in Chunk /\ heap[raw.chunk] # None /\ Self = heap[raw.chunk]
  BY StepsAre, RawFacts DEF Self
<1>2. References(raw.chunk) = 1
  BY <1>1, StepsAre DEF Good, CountsInv, Single
<1>3. \A n \in Msg, p \in Parts : ~(Live(n) /\ Pointing(n, p, raw.chunk))
  BY <1>2, StepsAre, GoodFacts, LoneRaw
<1>4. heap \in Heaps
  BY StepsAre, GoodFacts
<1>5. \A c \in Chunk : c # raw.chunk => heap'[c] = heap[c]
  BY <1>4 DEF Heaps
<1>6. \A n \in Msg, p \in Parts : Live(n) /\ msg[n][p].big => msg[n][p].at.chunk \in Chunk
  BY BothThere DEF Live
<1>7. \A n \in Msg, p \in Parts : Live(n) /\ msg[n][p].big =>
          heap'[msg[n][p].at.chunk] = heap[msg[n][p].at.chunk]
  BY <1>3, <1>5, <1>6 DEF Pointing
<1>8. \A n \in Msg, p \in Parts : Live(n) /\ msg[n][p].big =>
          LET c == msg[n][p].at.chunk
          IN  heap'[c].size = heap[c].size /\ heap'[c].mem = heap[c].mem
  BY <1>7
<1> QED
  BY <1>8, NoneChange

LEMMA ShrinkResizes ==
    ASSUME Steps, NEW n \in 0..MaxSize, Shrink(n)
    PROVE  Values!Resize
<1> DEFINE x == Shrunk(Self, raw.pos, n)
<1>1. /\ raw # None /\ msg' = msg /\ raw' = raw /\ Single /\ n <= Self.size
      /\ heap' = [heap EXCEPT ![raw.chunk] = x]
  BY DEF Shrink, Realloc, Self
<1>2. Contents' = Contents
  BY <1>1, InPlaceOthers
<1>3. raw \in Ptrs /\ raw.chunk \in Chunk /\ raw.pos \in Nat /\ raw.pos >= First /\ n \in Nat
  BY <1>1, StepsAre, RawFacts, MessageAssumption
<1>4. /\ Outside # None /\ Self \in Chunks /\ Outside \in Seq(Cells)
      /\ Self.size \in Nat /\ Self.mem \in Seq(Cells) /\ Len(Outside) = Self.size
      /\ raw.pos - 1 + Self.size <= Len(Self.mem)
      /\ \A i \in 1..Self.size : Outside[i] = Cell(Self.mem, raw.pos + i - 1)
  BY <1>1, OutsideIs
<1>5. x.size = n /\ x.mem = Tidy(Self.mem, raw.pos, n)
  BY <1>3, <1>4, ShrunkFacts
<1>6. heap'[raw'.chunk] = x
  BY <1>1, <1>3, StepsAre, GoodFacts DEF Heaps
<1> HIDE DEF x
<1>7. /\ Outside' # None /\ Outside' \in Seq(Cells) /\ Len(Outside') = n
      /\ \A i \in 1..n : Outside'[i] = Cell(Tidy(Self.mem, raw.pos, n), raw.pos + i - 1)
  BY <1>1, <1>3, <1>5, <1>6, OutsideBecomes
<1>8. raw.pos - 1 + n <= Len(Self.mem)
  <2>1. Len(Self.mem) \in Nat
    BY <1>4
  <2> QED
    BY <1>1, <1>3, <1>4, <2>1
<1>9. \A i \in 1..n : Cell(Tidy(Self.mem, raw.pos, n), raw.pos + i - 1) = Cell(Self.mem, raw.pos + i - 1)
  BY <1>3, <1>4, <1>8, TidyCells
<1>10. ASSUME NEW i \in 1..Len(Outside), i \in 1..Len(Outside') PROVE Outside'[i] = Outside[i]
  BY <1>4, <1>7, <1>9, <1>10
<1> QED
  BY <1>2, <1>4, <1>7, <1>10, ResizeIs

LEMMA GrowInPlaceResizes ==
    ASSUME Steps, NEW n \in 0..MaxSize, GrowInPlace(n)
    PROVE  Values!Resize
<1> DEFINE grow == Grow(n)
           x == MovedToFront(Self, raw.pos, grow)
<1>1. slips = {} /\ TypeOK /\ heap \in Heaps /\ Good
  BY StepsAre, GoodFacts
<1>2. /\ Single /\ grow \in Nat /\ raw.pos - grow >= First /\ Self.size + grow = n
      /\ Self.size + grow <= MaxSize
      /\ heap' = [heap EXCEPT ![raw.chunk] = x]
      /\ raw' = Ptr(raw.chunk, raw.pos - grow) /\ raw.pos - grow \in Nat
  BY <1>1, GrowFacts
<1>3. raw # None /\ msg' = msg
  BY DEF GrowInPlace, NewPointer, Realloc
<1>4. Contents' = Contents
  BY <1>2, <1>3, InPlaceOthers
<1>5. raw \in Ptrs /\ raw.chunk \in Chunk /\ raw.pos \in Nat /\ raw.pos >= First
  BY <1>1, <1>3, RawFacts
<1>6. /\ Outside # None /\ Self \in Chunks /\ Outside \in Seq(Cells)
      /\ Self.size \in Nat /\ Self.mem \in Seq(Cells) /\ Len(Outside) = Self.size
      /\ raw.pos - 1 + Self.size <= Len(Self.mem)
      /\ \A i \in 1..Self.size : Outside[i] = Cell(Self.mem, raw.pos + i - 1)
  BY <1>3, OutsideIs
<1>7. PICK mem \in Seq(Cells) : mem = Shifted(Self.mem, grow) /\ Len(mem) = Len(Self.mem)
  BY <1>6, ShiftedFacts
<1>8. x.size = n /\ x.mem = Tidy(mem, raw.pos - grow, Self.size)
  BY <1>2, <1>5, <1>6, <1>7, MovedFacts
<1>9. PICK a \in Nat : a = raw.pos - grow /\ a >= First
  BY <1>2
<1>10. raw' = Ptr(raw.chunk, a)
  BY <1>2, <1>9
<1> HIDE DEF x, grow
<1>11. raw' \in Ptrs /\ raw'.chunk = raw.chunk /\ raw'.pos = a
  BY <1>5, <1>10 DEF Ptr, Ptrs
<1>12. heap'[raw'.chunk] = x
  BY <1>1, <1>2, <1>5, <1>11 DEF Heaps
<1>13. /\ Outside' # None /\ Outside' \in Seq(Cells) /\ Len(Outside') = n
       /\ \A i \in 1..n : Outside'[i] = Cell(Tidy(mem, a, Self.size), a + i - 1)
  BY <1>8, <1>9, <1>11, <1>12, OutsideBecomes
<1>14. PICK z \in Nat : z = Self.size /\ a - 1 + z <= Len(mem) /\ z <= n
  <2>1. Len(mem) \in Nat
    BY <1>7
  <2>2. a <= raw.pos /\ Self.size <= n
    BY <1>2, <1>5, <1>6, <1>9
  <2> QED
    BY <1>5, <1>6, <1>7, <2>1, <2>2
<1>15. \A i \in 1..z : Cell(Tidy(mem, a, z), a + i - 1) = Cell(mem, a + i - 1)
  BY <1>9, <1>14, TidyCells
<1>16. ASSUME NEW i \in 1..z PROVE Cell(mem, a + i - 1) = Cell(Self.mem, raw.pos + i - 1)
  <2>1. PICK k \in Int : k = a + i - 1
    OBVIOUS
  <2>2. k \in 1..Len(mem)
    BY <1>9, <1>14, <2>1, SMTT(60) DEF First
  <2>3. k + grow = raw.pos + i - 1
    BY <1>2, <1>5, <1>9, <2>1, SMTT(60)
  <2>4. k \in DOMAIN mem /\ k \in DOMAIN Self.mem
    BY <1>6, <1>7, <2>2
  <2>5. mem[k] = Cell(Self.mem, k + grow)
    BY <1>7, <2>4 DEF Shifted
  <2>6. Cell(mem, k) = mem[k]
    BY <2>4 DEF Cell
  <2> QED
    BY <2>1, <2>3, <2>5, <2>6
<1>17. ASSUME NEW i \in 1..Len(Outside), i \in 1..Len(Outside') PROVE Outside'[i] = Outside[i]
  <2>1. i \in 1..z /\ i \in 1..n /\ i \in 1..Self.size
    BY <1>6, <1>13, <1>14, <1>17
  <2> QED
    BY <1>6, <1>13, <1>14, <1>15, <1>16, <2>1
<1> QED
  BY <1>4, <1>6, <1>13, <1>17, ResizeIs

LEMMA GrowElsewhereResizes ==
    ASSUME Steps, NEW n \in 0..MaxSize, GrowElsewhere(n)
    PROVE  Values!Resize
<1>1. /\ raw # None /\ msg' = msg /\ Room(heap) # {} /\ raw' = Ptr(Fresh(heap), First)
      /\ heap' = Dropped(Allocated(heap, Copied(n)), CountOf(Big(raw)))
  BY DEF GrowElsewhere, Realloc
<1>2. heap \in Heaps /\ slips = {} /\ RawOK /\ Good /\ heap' \in Heaps
  BY StepsAre, GoodFacts
<1>3. Contents' = Contents
  BY <1>1, <1>2, StepsAre, GrowElsewhereKeeps, AllStay
<1>4. /\ Outside # None /\ Self \in Chunks /\ Outside \in Seq(Cells)
      /\ Self.size \in Nat /\ Self.mem \in Seq(Cells) /\ Len(Outside) = Self.size
      /\ \A i \in 1..Self.size : Outside[i] = Cell(Self.mem, raw.pos + i - 1)
  BY <1>1, OutsideIs
<1>5. n \in Nat /\ n <= MaxSize
  BY MessageAssumption
<1>6. /\ Copied(n) \in Seq(Cells) /\ Len(Copied(n)) = n
      /\ \A i \in 1..n : i <= Self.size => Copied(n)[i] = Cell(Self.mem, CopiedFrom + i - 1)
  BY <1>1, <1>2, <1>4, <1>5, NoneAssumption, CopiedFacts
<1>7. CopiedFrom = raw.pos
  BY <1>2 DEF CopiedFrom
<1>8. PICK s \in Seq(Cells) : s = Copied(n)
  BY <1>6
<1>9. PICK new : new = Fresh(heap)
  OBVIOUS
<1>10. PICK g : g = Allocated(heap, s)
  OBVIOUS
<1>11. PICK k : k = CountOf(Big(raw))
  OBVIOUS
<1>12. /\ new \in Chunk /\ heap[new] = None /\ g \in Heaps
       /\ g[new] = NewChunk(s) /\ NewChunk(s) \in Chunks
       /\ \A c \in Chunk : c # new => g[c] = heap[c]
  BY <1>1, <1>2, <1>5, <1>6, <1>8, <1>9, <1>10, AllocFacts
<1>13. raw.chunk \in Chunk /\ raw.chunk # new /\ heap[raw.chunk] # None
  BY <1>1, <1>2, <1>12, RawFacts
<1>14. k \in Counts /\ \A c \in Chunk : k[c] # 0 => c = raw.chunk
  <2>1. \A c \in Chunk : k[c] = RawCount(c)
    BY <1>1, <1>2, <1>11, RawFacts
  <2>2. k \in Counts
    BY <1>11, CountOfFacts
  <2> QED
    BY <2>1, <2>2 DEF RawCount
<1>15. \A c \in Chunk : k[c] # 0 => g[c] # None
  BY <1>12, <1>13, <1>14
<1>16. \A c \in Chunk : k[c] = 0 => Dropped(g, k)[c] = g[c]
  BY <1>12, <1>14, <1>15, DroppedFacts
<1>17. heap' = Dropped(g, k) /\ k[new] = 0
  BY <1>1, <1>8, <1>10, <1>11, <1>12, <1>13, <1>14
<1>18. heap'[new] = NewChunk(s)
  BY <1>12, <1>16, <1>17
<1>19. heap'[new] # None /\ heap'[new].size = Len(s) /\ heap'[new].mem = Header \o s
  <2>1. NewChunk(s).size = Len(s) /\ NewChunk(s).mem = Header \o s
    BY DEF NewChunk
  <2> QED
    BY <1>12, <1>18, <2>1, NoneAssumption
<1>20. ValueIn(heap', Big(Ptr(new, First))) = s
  BY <1>2, <1>12, <1>19, ReadsAs
<1>21. Ptr(new, First) \in Ptrs /\ raw' = Ptr(new, First)
  BY <1>1, <1>9, <1>12 DEF Ptr, Ptrs, First
<1>22. raw' # None
  BY <1>21, NoneAssumption
<1>23. Outside' = ValueIn(heap', Big(raw')) /\ Outside' # None
  BY <1>22, StepsFacts
<1>24. Outside' = Copied(n)
  BY <1>8, <1>20, <1>21, <1>23
<1>25. ASSUME NEW i \in 1..Len(Outside), i \in 1..Len(Outside') PROVE Outside'[i] = Outside[i]
  BY <1>4, <1>6, <1>7, <1>24, <1>25
<1> QED
  BY <1>3, <1>4, <1>6, <1>23, <1>24, <1>25, ResizeIs


LEMMA RestFacts ==
    ASSUME NEW s \in Seq(Cells), NEW n \in Nat, n <= Len(s)
    PROVE  /\ SubSeq(s, n + 1, Len(s)) \in Seq(Cells)
           /\ Len(SubSeq(s, n + 1, Len(s))) = Len(s) - n
           /\ \A i \in 1..Len(s) - n : SubSeq(s, n + 1, Len(s))[i] = s[i + n]
<1>1. SubSeq(s, n + 1, Len(s)) \in Seq(Cells)
  OBVIOUS
<1>2. Len(SubSeq(s, n + 1, Len(s))) = Len(s) - n
  OBVIOUS
<1>3. ASSUME NEW i \in 1..Len(s) - n PROVE SubSeq(s, n + 1, Len(s))[i] = s[i + n]
  OBVIOUS
<1> QED
  BY <1>1, <1>2, <1>3

LEMMA TrimMsgShortens ==
    ASSUME Steps, NEW m \in Msg, NEW p \in Parts, NEW n \in 1..MaxSize, TrimMsg(m, p, n)
    PROVE  Values!Shorten(m, p)
<1>1. PICK r : r = msg[m][p]
  OBVIOUS
<1>2. PICK t : t = TrimmedRef(r, n)
  OBVIOUS
<1>3. /\ Live(m) /\ n <= Size(r) /\ Unshared(r) /\ heap' = HeapTrimmed(r, n) /\ raw' = raw
      /\ Becomes(m, [msg[m] EXCEPT ![p] = t])
  BY <1>1, <1>2 DEF TrimMsg, Idle
<1>4. r \in Refs /\ Proper(r) /\ heap \in Heaps /\ heap' \in Heaps /\ n \in Nat /\ n >= 1 /\ TypeOK
  BY <1>1, <1>3, StepsAre, LiveType, GoodFacts, MessageAssumption
<1>5. PICK old : old = ValueIn(heap, r)
  OBVIOUS
<1>6. Contents[m] # None /\ Contents[m] \in [Parts -> Seq(Cells)] /\ Contents[m][p] = old /\ old \in Seq(Cells)
  BY <1>1, <1>3, <1>5, StepsFacts
<1>7. ASSUME t \in Refs, Others(m, p), Outside' = Outside, n <= Len(old),
             ValueIn(heap', t) = SubSeq(old, n + 1, Len(old))
      PROVE  Values!Shorten(m, p)
  <2>1. Contents' = [Contents EXCEPT ![m] = [Contents[m] EXCEPT ![p] = ValueIn(heap', t)]]
    BY <1>3, <1>7, ReplacedReads
  <2>2. n \in 1..Len(Contents[m][p])
    BY <1>4, <1>6, <1>7
  <2>3. Contents' = [Contents EXCEPT ![m] = [Contents[m] EXCEPT ![p] =
                        SubSeq(Contents[m][p], n + 1, Len(Contents[m][p]))]]
    BY <1>6, <1>7, <2>1
  <2> QED
    BY <1>6, <1>7, <2>2, <2>3 DEF Values!Shorten, Values!Is
<1>8. CASE ~r.big
  <2>1. heap' = heap /\ t = Small(SubSeq(r.data, n + 1, Len(r.data)))
    BY <1>2, <1>3, <1>8 DEF HeapTrimmed, TrimmedRef
  <2>2. old = r.data /\ n <= Len(old)
    BY <1>3, <1>5, <1>8 DEF ValueIn, Size
  <2>3. PICK rest \in Seq(Cells) : rest = SubSeq(r.data, n + 1, Len(r.data))
    BY <1>4, <1>6, <2>2, RestFacts
  <2>4. t \in Refs /\ ValueIn(heap', t) = rest
    BY <2>1, <2>3 DEF Small, Refs, ValueIn
  <2>5. Keeps(heap, heap')
    BY <2>1 DEF Keeps
  <2>6. Outside' = Outside /\ Others(m, p)
    BY <1>3, <2>4, <2>5, OutsideStays, OthersStay
  <2> QED
    BY <1>7, <2>2, <2>3, <2>4, <2>6
<1>9. CASE r.big
  <2>1. PICK c : c = r.at.chunk
    OBVIOUS
  <2>2. PICK pos : pos = r.at.pos
    OBVIOUS
  <2>3. c \in Chunk /\ r.at \in Ptrs /\ pos \in Nat /\ pos >= First
    BY <1>4, <1>9, <2>1, <2>2, RefFacts
  <2>4. heap[c] # None /\ heap[c] \in Chunks /\ pos - 1 + heap[c].size <= Len(heap[c].mem)
    <3>1. r.at \in Held
      BY <1>1, <1>3, <1>9, HeldFacts
    <3>2. Behind(heap, r.at)
      BY <3>1, StepsAre, GoodFacts DEF PointersInv
    <3> QED
      BY <1>4, <2>1, <2>2, <2>3, <3>2 DEF Behind, Heaps
  <2>5. PICK mem \in Seq(Cells) : mem = heap[c].mem
    BY <2>4 DEF Chunks
  <2>6. PICK size \in Nat : size = heap[c].size /\ pos - 1 + size <= Len(mem) /\ n <= size
    BY <1>3, <1>9, <2>1, <2>4, <2>5, MessageAssumption DEF Chunks, Size
  <2>7. PICK x : x = TrimmedChunk(heap[c], pos, n)
    OBVIOUS
  <2>8. x \in Chunks /\ x.size = size - n /\ x.mem = Tidy(mem, pos + n, size - n)
    <3>1. n \in 0..heap[c].size
      BY <1>4, <2>6
    <3> QED
      BY <2>3, <2>4, <2>5, <2>6, <2>7, <3>1, TrimmedFacts
  <2>9. heap' = [heap EXCEPT ![c] = x]
    BY <1>3, <1>9, <2>1, <2>2, <2>7 DEF HeapTrimmed
  <2>10. PICK a \in Nat : a = pos + n /\ a >= First
    BY <1>4, <2>3 DEF First
  <2>11. PICK z \in Nat : z = size - n /\ a - 1 + z <= Len(mem)
    <3>1. Len(mem) \in Nat
      BY <2>5
    <3> QED
      BY <1>4, <2>3, <2>6, <2>10, <3>1
  <2>12. t = Big(Ptr(c, a)) /\ t \in Refs /\ Proper(t)
    BY <1>2, <1>4, <1>9, <2>1, <2>2, <2>10, TrimmedRefFacts
  <2>13. t.big /\ t.at.chunk = c /\ t.at.pos = a
    BY <2>12 DEF Big, Ptr
  <2>14. heap'[c] = x /\ heap'[c] # None /\ \A d \in Chunk : d # c => heap'[d] = heap[d]
    BY <1>4, <2>3, <2>8, <2>9, NoneAssumption DEF Heaps
  <2>15. References(c) = 1
    <3>1. heap[c].refcount = 1
      BY <1>3, <1>9, <2>1 DEF Unshared
    <3> QED
      BY <2>3, <2>4, <3>1, StepsAre DEF Good, CountsInv
  <2>16. Pointing(m, p, c)
    BY <1>1, <1>9, <2>1 DEF Pointing
  <2>17. /\ ~(raw # None /\ raw.chunk = c)
         /\ \A k \in Msg, q \in Parts : Live(k) /\ Pointing(k, q, c) => k = m /\ q = p
    BY <1>3, <1>4, <2>3, <2>15, <2>16, Lone
  <2>18. Others(m, p)
    <3> SUFFICES ASSUME NEW k \in Msg, NEW q \in Parts, Live(k), msg[k][q].big, k # m \/ q # p
                 PROVE  LET d == msg[k][q].at.chunk
                        IN  heap'[d].size = heap[d].size /\ heap'[d].mem = heap[d].mem
      BY DEF Others
    <3>1. msg[k][q].at.chunk # c
      BY <2>17 DEF Pointing
    <3>2. msg[k][q].at.chunk \in Chunk
      BY BothThere DEF Live
    <3> QED
      BY <2>14, <3>1, <3>2
  <2>19. Outside' = Outside
    <3>1. CASE raw = None
      BY <1>3, <3>1, StepsFacts
    <3>2. CASE raw # None
      <4>1. raw.chunk \in Chunk /\ heap'[raw.chunk] = heap[raw.chunk]
        BY <2>14, <2>17, <3>2, BothThere
      <4>2. ValueIn(heap', Big(raw)) = ValueIn(heap, Big(raw))
        BY <4>1, ValueSame DEF Big
      <4> QED
        BY <1>3, <3>2, <4>2, StepsFacts
    <3> QED
      BY <3>1, <3>2
  <2>20. Len(old) = size /\ \A i \in 1..size : old[i] = Cell(mem, pos + i - 1)
    <3>1. /\ Len(old) = heap[r.at.chunk].size
          /\ \A i \in 1..heap[r.at.chunk].size : old[i] = Cell(heap[r.at.chunk].mem, r.at.pos + i - 1)
      BY <1>4, <1>5, <1>9, <2>1, <2>4, ValueInFacts
    <3> QED
      BY <2>1, <2>2, <2>5, <2>6, <3>1
  <2>21. PICK v : v = ValueIn(heap', t)
    OBVIOUS
  <2>22. v \in Seq(Cells) /\ Len(v) = z /\ \A i \in 1..z : v[i] = Cell(Tidy(mem, a, z), a + i - 1)
    <3>1. /\ v \in Seq(Cells) /\ Len(v) = heap'[t.at.chunk].size
          /\ \A i \in 1..heap'[t.at.chunk].size : v[i] = Cell(heap'[t.at.chunk].mem, t.at.pos + i - 1)
      BY <1>4, <2>12, <2>13, <2>14, <2>21, ValueInFacts, SMTT(60)
    <3> QED
      BY <2>8, <2>10, <2>11, <2>13, <2>14, <3>1
  <2>23. \A i \in 1..z : v[i] = Cell(mem, a + i - 1)
    BY <2>10, <2>11, <2>22, TidyCells
  <2>24. PICK rest \in Seq(Cells) : /\ rest = SubSeq(old, n + 1, Len(old)) /\ Len(rest) = Len(old) - n
                                    /\ \A i \in 1..Len(old) - n : rest[i] = old[i + n]
    BY <1>4, <1>6, <2>6, <2>20, RestFacts
  <2>25. Len(rest) = z /\ \A i \in 1..z : rest[i] = old[i + n]
    BY <2>11, <2>20, <2>24
  <2>26. ASSUME NEW i \in 1..z PROVE v[i] = rest[i]
    <3>1. i + n \in 1..size /\ pos + (i + n) - 1 = a + i - 1
      <4>1. n \in Nat /\ i \in Int /\ i >= 1 /\ i <= size - n
        BY <1>4, <2>11
      <4>2. i + n \in 1..size
        BY <2>6, <4>1
      <4>3. pos + (i + n) - 1 = a + i - 1
        BY <2>3, <2>10, <4>1
      <4> QED
        BY <4>2, <4>3
    <3>2. old[i + n] = Cell(mem, pos + (i + n) - 1)
      BY <2>20, <3>1
    <3> QED
      BY <2>23, <2>25, <3>1, <3>2
  <2>27. v = rest
    BY <2>22, <2>25, <2>26, SameCells
  <2> QED
    BY <1>7, <2>6, <2>12, <2>18, <2>19, <2>20, <2>21, <2>24, <2>27
<1> QED
  BY <1>8, <1>9

(* A step where all goes well is one of MsgValue's, or none.               *)
LEMMA NothingSaid ==
    ASSUME slips # {}, slips' = slips
    PROVE  Contents' = Contents /\ Outside' = Outside
BY DEF Contents, Outside, Meant

LEMMA StepValues ==
    ASSUME Steps, [Next]_vars
    PROVE  [Values!ValueNext]_(Values!valueVars)
<1> USE DEF Values!ValueNext
<1>1. slips = {} /\ Alive /\ Alive' /\ Good
  BY StepsAre DEF Steps
<1>2. ASSUME UNCHANGED vars PROVE [Values!ValueNext]_(Values!valueVars)
  <2>1. Contents' = Contents /\ Outside' = Outside
    BY <1>2 DEF vars, Contents, Outside, Meant, Alive, Live, Value, Data
  <2> QED
    BY <2>1 DEF Values!valueVars
<1>3. ASSUME NEW m \in Msg, NewMsg(m) \/ TermMsg(m) \/ JoinMsg(m) \/ TakeBody(m) \/ PutBody(m)
      PROVE  Values!ValueNext
  BY <1>3, NewMsgWrites, TermMsgForgets, JoinMsgJoins, TakeBodyTakes, PutBodyPuts
<1>4. ASSUME NEW m \in Msg, NEW d \in Msg, MvMsg(m, d) \/ CpMsg(m, d) \/ BulkCp(m, d)
      PROVE  Values!ValueNext
  BY <1>4, MvMsgMoves, CpMsgCopies
<1>5. ASSUME NEW m \in Msg, NEW k \in 1..MaxCopies, BulkStart(m, k)
      PROVE  [Values!ValueNext]_(Values!valueVars)
  BY <1>5, BulkStartIsSilent DEF Values!valueVars
<1>6. ASSUME NEW m \in Msg, NEW p \in Parts, NEW n \in 1..MaxSize, TrimMsg(m, p, n)
      PROVE  Values!ValueNext
  BY <1>6, TrimMsgShortens
<1>7. ASSUME NEW n \in 0..MaxSize, Shrink(n) \/ GrowInPlace(n) \/ GrowElsewhere(n) PROVE Values!ValueNext
  BY <1>7, ShrinkResizes, GrowInPlaceResizes, GrowElsewhereResizes
<1>8. FreeRaw => Values!ValueNext
  BY FreeRawReleases
<1>9. \A P : ~Misuse(P)
  BY <1>1 DEF Misuse, Alive
<1>10. \A m \in Msg : ~SizeOfSmall(m)
  BY <1>1 DEF SizeOfSmall, SizeFails
<1>11. \A n \in 0..MaxSize : ~Overrun(n)
  BY <1>1 DEF Overrun, Overruns
<1> QED
  BY <1>2, <1>3, <1>4, <1>5, <1>6, <1>7, <1>8, <1>9, <1>10, <1>11 DEF Next, Misusing

(* Every behaviour of the chunks and references is one of messages that    *)
(* are values: whatever is shared, trimmed, moved to the front, resized,   *)
(* taken out or announced, each message reads as it was written, as long   *)
(* as chunk.c and chunkref.c are taken with their slips repaired.          *)
THEOREM MessagesAreValues == Spec => ReadAsWritten
<1>1. Init => Values!ValueInit
  <2> SUFFICES ASSUME Init PROVE Values!ValueInit
    OBVIOUS
  <2>1. raw = None /\ \A m \in Msg : ~Live(m)
    BY DEF Init, Live
  <2>2. Contents = [m \in Msg |-> None] /\ Outside = None
    BY <2>1 DEF Contents, Outside
  <2> QED
    BY <2>2 DEF Values!ValueInit
<1>2. IInv /\ IInv' /\ [Next]_vars => [Values!ValueNext]_(Values!valueVars)
  <2> SUFFICES ASSUME IInv, IInv', [Next]_vars PROVE [Values!ValueNext]_(Values!valueVars)
    OBVIOUS
  <2>1. slips' = slips
    BY SlipsStay
  <2>2. CASE slips = {}
    <3>1. Steps
      BY <2>1, <2>2 DEF IInv, Steps, Good
    <3> QED
      BY <3>1, StepValues
  <2>3. CASE slips # {}
    BY <2>1, <2>3, NothingSaid DEF Values!valueVars
  <2> QED
    BY <2>2, <2>3
<1> QED
  BY <1>1, <1>2, InitInv, NextInv, PTL DEF Spec, ReadAsWritten, Values!ValueSpec
=============================================================================
