------------------------------ MODULE Message ------------------------------
(***************************************************************************)
(* utils/msg.c, chunkref.c and chunk.c: a message is three references; a   *)
(* reference holds a few bytes itself or points to a chunk on the heap     *)
(* that other references share.                                            *)
(*                                                                         *)
(* The memory of a chunk is a sequence of cells.  In front of the first    *)
(* byte stand two cells, the distance from the chunk's head and a tag, by  *)
(* which nn_chunk_getptr finds the head from a pointer to the bytes.       *)
(* Trimming moves the pointer and writes both cells anew, over bytes.      *)
(* (The code's header words are four bytes; a byte is as wide as a header  *)
(* cell here.)  Cells outside of the header and the bytes are Junk: nothing *)
(* may be expected of them.                                                *)
(*                                                                         *)
(* Five lines of the code do not do what the lines around them need.       *)
(* slips says which of them are taken as they are written; the others are  *)
(* taken as they are meant.                                                *)
(***************************************************************************)
EXTENDS Integers, Sequences, FiniteSets

CONSTANTS
    Msg,            \* places for an nn_msg
    ChunkCount,     \* bound: chunks there is memory for
    RefMax,         \* NN_CHUNKREF_MAX: a reference holds less than this
    Texts,          \* bound: the [header, body] users write, one after the other
    MaxSize,        \* bound: no chunk gets longer
    MaxEdits,       \* bound: how often bytes are trimmed, joined or resized
    MaxCopies,      \* bound: copies announced at a time
    SlipSets,       \* the choices for slips
    None

Parts == {"sphdr", "hdrs", "body"}
Chunk == 1..ChunkCount

Slips == {"chunk.c:52", "chunk.c:93", "chunk.c:105", "chunkref.c:61", "chunkref.c:99"}

ASSUME MessageAssumption ==
    /\ IsFiniteSet(Msg)
    /\ ChunkCount \in Nat /\ RefMax \in Nat \ {0} /\ MaxSize \in Nat
    /\ RefMax <= MaxSize       \* a chunk holds what a reference does not
    /\ MaxEdits \in Nat /\ MaxCopies \in Nat
    /\ SlipSets \subseteq SUBSET Slips

VARIABLES
    heap,   \* [Chunk -> [refcount, size, mem] \cup {None}]
    msg,    \* [Msg -> [Parts -> reference] \cup {None}]
    raw,    \* a pointer that a user took out of a message, or None
    lent,   \* [Msg -> Nat]   copies announced by bulkcopy_start and not made
    written,\* how many of Texts
    edits,  \* how often bytes were trimmed, joined or resized
    slips,
    abort   \* assertions failed and freed memory used

vars == <<heap, msg, raw, lent, written, edits, slips, abort>>

(* Cells *)
Byte(b) == <<"byte", b>>
Off(n)  == <<"off", n>>
Tag     == <<"tag", 0>>
Junk    == <<"junk", 0>>
First   == 3                \* the first byte of an untrimmed chunk

Cells  == {"byte", "off", "tag", "junk"} \X Nat
Chunks == [refcount : Nat \ {0}, size : 0..MaxSize, mem : Seq(Cells)]

(* A chunk whose header ends before pos, with the bytes in front of pos + n. *)
Tidy(mem, pos, n) ==
    [i \in DOMAIN mem |->
        CASE i = pos - 2 -> Off(pos - First)
          [] i = pos - 1 -> Tag
          [] i \in pos..pos + n - 1 -> mem[i]
          [] OTHER -> Junk]

Cell(mem, i) == IF i \in DOMAIN mem THEN mem[i] ELSE Junk

Bytes(s) == [i \in DOMAIN s |-> Byte(s[i])]

(* References *)
Small(s) == [big |-> FALSE, data |-> s, at |-> None]
Big(p)   == [big |-> TRUE, data |-> <<>>, at |-> p]
Ptr(c, i) == [chunk |-> c, pos |-> i]

Ptrs == [chunk : Chunk, pos : Nat]
Refs == [big : {FALSE}, data : Seq(Cells), at : {None}] \cup
        [big : {TRUE}, data : {<<>>}, at : Ptrs]

\* What users write: a header is small, a body fits a chunk.
ASSUME TextsAssumption ==
    /\ Texts \in Seq([header : Seq(Nat), body : Seq(Nat)])
    /\ \A i \in 1..Len(Texts) :
          Len(Texts[i].header) < RefMax /\ Len(Texts[i].body) <= MaxSize

ASSUME NoneAssumption ==
    /\ None \notin Chunks /\ None \notin [Parts -> Refs] /\ None \notin Ptrs
    /\ None \notin Seq(Cells) /\ None \notin [Parts -> Seq(Cells)]

Init ==
    /\ heap = [c \in Chunk |-> None]
    /\ msg = [m \in Msg |-> None]
    /\ raw = None
    /\ lent = [m \in Msg |-> 0]
    /\ written = 0 /\ edits = 0
    /\ slips \in SlipSets
    /\ abort = {}
-----------------------------------------------------------------------------
Alive == abort = {}

Failed(line, ok) == IF ok THEN {} ELSE {line}

(* nn_chunk_getptr: what goes wrong when p is used. *)
Misused(p) ==
    IF heap[p.chunk] = None THEN {"freed"}
    ELSE LET mem == heap[p.chunk].mem
         IN  Failed("chunk.c:154", Cell(mem, p.pos - 1) = Tag) \cup
             Failed("chunk.c:155", Cell(mem, p.pos - 2) = Off(p.pos - First))

Pointer(r)  == IF r.big THEN {r.at} ELSE {}
Pointers(m) == UNION {Pointer(msg[m][p]) : p \in Parts}

MisusedIn(P) == UNION {Misused(p) : p \in P}

Data(p) == [i \in 1..heap[p.chunk].size |-> Cell(heap[p.chunk].mem, p.pos + i - 1)]

Value(r) == IF r.big THEN Data(r.at) ELSE r.data

Size(r) == IF r.big THEN heap[r.at.chunk].size ELSE Len(r.data)

(* nn_chunk_alloc of a chunk that then gets the bytes s. *)
Room(h)  == {c \in Chunk : h[c] = None}
Fresh(h) == CHOOSE c \in Room(h) : \A d \in Room(h) : c <= d

Header == IF "chunk.c:52" \in slips THEN <<Junk, Junk>> ELSE <<Off(0), Tag>>

Allocated(h, s) ==
    [h EXCEPT ![Fresh(h)] = [refcount |-> 1, size |-> Len(s), mem |-> Header \o s]]

(* nn_chunkref_init of a reference that then gets the bytes s. *)
NewRef(h, s)     == IF Len(s) < RefMax THEN Small(s) ELSE Big(Ptr(Fresh(h), First))
HeapNewRef(h, s) == IF Len(s) < RefMax THEN h ELSE Allocated(h, s)

(* nn_chunk_addref and nn_chunk_free of the references that n counts. *)
Added(h, n) ==
    [c \in Chunk |-> IF h[c] = None THEN None ELSE [h[c] EXCEPT !.refcount = @ + n[c]]]

LastAlone(r, n) == r - n < 0
LastOne(r, n)   == r - n <= 0

Dropped(h, n) ==
    [c \in Chunk |->
        IF n[c] = 0 THEN h[c]
        ELSE IF LastOne(h[c].refcount, n[c]) THEN None
        ELSE [h[c] EXCEPT !.refcount = @ - n[c]]]

Pointing(m, p, c) == msg[m][p].big /\ msg[m][p].at.chunk = c

CountIn(m) == [c \in Chunk |-> Cardinality({p \in Parts : Pointing(m, p, c)})]
CountOf(r) == [c \in Chunk |-> IF r.big /\ r.at.chunk = c THEN 1 ELSE 0]
Times(n, k) == [c \in Chunk |-> n[c] * k]

Becomes(m, x) == msg' = [msg EXCEPT ![m] = x]

Plain(body) == [sphdr |-> Small(<<>>), hdrs |-> Small(<<>>), body |-> body]

(* A user does something with the pointers P: it goes on, or ends here. *)
Sound(P) == Alive /\ MisusedIn(P) = {} /\ UNCHANGED <<written, slips, abort>>
Use(P)  == Sound(P) /\ UNCHANGED edits
Edit(P) == edits < MaxEdits /\ edits' = edits + 1 /\ Sound(P)
Misuse(P) ==
    /\ Alive /\ MisusedIn(P) # {}
    /\ abort' = MisusedIn(P)
    /\ UNCHANGED <<heap, msg, raw, lent, written, edits, slips>>

Live(m) == msg[m] # None
Idle(m) == Live(m) /\ lent[m] = 0       \* no copies of it are announced
-----------------------------------------------------------------------------
(* nn_msg_init; the user fills the body and, a protocol, the header. *)
NewMsg(m) ==
    /\ Alive /\ UNCHANGED <<edits, slips, abort>>
    /\ ~Live(m)
    /\ written < Len(Texts) /\ written' = written + 1
    /\ LET s == Bytes(Texts[written + 1].body)
           h == Bytes(Texts[written + 1].header)
       IN  /\ Len(s) >= RefMax => Room(heap) # {}
           /\ heap' = HeapNewRef(heap, s)
           /\ Becomes(m, [Plain(NewRef(heap, s)) EXCEPT !.sphdr = Small(h)])
    /\ UNCHANGED <<raw, lent>>

(* nn_msg_term *)
TermMsg(m) ==
    /\ Idle(m) /\ Use(Pointers(m))
    /\ heap' = Dropped(heap, CountIn(m))
    /\ Becomes(m, None)
    /\ UNCHANGED <<raw, lent>>

(* nn_msg_mv; the source is not used any more. *)
MvMsg(m, d) ==
    /\ Use({}) /\ Idle(m) /\ ~Live(d)
    /\ msg' = [msg EXCEPT ![d] = msg[m], ![m] = None]
    /\ UNCHANGED <<heap, raw, lent>>

(* nn_msg_cp *)
NotCounted(m) == [c \in Chunk |-> 0]
Counted(m)    == CountIn(m)

CpMsg(m, d) ==
    /\ Live(m) /\ Use(Pointers(m)) /\ ~Live(d)
    /\ heap' = Added(heap, Counted(m))
    /\ Becomes(d, msg[m])
    /\ UNCHANGED <<raw, lent>>

(* nn_msg_bulkcopy_start, and nn_msg_bulkcopy_cp of an announced copy. *)
BulkStart(m, k) ==
    /\ Live(m) /\ \A x \in Msg : lent[x] = 0    \* bound: one announcement at a time
    /\ Use(Pointers(m))
    /\ heap' = Added(heap, Times(CountIn(m), k))
    /\ lent' = [lent EXCEPT ![m] = k]
    /\ UNCHANGED <<msg, raw>>

BulkCp(m, d) ==
    /\ Use({}) /\ Live(m) /\ lent[m] > 0 /\ ~Live(d)
    /\ Becomes(d, msg[m])
    /\ lent' = [lent EXCEPT ![m] = @ - 1]
    /\ UNCHANGED <<heap, raw>>

(* nn_chunkref_trim by a protocol, which trims what it received: nobody    *)
(* shares it.                                                              *)
TrimmedRef(r, n) ==
    IF r.big THEN Big(Ptr(r.at.chunk, r.at.pos + n))
    ELSE Small(SubSeq(r.data, n + 1, Len(r.data)))

TrimmedChunk(c, pos, n) ==
    [c EXCEPT !.mem = Tidy(@, pos + n, c.size - n), !.size = @ - n]

HeapTrimmed(r, n) ==
    IF r.big THEN [heap EXCEPT ![r.at.chunk] = TrimmedChunk(@, r.at.pos, n)] ELSE heap

Unshared(r) == r.big => heap[r.at.chunk].refcount = 1

TrimMsg(m, p, n) ==
    /\ Idle(m) /\ Edit(Pointer(msg[m][p])) /\ Unshared(msg[m][p])
    /\ n <= Size(msg[m][p])
    /\ heap' = HeapTrimmed(msg[m][p], n)
    /\ Becomes(m, [msg[m] EXCEPT ![p] = TrimmedRef(@, n)])
    /\ UNCHANGED <<raw, lent>>

(* nn_sinproc_send, sinproc.c:103-112: a new message whose body is the     *)
(* header and the body of the old one.  nn_chunkref_size as written makes  *)
(* a pointer of a small reference.                                         *)
SizeFails(m) ==
    "chunkref.c:99" \in slips /\ \E p \in {"sphdr", "body"} : ~msg[m][p].big

JoinMsg(m) ==
    /\ Idle(m) /\ Edit(Pointers(m)) /\ ~SizeFails(m)
    /\ LET all == Value(msg[m].sphdr) \o Value(msg[m].body)
       IN  /\ Len(all) <= MaxSize
           /\ Len(all) >= RefMax => Room(heap) # {}
           /\ heap' = Dropped(HeapNewRef(heap, all), CountIn(m))
           /\ Becomes(m, Plain(NewRef(heap, all)))
    /\ UNCHANGED <<raw, lent>>

SizeOfSmall(m) ==
    /\ Alive /\ Idle(m) /\ SizeFails(m)
    /\ abort' = {"chunkref.c:99"}
    /\ UNCHANGED <<heap, msg, raw, lent, written, edits, slips>>

(* nn_chunkref_getchunk of the body. *)
StillThere(r) == IF r.big THEN r ELSE Small(<<>>)
LeftBehind(r) == IF r.big /\ "chunkref.c:61" \in slips THEN r ELSE Small(<<>>)

TakeBody(m) ==
    LET body == msg[m].body
    IN  /\ Idle(m) /\ Use(Pointers(m)) /\ raw = None
        /\ body.big \/ Room(heap) # {}
        /\ heap' = IF body.big THEN heap ELSE Allocated(heap, body.data)
        /\ raw' = IF body.big THEN body.at ELSE Ptr(Fresh(heap), First)
        /\ Becomes(m, [msg[m] EXCEPT !.body = LeftBehind(@)])
        /\ UNCHANGED lent

(* nn_msg_init_chunk, or nn_msg_replace_body. *)
PutBody(m) ==
    /\ raw # None /\ raw' = None
    /\ \/ /\ Use({}) /\ ~Live(m)
          /\ Becomes(m, Plain(Big(raw)))
          /\ UNCHANGED heap
       \/ /\ Idle(m) /\ Use(Pointers(m))
          /\ heap' = Dropped(heap, CountOf(msg[m].body))
          /\ Becomes(m, [msg[m] EXCEPT !.body = Big(raw)])
    /\ UNCHANGED lent

FreeRaw ==
    /\ raw # None /\ Use({raw}) /\ raw' = None
    /\ heap' = Dropped(heap, CountOf(Big(raw)))
    /\ UNCHANGED <<msg, lent>>

(* nn_chunk_realloc *)
Self == heap[raw.chunk]
Grow(n) == n - Self.size
Single  == Self.refcount = 1
FitsInFront(n) == Single /\ n > Self.size /\ Grow(n) <= raw.pos - First

Realloc(n) == raw # None /\ Edit({raw}) /\ UNCHANGED <<msg, lent>>

Shrunk(c, pos, n) == [c EXCEPT !.mem = Tidy(@, pos, n), !.size = n]

Shrink(n) ==
    /\ Realloc(n) /\ Single /\ n <= Self.size
    /\ heap' = [heap EXCEPT ![raw.chunk] = Shrunk(@, raw.pos, n)]
    /\ UNCHANGED raw

MovedToFront(c, pos, grow) ==
    LET moved == [i \in DOMAIN c.mem |-> Cell(c.mem, i + grow)]
    IN  [c EXCEPT !.mem = Tidy(moved, pos - grow, c.size), !.size = @ + grow]

OldPointer(n) == raw
NewPointer(n) == IF "chunk.c:93" \in slips THEN raw ELSE [raw EXCEPT !.pos = @ - Grow(n)]

GrowInPlace(n) ==
    /\ Realloc(n) /\ FitsInFront(n)
    /\ heap' = [heap EXCEPT ![raw.chunk] = MovedToFront(@, raw.pos, Grow(n))]
    /\ raw' = NewPointer(n)

(* As written the bytes come from where the chunk once began, all of them. *)
FromTheStart == First
CopiedFrom   == IF "chunk.c:105" \in slips THEN First ELSE raw.pos

Copied(n) ==
    LET kept == IF n < Self.size THEN n ELSE Self.size
    IN  [i \in 1..n |-> IF i <= kept THEN Cell(Self.mem, CopiedFrom + i - 1) ELSE Junk]

NewPlace(n) == raw # None /\ heap[raw.chunk] # None /\ ~(Single /\ n <= Self.size) /\ ~FitsInFront(n)
Overruns(n) == "chunk.c:105" \in slips /\ n < Self.size

GrowElsewhere(n) ==
    /\ Realloc(n) /\ NewPlace(n) /\ ~Overruns(n)
    /\ Room(heap) # {}
    /\ heap' = Dropped(Allocated(heap, Copied(n)), CountOf(Big(raw)))
    /\ raw' = Ptr(Fresh(heap), First)

Overrun(n) ==
    /\ Alive /\ NewPlace(n) /\ Overruns(n)
    /\ abort' = {"chunk.c:105"}
    /\ UNCHANGED <<heap, msg, raw, lent, written, edits, slips>>
-----------------------------------------------------------------------------
Misusing ==
    \/ \E m \in Msg : Idle(m) /\ Misuse(Pointers(m))
    \/ raw # None /\ Misuse({raw})

Next ==
    \/ \E m \in Msg :
          \/ NewMsg(m) \/ TermMsg(m) \/ JoinMsg(m) \/ SizeOfSmall(m) \/ TakeBody(m) \/ PutBody(m)
          \/ \E d \in Msg : MvMsg(m, d) \/ CpMsg(m, d) \/ BulkCp(m, d)
          \/ \E k \in 1..MaxCopies : BulkStart(m, k)
          \/ \E p \in Parts, n \in 1..MaxSize : TrimMsg(m, p, n)
    \/ FreeRaw
    \/ \E n \in 0..MaxSize : Shrink(n) \/ GrowInPlace(n) \/ GrowElsewhere(n) \/ Overrun(n)
    \/ Misusing
    \/ (~Alive \/ written = Len(Texts)) /\ UNCHANGED vars

Spec == Init /\ [][Next]_vars
-----------------------------------------------------------------------------
Proper(r) == IF r.big THEN r.at.pos >= First ELSE Len(r.data) < RefMax

TypeOK ==
    /\ heap \in [Chunk -> Chunks \cup {None}]
    /\ msg \in [Msg -> [Parts -> Refs] \cup {None}]
    /\ \A m \in Msg, p \in Parts : Live(m) => Proper(msg[m][p])
    /\ raw \in Ptrs \cup {None} /\ (raw # None => raw.pos >= First)
    /\ lent \in [Msg -> 0..MaxCopies] /\ written \in 0..Len(Texts) /\ edits \in 0..MaxEdits
    /\ slips \in SlipSets /\ abort \subseteq Slips \cup {"freed", "chunk.c:154", "chunk.c:155"}

(* The reference count of a chunk is the number of references there are to *)
(* it and of copies announced, so that it is freed with the last of them,  *)
(* never before and never later; and no pointer leads to a freed chunk or  *)
(* to a place that is not behind a header of its chunk.  Where one of the  *)
(* slips is taken as written nothing is said.                              *)
Places == Msg \X (Parts \X (0..MaxCopies))

InMessages(c) ==
    {x \in Places : LET m == x[1]
                       p == x[2][1]
                   IN  Live(m) /\ Pointing(m, p, c) /\ x[2][2] <= lent[m]}

References(c) == Cardinality(InMessages(c)) + (IF raw # None /\ raw.chunk = c THEN 1 ELSE 0)

RefcountsTrue ==
    slips = {} =>
        /\ Alive
        /\ \A c \in Chunk : IF heap[c] = None THEN References(c) = 0
                             ELSE heap[c].refcount = References(c)

(* Messages are values: whatever is shared, trimmed, moved to the front or *)
(* taken out, every message reads as it was written, and a chunk keeps its *)
(* bytes when its length changes.                                          *)
Meant == slips = {} /\ Alive

Contents == [m \in Msg |-> IF Meant /\ Live(m) THEN [p \in Parts |-> Value(msg[m][p])] ELSE None]
Outside  == IF Meant /\ raw # None THEN Data(raw) ELSE None

Values == INSTANCE MsgValue WITH
    Holder <- Msg, Part <- Parts, Nothing <- None, val <- Contents, loose <- Outside

ReadAsWritten == Values!ValueSpec
=============================================================================
