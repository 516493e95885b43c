------------------------------ MODULE MsgQueue ------------------------------
(***************************************************************************)
(* transports/inproc/msgqueue.c: a queue of messages in a chain of chunks  *)
(* of NN_MSGQUEUE_GRANULARITY slots, with one chunk kept for reuse.        *)
(* nn_msgqueue_recv reads at `in', nn_msgqueue_send writes at `out'.  Both *)
(* run under the lock of the receiving socket's context.                   *)
(*                                                                         *)
(* A message is what nn_msg_mv moves: an identity (tag) and the size of    *)
(* its header and body together.  A chunk that nn_alloc returns holds      *)
(* garbage, in its slots and in its next pointer, which nn_msgqueue_send   *)
(* does not set.  That nn_alloc succeeds is assumed: nn_msgqueue_send does *)
(* not look at what it returned (line 74).                                 *)
(***************************************************************************)
EXTENDS Integers, Sequences, FiniteSets

CONSTANTS
    Granularity,   \* NN_MSGQUEUE_GRANULARITY, slots of a chunk
    Chunks,        \* addresses nn_alloc may return
    Tags, Sizes,   \* messages
    MaxMem,        \* nn_msgqueue_init's maxmem, the receive buffer
    NoChunk,       \* NULL
    Garbage,       \* what was never written
    Term           \* whether the queue may be destroyed

ASSUME MsgQueueAssumption ==
    /\ Granularity \in Nat \ {0}
    /\ MaxMem \in Nat
    /\ Sizes \subseteq Nat
    /\ Term \in BOOLEAN
    /\ NoChunk \notin Chunks /\ Garbage \notin Chunks

Msgs  == [tag : Tags, size : Sizes]
Slots == 0..Granularity - 1

VARIABLES
    count, mem,
    in, out,      \* [chunk, pos]
    cache,
    slot,         \* [Chunks -> [Slots -> Msgs or Garbage]]
    link,         \* [Chunks -> chunk]   nn_msgqueue_chunk.next
    live,         \* chunks that nn_alloc returned and nn_free did not take
    broken        \* a NULL or freed chunk was used, or the assertion of line 43 failed

vars == <<count, mem, in, out, cache, slot, link, live, broken>>

(* nn_msgqueue_init *)
Init ==
    /\ count = 0 /\ mem = 0
    /\ \E c \in Chunks :
          /\ in = [chunk |-> c, pos |-> 0]
          /\ out = [chunk |-> c, pos |-> 0]
          /\ live = {c}
          /\ link = [d \in Chunks |-> IF d = c THEN NoChunk ELSE Garbage]
    /\ cache = NoChunk
    /\ slot = [c \in Chunks |-> [i \in Slots |-> Garbage]]
    /\ broken = FALSE

Usable == ~broken /\ in.chunk # NoChunk

(* Line 61: a full queue refuses, an empty one takes anything. *)
FullInclusive(m) == count > 0 /\ mem + m.size > MaxMem
Full(m)          == count > 0 /\ mem + m.size >= MaxMem

(* Lines 72-79: the chunk to go on with, from the cache or from nn_alloc.  *)
NextChunks == IF cache # NoChunk THEN {cache} ELSE Chunks \ live

(* Leave the cache as it was when its chunk is taken. *)
CacheKept == cache
CacheUsed == NoChunk

(* nn_msgqueue_send; -EAGAIN when Full, with nothing changed. *)
Send(m) ==
    /\ Usable
    /\ ~Full(m)
    /\ count' = count + 1
    /\ mem' = mem + m.size
    /\ broken' = (out.chunk \notin live)
    /\ slot' = [slot EXCEPT ![out.chunk][out.pos] = m]
    /\ IF out.pos + 1 < Granularity
       THEN /\ out' = [out EXCEPT !.pos = @ + 1]
            /\ UNCHANGED <<cache, link, live>>
       ELSE \E c \in NextChunks :
               /\ link' = [link EXCEPT ![out.chunk] = c]
               /\ out' = [chunk |-> c, pos |-> 0]
               /\ cache' = CacheUsed
               /\ live' = live \cup {c}
    /\ UNCHANGED in

(* The message nn_msgqueue_recv hands out. *)
Oldest == slot[in.chunk][in.pos]

(* Lines 96-105: when the chunk has been read to its end the next one is   *)
(* taken, and this one cached or freed.                                    *)
FreedOnly(c) == IF cache = NoChunk THEN live ELSE live \ {c}

(* The chunk is given up one slot early, or one too late. *)
AtEndEarly(pos) == pos >= Granularity - 1
AtEndLate(pos)  == pos > Granularity
AtEnd(pos)      == pos = Granularity

Recv ==
    /\ Usable
    /\ count > 0
    /\ count' = count - 1
    /\ mem' = mem - Oldest.size
    /\ broken' = (in.chunk \notin live)
    /\ slot' = [slot EXCEPT ![in.chunk][in.pos] = Garbage]
    /\ IF ~AtEnd(in.pos + 1)
       THEN /\ in' = [in EXCEPT !.pos = @ + 1]
            /\ UNCHANGED <<cache, live>>
       ELSE /\ in' = [chunk |-> link[in.chunk], pos |-> 0]
            /\ cache' = IF cache = NoChunk THEN in.chunk ELSE cache
            /\ live' = FreedOnly(in.chunk)
    /\ link' = [c \in Chunks |-> IF c \in live' THEN link[c] ELSE Garbage]
    /\ UNCHANGED out

(* nn_msgqueue_term: receive everything, then free the last chunk and the  *)
(* cached one.  Only the end of its loop is a step of its own.             *)
Terminate ==
    /\ Usable /\ Term
    /\ count = 0
    /\ broken' = (in.chunk # out.chunk)
    /\ live' = live \ {in.chunk, cache}
    /\ in' = [chunk |-> NoChunk, pos |-> 0]
    /\ out' = [chunk |-> NoChunk, pos |-> 0]
    /\ cache' = NoChunk
    /\ link' = [c \in Chunks |-> Garbage]
    /\ UNCHANGED <<count, mem, slot>>

Terminated == ~Usable /\ UNCHANGED vars

Next == (\E m \in Msgs : Send(m)) \/ Recv \/ Terminate \/ Terminated

Spec == Init /\ [][Next]_vars
-----------------------------------------------------------------------------
TypeOK ==
    /\ count \in Nat /\ mem \in Int
    /\ in \in [chunk : Chunks \cup {NoChunk}, pos : Slots]
    /\ out \in [chunk : Chunks \cup {NoChunk}, pos : Slots]
    /\ cache \in Chunks \cup {NoChunk}
    /\ slot \in [Chunks -> [Slots -> Msgs \cup {Garbage}]]
    /\ link \in [Chunks -> Chunks \cup {NoChunk, Garbage}]
    /\ live \subseteq Chunks
    /\ broken \in BOOLEAN

(* The chunk n steps along the chain that starts at in. *)
After(c) == IF c \in Chunks THEN link[c] ELSE NoChunk

NthChunk[n \in Nat] == IF n = 0 THEN in.chunk ELSE After(NthChunk[n - 1])

(* The messages between in and out, oldest first. *)
Contents ==
    [i \in 1..count |->
        LET at == in.pos + i - 1
        IN  slot[NthChunk[at \div Granularity]][at % Granularity]]

(* No chunk is lost, used after it was freed or freed twice: those in use  *)
(* are the ones from in to out and the cached one, and out stands exactly  *)
(* count slots after in.                                                   *)
ChunksAccounted ==
    /\ ~broken
    /\ in.chunk = NoChunk => live = {}
    /\ in.chunk # NoChunk =>
        LET last == (in.pos + count) \div Granularity
        IN  /\ out = [chunk |-> NthChunk[last], pos |-> (in.pos + count) % Granularity]
            /\ live = {NthChunk[n] : n \in 0..last} \cup ({cache} \ {NoChunk})
            /\ Cardinality(live) = last + 1 + (IF cache = NoChunk THEN 0 ELSE 1)

(* The limit holds whatever the order of calls: only a message that is     *)
(* alone in the queue may take it to maxmem or beyond.                     *)
MemBounded == count > 1 => mem < MaxMem

MsgSize(m) == m.size

(* MsgQueue implements MsgFifo. *)
Fifo == INSTANCE MsgFifo WITH
    Message <- Msgs, Size <- MsgSize, Limit <- MaxMem,
    items <- Contents, bytes <- mem, gone <- in.chunk = NoChunk

(* Whatever the chunk boundaries, messages come out complete and in the    *)
(* order in which they went in, within the limit.                          *)
FifoSpec == Fifo!FifoSpec
=============================================================================
