------------------------------ MODULE MsgFifo ------------------------------
(***************************************************************************)
(* What inproc's message queue promises: first in, first out, with a limit *)
(* on the bytes it holds.  A message is taken when the queue is empty,     *)
(* however large it is, or when the bytes stay below the limit.            *)
(***************************************************************************)
EXTENDS Integers, Sequences

CONSTANTS Message, Size(_), Limit

VARIABLES
    items,   \* the messages, oldest first
    bytes,   \* their total size
    gone     \* the queue was destroyed

fifoVars == <<items, bytes, gone>>

FifoInit == items = <<>> /\ bytes = 0 /\ gone = FALSE

Accepts(m) == items = <<>> \/ bytes + Size(m) < Limit

Put(m) ==
    /\ ~gone
    /\ Accepts(m)
    /\ items' = Append(items, m)
    /\ bytes' = bytes + Size(m)
    /\ UNCHANGED gone

Take ==
    /\ ~gone
    /\ items # <<>>
    /\ items' = Tail(items)
    /\ bytes' = bytes - Size(Head(items))
    /\ UNCHANGED gone

Destroy == ~gone /\ gone' /\ items' = <<>> /\ bytes' = 0

FifoNext == (\E m \in Message : Put(m)) \/ Take \/ Destroy

FifoSpec == FifoInit /\ [][FifoNext]_fifoVars
=============================================================================
