------------------------------ MODULE KeyQueue ------------------------------
(***************************************************************************)
(* What the keyboard driver promises its readers: a bounded FIFO of key    *)
(* events.  An event that arrives when the queue is full is dropped, and   *)
(* nothing else is ever lost, repeated, reordered or made up.  A flush     *)
(* discards what was queued when it began and keeps what arrives during    *)
(* it.                                                                     *)
(***************************************************************************)
EXTENDS Naturals, Sequences

CONSTANTS Events, NoEvent, Capacity

VARIABLES
    queue,      \* the events waiting to be read
    mark,       \* while a flush is under way, how many events it covers
    flushing,   \* whether a flush is under way
    got         \* what the last pop returned

qvars == <<queue, mark, flushing, got>>

QInit == queue = <<>> /\ mark = 0 /\ flushing = FALSE /\ got = NoEvent

\* One event is added at the end; in a full queue nothing changes.
Arrive ==
    /\ Len(queue) < Capacity
    /\ Len(queue') = Len(queue) + 1
    /\ SubSeq(queue', 1, Len(queue)) = queue
    /\ queue'[Len(queue')] \in Events
    /\ UNCHANGED <<mark, flushing, got>>

Take ==
    /\ ~flushing
    /\ queue # <<>>
    /\ got' = Head(queue)
    /\ queue' = Tail(queue)
    /\ UNCHANGED <<mark, flushing>>

TakeNothing ==
    /\ ~flushing
    /\ queue = <<>>
    /\ got' = NoEvent
    /\ UNCHANGED <<queue, mark, flushing>>

BeginFlush ==
    /\ ~flushing
    /\ flushing' = TRUE
    /\ mark' = Len(queue)
    /\ UNCHANGED <<queue, got>>

EndFlush ==
    /\ flushing
    /\ queue' = SubSeq(queue, mark + 1, Len(queue))
    /\ flushing' = FALSE
    /\ mark' = 0
    /\ UNCHANGED got

QNext ==
    \/ Arrive \/ Take \/ TakeNothing \/ BeginFlush \/ EndFlush

QSpec == QInit /\ [][QNext]_qvars
=============================================================================
