------------------------------- MODULE Queue -------------------------------
(***************************************************************************)
(* What cv32e40p_fifo promises its user: a queue of at most DEPTH words    *)
(* that is pushed, popped or flushed in one clock edge, and that can be    *)
(* flushed down to its first word.  Fifo implements it with a ring of      *)
(* registers and two pointers; PrefetchBuffer uses it in place of Fifo.    *)
(***************************************************************************)
EXTENDS Integers, Sequences

CONSTANTS
    DEPTH,          \* number of words the queue can hold
    FALL_THROUGH,   \* TRUE: a word pushed into an empty queue can be popped at once
    Data            \* the words

VARIABLE queue      \* the words in the queue, oldest first

QueueFull  == Len(queue) = DEPTH
QueueEmpty(push) == queue = <<>> /\ ~(FALL_THROUGH /\ push)

\* The word offered to the reader; only meaningful when the queue is not empty.
QueueOut(push, data) == IF queue = <<>> /\ push THEN data ELSE Head(queue)

\* The queue after a cycle without a flush: a push into a full queue and a pop
\* from an empty one are ignored, a word that falls through is never stored.
Moved(push, data, pop) ==
    LET pushed  == push /\ ~QueueFull
        popped  == pop /\ queue # <<>>
        through == FALL_THROUGH /\ push /\ pop /\ queue = <<>>
        rest    == IF popped THEN Tail(queue) ELSE queue
    IN  IF pushed /\ ~through THEN Append(rest, data) ELSE rest

First == IF queue = <<>> THEN <<>> ELSE <<Head(queue)>>

\* The words a clock edge leaves in the queue.
QueueAfter(flush, flush_but_first, push, data, pop) ==
    IF flush THEN <<>>
    ELSE IF flush_but_first THEN First
    ELSE Moved(push, data, pop)

QueueEdge(flush, flush_but_first, push, data, pop) ==
    queue' = QueueAfter(flush, flush_but_first, push, data, pop)

QueueInit == queue = <<>>

QueueNext ==
    \E flush, flush_but_first, push, pop \in BOOLEAN, data \in Data :
        QueueEdge(flush, flush_but_first, push, data, pop)

QueueSpec == QueueInit /\ [][QueueNext]_queue
=============================================================================
