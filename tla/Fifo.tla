-------------------------------- MODULE Fifo --------------------------------
(***************************************************************************)
(* cv32e40p_fifo: a queue of DEPTH words kept in a ring of registers, with *)
(* a read pointer, a write pointer and a count.  One step is one rising    *)
(* edge of clk_i with some values at the inputs.                           *)
(***************************************************************************)
EXTENDS Integers, Sequences

CONSTANTS
    DEPTH,          \* parameter DEPTH
    PTR_MOD,        \* number of values of a pointer: 2^ADDR_DEPTH
    FALL_THROUGH,   \* parameter FALL_THROUGH
    Data            \* the words that are pushed

\* A pointer has ADDR_DEPTH = $clog2(DEPTH) bits (1 when DEPTH = 1), so it can
\* at least name every register of the ring.
ASSUME FifoAssumption ==
    /\ DEPTH \in Nat \ {0}
    /\ PTR_MOD \in Nat
    /\ PTR_MOD >= DEPTH
    /\ FALL_THROUGH \in BOOLEAN
    /\ 0 \in Data

VARIABLES
    read_pointer_q, \* index of the oldest word
    write_pointer_q,\* index of the register the next push writes
    status_cnt_q,   \* number of words in the queue
    mem_q           \* the ring of registers

fifoVars == <<read_pointer_q, write_pointer_q, status_cnt_q, mem_q>>

-----------------------------------------------------------------------------
full_o == status_cnt_q = DEPTH

empty_o(push_i) == status_cnt_q = 0 /\ ~(FALL_THROUGH /\ push_i)

data_o(push_i, data_i) ==
    IF FALL_THROUGH /\ status_cnt_q = 0 /\ push_i
    THEN data_i ELSE mem_q[read_pointer_q]

\* A pointer register wraps around at its width only.
Incremented(pointer) == IF pointer + 1 = PTR_MOD THEN 0 ELSE pointer + 1

\* The next pointer of a push or a pop: back to 0 after the last register.
After(pointer) == IF pointer = DEPTH - 1 THEN 0 ELSE Incremented(pointer)

\* A slip the run must notice: a push that would fill the ring is lost.
Accepts_NotTheLast(push_i) == push_i /\ status_cnt_q < DEPTH - 1

Accepts(push_i) == push_i /\ ~full_o

\* read_write_comb: the pointers, the count and the memory after the edge when
\* nothing is flushed.
read_write_comb(push_i, data_i, pop_i) ==
    LET push    == Accepts(push_i)
        pop     == pop_i /\ ~empty_o(push_i)
        through == FALL_THROUGH /\ status_cnt_q = 0 /\ push_i /\ pop_i
    IN  [read  |-> IF pop /\ ~through THEN After(read_pointer_q) ELSE read_pointer_q,
         write |-> IF push /\ ~through THEN After(write_pointer_q) ELSE write_pointer_q,
         cnt   |-> IF push /\ ~pop THEN status_cnt_q + 1
                   ELSE IF pop /\ ~push THEN status_cnt_q - 1
                   ELSE status_cnt_q,
         mem   |-> IF push THEN [mem_q EXCEPT ![write_pointer_q] = data_i] ELSE mem_q]

Flush(mem_n) == [read |-> 0, write |-> 0, cnt |-> 0, mem |-> mem_n]

\* A slip the run must notice: the write pointer stays where it is.
FlushButFirst_KeepWrite(mem_n) ==
    [read |-> read_pointer_q, write |-> write_pointer_q,
     cnt |-> IF status_cnt_q > 0 THEN 1 ELSE 0, mem |-> mem_n]

\* The oldest word stays where it is and the write pointer moves right behind
\* it, by an increment that only the width of the pointer wraps around.
FlushButFirst(mem_n) ==
    IF status_cnt_q > 0
    THEN [read |-> read_pointer_q, write |-> Incremented(read_pointer_q),
          cnt |-> 1, mem |-> mem_n]
    ELSE Flush(mem_n)

\* The ring after the clock edge.  Its memory is written by every push that finds
\* room, flushed or not.
NextRing(flush_i, flush_but_first_i, push_i, data_i, pop_i) ==
    LET n == read_write_comb(push_i, data_i, pop_i)
    IN  IF flush_i THEN Flush(n.mem)
        ELSE IF flush_but_first_i THEN FlushButFirst(n.mem)
        ELSE n

FifoEdge(flush_i, flush_but_first_i, push_i, data_i, pop_i) ==
    LET n == NextRing(flush_i, flush_but_first_i, push_i, data_i, pop_i)
    IN  /\ read_pointer_q' = n.read
        /\ write_pointer_q' = n.write
        /\ status_cnt_q' = n.cnt
        /\ mem_q' = n.mem
-----------------------------------------------------------------------------
Init ==
    /\ read_pointer_q = 0
    /\ write_pointer_q = 0
    /\ status_cnt_q = 0
    /\ mem_q = [i \in 0 .. DEPTH - 1 |-> 0]

Next ==
    \E flush_i, flush_but_first_i, push_i, pop_i \in BOOLEAN, data_i \in Data :
        /\ ~(flush_i /\ flush_but_first_i)
        /\ FifoEdge(flush_i, flush_but_first_i, push_i, data_i, pop_i)

Spec == Init /\ [][Next]_fifoVars
-----------------------------------------------------------------------------
\* The ring never points outside itself.
TypeOK ==
    /\ read_pointer_q \in 0 .. DEPTH - 1
    /\ write_pointer_q \in 0 .. DEPTH - 1
    /\ status_cnt_q \in 0 .. DEPTH
    /\ mem_q \in [0 .. DEPTH - 1 -> Data]

\* The two pointers and the count tell the same story: the write pointer is
\* status_cnt_q registers ahead of the read pointer.
PointersAgree ==
    write_pointer_q = IF read_pointer_q + status_cnt_q < DEPTH
                      THEN read_pointer_q + status_cnt_q
                      ELSE read_pointer_q + status_cnt_q - DEPTH

\* The register that holds the i-th oldest word of a ring.
Slot(ring, i) ==
    IF ring.read + i - 1 < DEPTH THEN ring.read + i - 1 ELSE ring.read + i - 1 - DEPTH

\* The words in a ring, oldest first.
Words(ring) == [i \in 1 .. ring.cnt |-> ring.mem[Slot(ring, i)]]

Ring == [read |-> read_pointer_q, write |-> write_pointer_q,
         cnt |-> status_cnt_q, mem |-> mem_q]

Q == INSTANCE Queue WITH queue <- Words(Ring)

\* Given the same inputs, the ring shows what the queue shows, and the clock edge
\* leaves in the ring the words it leaves in the queue.
SameAsQueue(flush, flush_but_first, push, data, pop) ==
    /\ full_o <=> Q!QueueFull
    /\ empty_o(push) <=> Q!QueueEmpty(push)
    /\ ~empty_o(push) => data_o(push, data) = Q!QueueOut(push, data)
    /\ Words(NextRing(flush, flush_but_first, push, data, pop))
         = Q!QueueAfter(flush, flush_but_first, push, data, pop)

\* The ring is the queue of Queue, input for input and output for output: in every
\* state it can reach, whatever is pushed, popped or flushed at the next clock edge
\* is pushed, popped or flushed in the queue.  So the edge loses, alters, repeats
\* or reorders no word, and a flush drops the words it is asked to drop.
ImplementsQueue ==
    /\ Q!QueueSpec
    /\ [](\A flush, flush_but_first, push, pop \in BOOLEAN, data \in Data :
             SameAsQueue(flush, flush_but_first, push, data, pop))
=============================================================================
