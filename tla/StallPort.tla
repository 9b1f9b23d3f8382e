----------------------------- MODULE StallPort -----------------------------
(***************************************************************************)
(* What the testbench puts between a port of the core and its memory to    *)
(* delay it: riscv_gnt_stall delays the grants, riscv_rvalid_stall the     *)
(* answers.  "knobs" are the registers of mm_ram that control the two.     *)
(***************************************************************************)
EXTENDS Integers, Sequences

VARIABLES
    grant,      \* grant_core_o
    cnt,        \* grant_delay_cnt
    fifo,       \* the answers under way, oldest first
    rdata       \* what the memory reads out

portVars == <<grant, cnt, fifo, rdata>>

STANDARD == 1
RANDOM == 2

DELAYS == 16        \* an answer's delay has 4 bits

PortInit == grant = FALSE /\ cnt = 0 /\ fifo = <<>> /\ rdata = 0

\* set_delay_value and get_random_delay
Delays(knobs) ==
    IF knobs.en % 2 = 0 THEN {0}
    ELSE CASE knobs.mode = STANDARD -> {knobs.fixed}
           [] knobs.mode = RANDOM -> 0 .. knobs.max
           [] OTHER -> {0}

\* A slip the runs must notice: a request that follows another at once does not start a count.
GrantEdgeOnce(req, next_req, knobs) ==
    \/ ~next_req /\ grant' \in BOOLEAN /\ UNCHANGED cnt
    \/ next_req /\ ~req /\ cnt' \in Delays(knobs) /\ grant' = (cnt' = 0)
    \/ next_req /\ req /\ cnt' = (IF cnt = 0 THEN 0 ELSE cnt - 1) /\ grant' = (cnt = 1)

\* A request starts a countdown unless the one before it still waits.  The core's new request
\* is looked at after the edge, when the registers have their new values.
GrantEdge(req, next_req, knobs) ==
    \/ ~next_req /\ grant' \in BOOLEAN /\ UNCHANGED cnt
    \/ next_req /\ (grant \/ ~req) /\ cnt' \in Delays(knobs) /\ grant' = (cnt' = 0)
    \/ next_req /\ req /\ ~grant /\ cnt' = cnt - 1 /\ grant' = (cnt = 1)

rvalid == fifo # <<>> /\ Head(fifo).delay = 0

\* The word of an entry: in the cycle after its request the memory still shows it.
Word(entry) == IF entry.we THEN 0 ELSE IF entry.fresh THEN rdata ELSE entry.data

Answer == Word(Head(fifo))

\* A slip the runs must notice: the word of a delayed answer is read when the answer goes out.
CapturedLate(entry) == [entry EXCEPT !.fresh = ~entry.we]

Captured(entry) == [entry EXCEPT !.data = Word(entry), !.fresh = FALSE]

\* The oldest answer goes out or counts down; a granted request joins the others.
AnswerEdge(push, we, knobs) ==
    LET captured == [k \in DOMAIN fifo |-> Captured(fifo[k])]
        remaining == IF rvalid THEN Tail(captured)
                     ELSE [k \in DOMAIN fifo |->
                             [captured[k] EXCEPT !.delay = IF k = 1 THEN @ - 1 ELSE @]]
    IN  IF push
        THEN \E delay \in Delays(knobs) :
               fifo' = Append(remaining, [we |-> we, delay |-> delay % DELAYS, data |-> 0,
                                          fresh |-> TRUE])
        ELSE fifo' = remaining
=============================================================================
