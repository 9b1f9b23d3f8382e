------------------------- MODULE PrefetchController -------------------------
(***************************************************************************)
(* cv32e40p_prefetch_controller: decides when to request the next word,    *)
(* at which address, and what becomes of the words that come back: handed  *)
(* to the IF stage, kept in the FIFO, or thrown away because a branch or a *)
(* hardware loop made them useless.                                        *)
(*                                                                         *)
(* One step is one rising edge of clk.  The inputs of the cycle are the    *)
(* fields of a record "in", named after the ports; the outputs and wires   *)
(* are operators of that record.  Addresses are word addresses (the code   *)
(* only requests aligned words); the address space has WORDS words and     *)
(* wraps around as the 32-bit adder does.                                  *)
(***************************************************************************)
EXTENDS Integers

CONSTANTS
    DEPTH,      \* parameter DEPTH: FIFO_DEPTH of the prefetch buffer
    PULP_OBI,   \* parameter PULP_OBI # 0
    COREV_PULP, \* parameter COREV_PULP: hardware loops are there
    WORDS       \* number of words of the address space

\* The prefetch buffer asserts that its depth is greater than 1.
ASSUME PrefetchAssumption ==
    /\ DEPTH \in Nat /\ DEPTH > 1
    /\ PULP_OBI \in BOOLEAN
    /\ COREV_PULP \in BOOLEAN
    /\ WORDS \in Nat \ {0}

Addr == 0 .. WORDS - 1

\* trans_addr_incr
Incr(addr) == IF addr = WORDS - 1 THEN 0 ELSE addr + 1

VARIABLES
    state_q,                  \* IDLE, or BRANCH_WAIT: a target is still to be requested
    cnt_q,                    \* transactions accepted and not yet answered
    flush_cnt_q,              \* how many of the next answers are to be thrown away
    trans_addr_q,             \* address of the last transaction, or the pending target
    hwlp_flush_after_resp,    \* a flush waits for the answer that carries HWLP_END
    hwlp_flush_cnt_delayed_q  \* how many answers that flush will throw away

controllerVars == <<state_q, cnt_q, flush_cnt_q, trans_addr_q,
                    hwlp_flush_after_resp, hwlp_flush_cnt_delayed_q>>

ControllerInit ==
    /\ state_q = "IDLE"
    /\ cnt_q = 0
    /\ flush_cnt_q = 0
    /\ trans_addr_q = 0
    /\ hwlp_flush_after_resp = FALSE
    /\ hwlp_flush_cnt_delayed_q = 0
-----------------------------------------------------------------------------
(* Transaction requests *)

Redirect(in) == in.branch_i \/ in.hwlp_jump_i

\* A slip the runs must notice: the words in the FIFO are never counted.
fifo_cnt_masked_always(in) == 0

\* The words in the FIFO do not count in the cycle that flushes them.
fifo_cnt_masked(in) == IF Redirect(in) THEN 0 ELSE in.fifo_cnt_i

\* A slip the runs must notice: one place too few is used.
trans_valid_o_short(in) ==
    /\ in.req_i
    /\ fifo_cnt_masked(in) + cnt_q < DEPTH - 1
    /\ (PULP_OBI /\ cnt_q # 0) => in.resp_valid_i

trans_valid_o(in) ==
    /\ in.req_i
    /\ fifo_cnt_masked(in) + cnt_q < DEPTH
    /\ (PULP_OBI /\ cnt_q # 0) => in.resp_valid_i

busy_o(in) == cnt_q # 0 \/ trans_valid_o(in)

\* A slip the runs must notice: a target that still waits for its request is not
\* given up for that of a later branch.
trans_addr_o_waiting(in) ==
    CASE state_q = "BRANCH_WAIT" -> trans_addr_q
      [] in.branch_i             -> in.branch_addr_i
      [] in.hwlp_jump_i          -> in.hwlp_target_i
      [] OTHER                   -> Incr(trans_addr_q)

trans_addr_o(in) ==
    CASE in.branch_i                            -> in.branch_addr_i
      [] ~in.branch_i /\ state_q = "BRANCH_WAIT" -> trans_addr_q
      [] ~in.branch_i /\ state_q = "IDLE"        ->
            IF in.hwlp_jump_i THEN in.hwlp_target_i ELSE Incr(trans_addr_q)

\* A slip the runs must notice: a request counts before it is accepted.
count_up_early(in) == trans_valid_o(in)

count_up(in) == trans_valid_o(in) /\ in.trans_ready_i

next_state(in) ==
    IF count_up(in) THEN "IDLE"
    ELSE IF Redirect(in) THEN "BRANCH_WAIT" ELSE state_q

next_cnt(in) ==
    CASE count_up(in) /\ ~in.resp_valid_i -> cnt_q + 1
      [] ~count_up(in) /\ in.resp_valid_i -> cnt_q - 1
      [] OTHER                            -> cnt_q
-----------------------------------------------------------------------------
(* Words for the IF stage and for the FIFO *)

fifo_empty(in) == in.fifo_cnt_i = 0

Discarding(in) == in.branch_i \/ flush_cnt_q > 0

fetch_valid_o(in) == (~fifo_empty(in) \/ in.resp_valid_i) /\ ~Discarding(in)

fifo_push_o(in) ==
    /\ in.resp_valid_i
    /\ ~fifo_empty(in) \/ ~in.fetch_ready_i
    /\ ~Discarding(in)

fifo_pop_o(in) == ~fifo_empty(in) /\ in.fetch_ready_i

fifo_flush_o(in) ==
    \/ in.branch_i
    \/ (COREV_PULP /\ in.hwlp_jump_i /\ ~fifo_empty(in) /\ fifo_pop_o(in))

fifo_flush_but_first_o(in) ==
    COREV_PULP /\ in.hwlp_jump_i /\ ~fifo_empty(in) /\ ~fifo_pop_o(in)
-----------------------------------------------------------------------------
(* Flushing the answers that are still to come *)

\* HWLP_END is in the FIFO or arrives now: the rest can be thrown away.
hwlp_flush_resp(in) ==
    COREV_PULP /\ in.hwlp_jump_i /\ ~(fifo_empty(in) /\ ~in.resp_valid_i)

\* HWLP_END is still to come: the flush has to wait for it.
hwlp_wait_resp_flush(in) ==
    COREV_PULP /\ in.hwlp_jump_i /\ fifo_empty(in) /\ ~in.resp_valid_i

hwlp_flush_resp_delayed(in) == hwlp_flush_after_resp /\ in.resp_valid_i

\* hwlp_flush_after_resp and hwlp_flush_cnt_delayed_q at the next edge.
next_flush_after_resp(in) ==
    /\ ~in.branch_i
    /\ hwlp_wait_resp_flush(in) \/ (hwlp_flush_after_resp /\ ~in.resp_valid_i)

next_flush_cnt_delayed(in) ==
    IF in.branch_i THEN 0
    ELSE IF hwlp_wait_resp_flush(in) THEN cnt_q - 1
    ELSE IF hwlp_flush_resp_delayed(in) THEN 0
    ELSE hwlp_flush_cnt_delayed_q

\* Slips the runs must notice: the answer of this cycle is counted as one still
\* to come; the counter goes below zero; the counter is never counted down.
next_flush_cnt_stale(in) ==
    IF in.branch_i \/ hwlp_flush_resp(in) THEN cnt_q
    ELSE IF hwlp_flush_resp_delayed(in) THEN hwlp_flush_cnt_delayed_q
    ELSE IF in.resp_valid_i /\ flush_cnt_q > 0 THEN flush_cnt_q - 1
    ELSE flush_cnt_q

next_flush_cnt_below(in) ==
    IF in.branch_i \/ hwlp_flush_resp(in)
    THEN IF in.resp_valid_i /\ cnt_q > 0 THEN cnt_q - 1 ELSE cnt_q
    ELSE IF hwlp_flush_resp_delayed(in) THEN hwlp_flush_cnt_delayed_q
    ELSE IF in.resp_valid_i THEN flush_cnt_q - 1
    ELSE flush_cnt_q

next_flush_cnt_stuck(in) ==
    IF in.branch_i \/ hwlp_flush_resp(in)
    THEN IF in.resp_valid_i /\ cnt_q > 0 THEN cnt_q - 1 ELSE cnt_q
    ELSE IF hwlp_flush_resp_delayed(in) THEN hwlp_flush_cnt_delayed_q
    ELSE flush_cnt_q

next_flush_cnt(in) ==
    IF in.branch_i \/ hwlp_flush_resp(in)
    THEN IF in.resp_valid_i /\ cnt_q > 0 THEN cnt_q - 1 ELSE cnt_q
    ELSE IF hwlp_flush_resp_delayed(in) THEN hwlp_flush_cnt_delayed_q
    ELSE IF in.resp_valid_i /\ flush_cnt_q > 0 THEN flush_cnt_q - 1
    ELSE flush_cnt_q

ControllerEdge(in) ==
    /\ state_q' = next_state(in)
    /\ cnt_q' = next_cnt(in)
    /\ flush_cnt_q' = next_flush_cnt(in)
    /\ trans_addr_q' = IF Redirect(in) \/ count_up(in)
                       THEN trans_addr_o(in) ELSE trans_addr_q
    /\ hwlp_flush_after_resp' = next_flush_after_resp(in)
    /\ hwlp_flush_cnt_delayed_q' = next_flush_cnt_delayed(in)
=============================================================================
