------------------------------- MODULE Aligner -------------------------------
(***************************************************************************)
(* cv32e40p_aligner and the IF/ID register of cv32e40p_if_stage, which cut *)
(* the stream of fetched words into instructions of 16 and 32 bits.        *)
(*                                                                         *)
(* Addresses count halfwords; the content of memory is named by address,   *)
(* so an instruction is the pair of halfwords it was put together from.    *)
(* The prefetch buffer is taken as FetchStream promises it.                *)
(***************************************************************************)
EXTENDS Software

VARIABLES
    state,              \* of the aligner
    r_instr_h,          \* upper half of the word before
    pc_q,               \* address of the instruction to hand over
    hwlp_addr_q,        \* target of a loop jump that came while ID was stalled
    hwlp_update_pc_q,   \* it is there
    aligner_ready_q,    \* the last word was consumed
    next, after,        \* prefetch buffer: the next word and the one after it
    waiting,            \* the next word sits in the FIFO
    instr_valid_id, pc_id, instr_id     \* IF/ID register

alignerVars == <<state, r_instr_h, pc_q, hwlp_addr_q, hwlp_update_pc_q, aligner_ready_q,
                 next, after, waiting, instr_valid_id, pc_id, instr_id>>

SuccWord(word) == (word + 1) % (HALFWORDS \div 2)

\* The two halves of the word the prefetch buffer offers.
first  == 2 * next
second == 2 * next + 1

\* What the aligner makes of the word in this state: the halves of the
\* instruction, its length, whether it is there, and whether the word is used up.
Aligned(fetch_valid) ==
    LET Cut(lo, hi, wide, to) ==
            [instr |-> [lo |-> lo, hi |-> hi, wide |-> wide], next_state |-> to,
             pc_n |-> Plus(pc_q, IF wide THEN 2 ELSE 1),
             valid |-> fetch_valid, ready |-> TRUE, go |-> fetch_valid]
    IN  CASE state = "ALIGNED32" ->
                IF first \in Wide THEN Cut(first, second, TRUE, "ALIGNED32")
                                  ELSE Cut(first, second, FALSE, "MISALIGNED32")
          [] state = "MISALIGNED32" ->
                IF r_instr_h \in Wide
                THEN Cut(r_instr_h, first, TRUE, "MISALIGNED32")
                ELSE [Cut(r_instr_h, second, FALSE, "MISALIGNED16")
                        EXCEPT !.valid = TRUE, !.go = TRUE, !.ready = ~fetch_valid]
          [] state = "MISALIGNED16" ->
                LET here == ~aligner_ready_q \/ fetch_valid
                    cut  == IF first \in Wide THEN Cut(first, second, TRUE, "ALIGNED32")
                                              ELSE Cut(first, second, FALSE, "MISALIGNED32")
                IN  [cut EXCEPT !.valid = here, !.go = here]
          [] state = "BRANCH_MISALIGNED" ->
                IF second \in Wide
                THEN [Cut(second, second, TRUE, "MISALIGNED32") EXCEPT !.valid = FALSE, !.pc_n = pc_q]
                ELSE Cut(second, second, FALSE, "ALIGNED32")

\* A slip the runs must notice: the target that came during a stall is dropped.
next_pc_live(in, cut) ==
    IF state = "ALIGNED32" /\ first \in Wide /\ in.hwlp_jump_i
    THEN in.hwlp_target_i ELSE cut.pc_n

\* A loop jump redirects the pc after an aligned 32-bit instruction only.
next_pc(in, cut) ==
    IF state = "ALIGNED32" /\ first \in Wide
    THEN CASE in.hwlp_jump_i                      -> in.hwlp_target_i
           [] ~in.hwlp_jump_i /\ hwlp_update_pc_q -> hwlp_addr_q
           [] OTHER                               -> cut.pc_n
    ELSE cut.pc_n

AlignerStep(in, cut) ==
    IF in.pc_set_i \/ (cut.go /\ in.if_valid)
    THEN /\ state' = CASE ~in.pc_set_i -> cut.next_state
                       [] in.pc_set_i /\ in.branch_addr_i % 2 = 1 -> "BRANCH_MISALIGNED"
                       [] OTHER -> "ALIGNED32"
         /\ pc_q' = IF in.pc_set_i THEN in.branch_addr_i ELSE next_pc(in, cut)
         /\ r_instr_h' = second
         /\ aligner_ready_q' = cut.ready
         /\ hwlp_update_pc_q' = FALSE
         /\ UNCHANGED hwlp_addr_q
    ELSE /\ hwlp_update_pc_q' = (hwlp_update_pc_q \/ in.hwlp_jump_i)
         /\ hwlp_addr_q' = IF in.hwlp_jump_i THEN in.hwlp_target_i ELSE hwlp_addr_q
         /\ UNCHANGED <<state, pc_q, r_instr_h, aligner_ready_q>>

\* The words handed over, as FetchStream has them: a branch restarts the stream,
\* a loop jump lets one more word through.
StreamStep(in, fetch_ready) ==
    IF in.pc_set_i
    THEN /\ next' = in.branch_addr_i \div 2
         /\ after' = SuccWord(next')
         /\ waiting' = FALSE
    ELSE LET then == IF in.hwlp_jump_i THEN in.hwlp_target_i \div 2 ELSE after
         IN  /\ next' = IF fetch_ready THEN then ELSE next
             /\ after' = IF fetch_ready THEN SuccWord(then) ELSE then
             /\ waiting' = (in.fetch_valid /\ ~fetch_ready)

\* IF_ID_PIPE_REGISTERS: a new instruction, an empty slot, or the old one.
IfIdStep(in, cut) ==
    IF in.if_valid /\ cut.valid
    THEN instr_valid_id' = TRUE /\ instr_id' = cut.instr /\ pc_id' = pc_q
    ELSE /\ instr_valid_id' = (instr_valid_id /\ ~in.clear_instr_valid_i)
         /\ UNCHANGED <<instr_id, pc_id>>

\* One clock edge of the IF stage.
FetchStageEdge(in) ==
    LET cut == Aligned(in.fetch_valid)
    IN  /\ AlignerStep(in, cut)
        /\ StreamStep(in, ~in.pc_set_i /\ in.if_valid /\ cut.ready)
        /\ IfIdStep(in, cut)

FetchStageInit ==
    /\ state = "ALIGNED32" /\ r_instr_h = 0 /\ pc_q = 0
    /\ hwlp_addr_q = 0 /\ hwlp_update_pc_q = FALSE /\ aligner_ready_q = FALSE
    /\ next = 1 /\ after = 2 /\ waiting = FALSE
    /\ instr_valid_id = FALSE /\ pc_id = 0
    /\ instr_id = [lo |-> 0, hi |-> 0, wide |-> FALSE]
=============================================================================
