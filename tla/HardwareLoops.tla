--------------------------- MODULE HardwareLoops ---------------------------
(***************************************************************************)
(* cv32e40p_hwloop_regs, and what the controller derives from the loop     *)
(* registers and the address of the instruction in ID.  Addresses count    *)
(* halfwords, so the last instruction of a body is at hwlp_end_q - 2.      *)
(***************************************************************************)
EXTENDS Software

CONSTANT COUNTS     \* values of a loop counter, 2^32 in the code

Loops == {0, 1}     \* loop 0 is the inner one

ASSUME CountsAssumption == COUNTS \in Nat /\ COUNTS > 2

ASSUME LoopFieldsAssumption ==
    \A addr \in Addresses :
      LET instr == Program[addr]
      IN  instr.kind = "hwloop" =>
            /\ instr.loop \in Loops /\ instr.fields \subseteq {"start", "end", "count"}
            /\ {instr.start, instr.end} \subseteq Addresses
            /\ instr.count \in 0 .. COUNTS - 1

VARIABLES hwlp_start_q, hwlp_end_q, hwlp_counter_q

hwloopVars == <<hwlp_start_q, hwlp_end_q, hwlp_counter_q>>

\* hwlp_end_eq_pc and hwlp_end_eq_pc_plus4: the instruction at pc is the last or
\* the last but one of the body of loop k.
IsLast(k, pc)       == hwlp_end_q[k] = Plus(pc, 2)
IsLastButOne(k, pc) == hwlp_end_q[k] = Plus(pc, 4)

Within(k, pc) == hwlp_start_q[k] <= pc /\ hwlp_end_q[k] >= Plus(pc, 2)

is_hwlp_body(pc) == \E k \in Loops : Within(k, pc) /\ hwlp_counter_q[k] > 1

hwlp_targ_addr(pc) ==
    IF Within(1, pc) /\ ~Within(0, pc) THEN hwlp_start_q[1] ELSE hwlp_start_q[0]

\* A write names the registers it changes; a counter is counted down unless it is
\* written in that cycle.
HwloopEdge(write, dec, valid) ==
    LET Written(field) == field \in write.fields
    IN  /\ hwlp_start_q' = IF Written("start")
                           THEN [hwlp_start_q EXCEPT ![write.loop] = 2 * (write.start \div 2)]
                           ELSE hwlp_start_q
        /\ hwlp_end_q' = IF Written("end")
                         THEN [hwlp_end_q EXCEPT ![write.loop] = 2 * (write.end \div 2)]
                         ELSE hwlp_end_q
        /\ hwlp_counter_q' =
             [k \in Loops |->
                IF Written("count") /\ k = write.loop THEN write.count
                ELSE IF k \in dec /\ valid THEN (hwlp_counter_q[k] - 1) % COUNTS
                ELSE hwlp_counter_q[k]]

HwloopInit ==
    /\ hwlp_start_q = [k \in Loops |-> 0]
    /\ hwlp_end_q = [k \in Loops |-> 0]
    /\ hwlp_counter_q = [k \in Loops |-> 0]
=============================================================================
