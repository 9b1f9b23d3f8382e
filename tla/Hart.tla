-------------------------------- MODULE Hart --------------------------------
(***************************************************************************)
(* The order of instructions the architecture promises: the RISC-V hart    *)
(* the software sees, with its hardware loops, traps and debug mode.  It   *)
(* runs beside the core and takes a step whenever the core commits one.    *)
(***************************************************************************)
EXTENDS Software

VARIABLES
    hart,           \* pc, lpcount, mepc, depc, debug
    since_dret      \* instructions since debug mode was left

hartVars == <<hart, since_dret>>

\* The loops of which the instruction at pc is the last and that are not over.
Ending(ends, pc) == {k \in {0, 1} : ends[k] = pc + 2 /\ hart.lpcount[k] > 0}

\* After the last instruction of a body the loop starts over, unless this was the
\* last round; any other instruction goes to the one that follows or to its target.
Successor(starts, ends, taken) ==
    LET pc   == hart.pc
        kind == Program[pc].kind
        back == {k \in Ending(ends, pc) : hart.lpcount[k] > 1}
    IN  CASE kind \in {"jal", "jalr"} \/ (kind = "branch" /\ taken) -> Program[pc].to
          [] kind = "mret" -> IF hart.debug THEN DM_EXCEPTION ELSE hart.mepc
          [] kind = "dret" -> hart.depc
          [] back # {} -> starts[CHOOSE k \in back : \A j \in back : k <= j]
          [] OTHER -> Following(pc)

Retire(starts, ends, taken) ==
    LET pc    == hart.pc
        Count(k) ==
            IF Program[pc].kind = "hwloop" /\ Program[pc].loop = k /\ "count" \in Program[pc].fields
            THEN Program[pc].count
            ELSE IF k \in Ending(ends, pc) THEN hart.lpcount[k] - 1 ELSE hart.lpcount[k]
    IN  /\ hart' = [hart EXCEPT !.pc = Successor(starts, ends, taken),
                                !.lpcount = [k \in {0, 1} |-> Count(k)],
                                !.mepc = IF Program[pc].kind = "skip" THEN Following(@) ELSE @,
                                !.debug = @ /\ Program[pc].kind # "dret"]
        /\ since_dret' = IF Program[pc].kind = "dret" THEN 0
                         ELSE IF since_dret < 2 THEN since_dret + 1 ELSE since_dret

\* An interrupt comes between two instructions.
Interrupt ==
    /\ hart' = [hart EXCEPT !.pc = IRQ_VECTOR, !.mepc = hart.pc]
    /\ UNCHANGED since_dret

\* An exception comes instead of the instruction.
Exception ==
    /\ hart' = IF hart.debug THEN [hart EXCEPT !.pc = DM_EXCEPTION]
                             ELSE [hart EXCEPT !.pc = MTVEC, !.mepc = hart.pc]
    /\ since_dret' = IF since_dret < 2 THEN since_dret + 1 ELSE since_dret

\* Debug mode is entered between two instructions; an ebreak in debug mode
\* starts the debugger's code again.
Halt ==
    /\ hart' = [hart EXCEPT !.pc = DM_HALT, !.debug = TRUE,
                            !.depc = IF hart.debug THEN @ ELSE hart.pc]
    /\ UNCHANGED since_dret

HartInit ==
    /\ hart = [pc |-> BOOT, lpcount |-> [k \in {0, 1} |-> 0], mepc |-> 0, depc |-> 0, debug |-> FALSE]
    /\ since_dret = 2
=============================================================================
