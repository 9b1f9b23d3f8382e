--------------------------- MODULE TrapRegisters ---------------------------
(***************************************************************************)
(* The part of cv32e40p_cs_registers the order of instructions depends on: *)
(* the interrupt enables, mepc, depc and dcsr; and the register of         *)
(* cv32e40p_int_controller that holds the interrupts.  Machine mode only   *)
(* (PULP_SECURE = 0).                                                      *)
(***************************************************************************)
EXTENDS Integers

CONSTANTS
    IRQS,           \* interrupts enabled in mie
    STEPIE          \* dcsr.stepie: interrupts are taken while single-stepping

VARIABLES
    mie_q, mpie_q,      \* mstatus.mie, mstatus.mpie
    mepc_q, depc_q,
    debug_q,            \* dcsr.step, dcsr.ebreakm, the address of the trigger or -1
    debug_cause_q,      \* dcsr.cause
    irq_q               \* enabled interrupts, registered

trapVars == <<mie_q, mpie_q, mepc_q, depc_q, debug_q, debug_cause_q, irq_q>>

m_irq_enable == mie_q /\ ~(debug_q.step /\ ~STEPIE)

irq_req_ctrl == irq_q # {} /\ m_irq_enable

\* The wake-up looks at the interrupts before they are registered.
irq_wu_ctrl(irq) == irq # {}

\* A trap overrides mret, and both override a CSR write from EX; what is saved for
\* the debugger goes to depc and dcsr and leaves the rest alone.
TrapEdge(save, debug_save, cause, exception_pc, restore, write, irq) ==
    LET saves    == save # "none"
        traps    == saves /\ ~debug_save
        halts    == saves /\ debug_save
        restores == restore /\ ~saves
    IN  /\ irq_q' = irq
        /\ mie_q' = IF traps THEN FALSE ELSE IF restores THEN mpie_q
                    ELSE IF write.kind = "mie" THEN write.value ELSE mie_q
        /\ mpie_q' = IF traps THEN mie_q ELSE (restores \/ mpie_q)
        /\ mepc_q' = IF traps THEN exception_pc
                     ELSE IF write.kind = "skip" THEN write.value ELSE mepc_q
        /\ depc_q' = IF halts THEN exception_pc ELSE depc_q
        /\ debug_cause_q' = IF halts THEN cause ELSE debug_cause_q
        /\ debug_q' = IF write.kind = "dcsr" THEN write.value ELSE debug_q

TrapInit ==
    /\ mie_q = FALSE /\ mpie_q = FALSE /\ mepc_q = 0 /\ depc_q = 0
    /\ debug_q = [step |-> FALSE, ebreakm |-> FALSE, trigger |-> -1]
    /\ debug_cause_q = "none" /\ irq_q = {}
=============================================================================
