CONSTANTS
    HALFWORDS = 18
    Wide <- SmallWide
    Program <- CsrLoopProgram
    BOOT = 0
    IRQ_VECTOR = 12
    MTVEC = 12
    DM_HALT = 14
    DM_EXCEPTION = 14
    COUNTS = 4
    IRQS = {}
    STEPIE = FALSE
    DEBUG_REQ = {FALSE, TRUE}
    DEBUG_SETTINGS <- StepSettings
SPECIFICATION Spec
INVARIANTS TrapsArePrecise
