CONSTANTS
    HALFWORDS = 20
    Wide <- RaceWide
    Program <- RaceProgram
    BOOT = 0
    IRQ_VECTOR = 14
    MTVEC = 14
    DM_HALT = 16
    DM_EXCEPTION = 16
    COUNTS = 4
    IRQS = {3}
    STEPIE = TRUE
    DEBUG_REQ = {FALSE, TRUE}
    DEBUG_SETTINGS <- StepSettings
SPECIFICATION Spec
INVARIANTS TypeOK
PROPERTIES StepsOneInstruction
