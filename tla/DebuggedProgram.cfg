CONSTANTS
    HALFWORDS = 48
    Wide <- DebugWide
    Program <- DebugProgram
    BOOT = 0
    IRQ_VECTOR = 32
    MTVEC = 34
    DM_HALT = 38
    DM_EXCEPTION = 42
    COUNTS = 4
    IRQS = {}
    STEPIE = FALSE
    DEBUG_REQ = {FALSE, TRUE}
    DEBUG_SETTINGS <- DebugSettings
SPECIFICATION LiveSpec
INVARIANTS FollowsTheHart FlagsAreConsumed
PROPERTIES EntersDebugForItsCause DebuggerIsServed
