CONSTANTS
    HALFWORDS = 512
    Wide <- TestWide
    Program <- TestProgram
    BOOT = 38
    IRQ_VECTOR = 32
    MTVEC = 34
    DM_HALT = 30
    DM_EXCEPTION = 30
    COUNTS = 4
    IRQS = {3}
    STEPIE = FALSE
    DEBUG_REQ = {FALSE}
    DEBUG_SETTINGS <- OnlyRunning
    TESTS = 44
    Place <- TestPlace
    OUTER = 2
    INNER = 2
SPECIFICATION TestSpec
INVARIANTS FollowsTheHart LoopsAreLegal ResultIsExpected
PROPERTIES LoopsTurnInTime InterruptsAreTaken
