SPECIFICATION Spec
CONSTANTS
    Registers <- MCRegisters
    NoAddr <- MCNoAddr
    Old <- MCOld
    NoJump <- MCNoJump
    Instructions <- EveryInstruction
INVARIANTS OperandsAreNewest NothingIsLost SlotsMatchFpu AccessesAreMadeOnce CsrWaitsForFlags
