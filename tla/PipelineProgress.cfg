SPECIFICATION ProgressSpec
CONSTANTS
    Registers <- MCRegisters
    NoAddr <- MCNoAddr
    Old <- MCOld
    NoJump <- MCNoJump
    Instructions <- SomeInstructions
PROPERTY InstructionsKeepIssuing
