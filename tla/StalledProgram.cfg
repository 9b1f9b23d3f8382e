SPECIFICATION FairSpec
CONSTANTS
    TEXT <- MCText
    MAX_STALLS = 3
    FIXED_STALLS = 2
INVARIANTS TypeOK CountdownIsAlive TextIsPrinted
PROPERTIES Exits
