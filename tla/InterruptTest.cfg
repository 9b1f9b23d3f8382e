SPECIFICATION FairSpec
CONSTANTS
    WordBits = {26, 27, 31}
    MIN_CYCLES = 6
    MAX_CYCLES = 9
    RandomAnswers = {0, 3, 7, 31}
    MAX_STALL = 2
INVARIANTS TypeOK NoTestFails StatusIsNotShared
PROPERTIES ServesWhatIsPending Succeeds
