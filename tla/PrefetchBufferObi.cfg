CONSTANTS
    DEPTH = 2
    PULP_OBI = FALSE
    COREV_PULP = TRUE
    WORDS = 8
    BranchTargets = {0, 5}
    LoopStarts = {2}
SPECIFICATION FairSpec
PROPERTIES HandsOverTheStream WordsKeepComing
INVARIANTS TypeOK CountIsOutstanding RoomForAnswers NeverTooManyFlushes HwlpEndIsRequested
