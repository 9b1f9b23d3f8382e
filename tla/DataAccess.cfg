SPECIFICATION FairSpec
CONSTANTS
    PULP_OBI = FALSE
    BYTES = 8
    MAX_STORES = 2
    Accesses <- EveryAccess
INVARIANTS CountIsOutstanding RequestsAreStable ElwBusyWhileUnderWay
PROPERTIES KeepsProgramOrder LoadsAreDelivered
