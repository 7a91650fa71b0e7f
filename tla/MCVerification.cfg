\* Two verifications and two transitions by two roles; two providers.
SPECIFICATION Spec
CONSTANTS
    Providers = {helius, birdeye}
    Verifies = {r1, r2}
    Transitions = {t1, t2}
    Roles = {"admin", "contractor"}
    Configured = {helius, birdeye}
    Nobody = Nobody
    FailThreshold = 1
    ResetAfter = 1
    MaxTime = 2
SYMMETRY Sym
INVARIANTS
    TypeOK
    NoLogNoGo
    FailClosed
    LogTellsChanges
PROPERTIES
    TransitionsAreAllowed
CHECK_DEADLOCK FALSE
