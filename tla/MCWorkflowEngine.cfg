\* Three runs of two shipped workflows; a breaker opens after two failures.
SPECIFICATION Spec
CONSTANTS
    BreakerThreshold = 2
    Modules <- MCModules
    Status <- MCStatus
    Risk <- MCRisk
    Runs <- MCRuns
    Plan <- MCPlan
    payout1 = payout1
    payout2 = payout2
    invoice = invoice
    update = update
INVARIANTS
    TypeOK
    WaitingRunsAreListed
    ResultsFollowPlan
    BreakerMatchesHistory
    OnlyGrantedStepsBegin
PROPERTIES
    RealCallsNeedAClosedBreaker
    Refinement
CHECK_DEADLOCK FALSE
