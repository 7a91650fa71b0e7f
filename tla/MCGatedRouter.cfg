\* Two router requests and one gateway connection on one audit log.
SPECIFICATION FairSpec
CONSTANTS
    Writers <- MCWriters
    Subjects <- MCSubjects
    Events <- MCEvents
    Workflows <- MCWorkflows
    Existing <- MCExisting
    InitialStatus <- MCInitialStatus
    RequestInputs <- MCRequestInputs
    Beacons = {b1}
    Requests = {r1, r2}
    NoWorkflow = NoWorkflow
    w1 = w1
    ghost = ghost
    MaxRows = 4
INVARIANTS
    TypeOK
    PredecessorIsEarlier
    SerialChainIsLinear
    StatusMatchesLedger
    AnswersAreAnchored
PROPERTIES
    EveryRequestEnds
CHECK_DEADLOCK FALSE
