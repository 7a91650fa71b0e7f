\* One request from New York for a blocked scope.
SPECIFICATION Spec
CONSTANTS
    Writers <- MCWriters
    Subjects <- MCSubjects
    Events <- MCEvents
    Workflows <- MCWorkflows
    Existing <- MCExisting
    InitialStatus <- MCInitialStatus
    RequestInputs <- MCNyInputs
    Beacons = {}
    Requests = {r1}
    NoWorkflow = NoWorkflow
    w1 = w1
    ghost = ghost
    MaxRows = 1
INVARIANTS
    NewYorkIsBlocked
CHECK_DEADLOCK FALSE
