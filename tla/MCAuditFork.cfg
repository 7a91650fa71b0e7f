\* Two gateway connections append to the log: is it one chain?
SPECIFICATION Spec
CONSTANTS
    Writers <- MCWriters
    Subjects <- MCSubjects
    Events <- MCEvents
    Workflows <- MCWorkflows
    Existing <- MCExisting
    InitialStatus <- MCInitialStatus
    RequestInputs <- MCRequestInputs
    Beacons = {b1, b2}
    Requests = {}
    NoWorkflow = NoWorkflow
    w1 = w1
    ghost = ghost
    MaxRows = 3
INVARIANTS
    OneChain
CHECK_DEADLOCK FALSE
