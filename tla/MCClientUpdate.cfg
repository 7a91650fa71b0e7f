\* One run of client_update.
SPECIFICATION Spec
CONSTANTS
    BreakerThreshold = 2
    Modules <- MCModules
    Status <- MCStatus
    Risk <- MCRisk
    Runs <- UpdateRuns
    Plan <- UpdatePlan
    payout1 = payout1
    payout2 = payout2
    invoice = invoice
    update = update
INVARIANTS
    OutboundNeedsApproval
CHECK_DEADLOCK FALSE
