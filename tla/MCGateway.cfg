\* Safety of the invocation pipeline: two concurrent calls, each any of the
\* envelopes, one administrator.
SPECIFICATION Spec
CONSTANTS
    Agents <- MCAgents
    Targets <- MCTargets
    Requesters <- MCRequesters
    Tools <- MCTools
    ToolLevel <- MCToolLevel
    WriteTools <- MCWriteTools
    ScopeWords <- MCScopeWords
    RedScopes <- MCRedScopes
    NyBlocked <- MCNyBlocked
    Contents <- MCContents
    KillScopes <- MCKillScopes
    Delegated <- MCDelegated
    Envelopes <- MCEnvelopes
    Calls = {c1, c2}
    NoCall = NoCall
    Admins = {a1}
    PerMinute = 2
    MaxWindow = 0
SYMMETRY CallSymmetry
VIEW PipelineView
INVARIANTS
    TypeOK
    AuditBeforeExecution
    LedgersMatchAnswer
    HumanGate
    HaltsNewCalls
    CachedAnswersAreAudited
PROPERTIES
    Refinement
