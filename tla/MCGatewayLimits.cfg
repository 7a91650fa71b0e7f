\* Rate limit and termination: concurrent calls of one requester, one let
\* through per minute, over the turn of a minute.
SPECIFICATION FairSpec
CONSTANTS
    Agents <- MCAgents
    Targets <- MCTargets
    Requesters <- MCRequesters
    Tools <- MCTools
    ToolLevel <- MCToolLevel
    WriteTools <- MCWriteTools
    ScopeWords <- MCScopeWords
    RedScopes <- MCRedScopes
    NyBlocked <- MCNyBlocked
    Contents <- MCContents
    KillScopes <- MCKillScopes
    Delegated <- MCDelegated
    Envelopes <- LimitsEnvelopes
    Calls = {c1, c2}
    NoCall = NoCall
    Admins = {}
    PerMinute = 1
    MaxWindow = 1
INVARIANTS
    RateBound
PROPERTIES
    EveryCallEnds
