\* Is the global halt instant?  One call and one administrator.
SPECIFICATION Spec
CONSTANTS
    Agents <- MCAgents
    Targets <- MCTargets
    Requesters <- MCRequesters
    Tools <- MCTools
    ToolLevel <- MCToolLevel
    WriteTools <- MCWriteTools
    ScopeWords <- MCScopeWords
    RedScopes <- MCRedScopes
    NyBlocked <- MCNyBlocked
    Contents <- MCContents
    KillScopes <- MCKillScopes
    Delegated <- MCDelegated
    Envelopes <- MCEnvelopes
    Calls = {c1}
    NoCall = NoCall
    Admins = {a1}
    PerMinute = 2
    MaxWindow = 0
PROPERTIES
    GlobalHaltIsInstant
