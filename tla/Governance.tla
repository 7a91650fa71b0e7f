----------------------------- MODULE Governance -----------------------------
(***************************************************************************)
(* The approval gate of the MCP gateway (core/gateway/governance.py) and   *)
(* the approval levels of the tool registry (core/gateway/registry.py).    *)
(*                                                                         *)
(* The gate is a pure function of the envelope: it reads no shared state,  *)
(* so one operator stands for it.  What the text of a message, an action   *)
(* or a payload says is reduced to what the gate asks of it: whether a     *)
(* prohibited claim occurs in the message, which scope words the           *)
(* normalised haystack holds, whether the message is over the size limit.  *)
(***************************************************************************)
EXTENDS Integers

CONSTANTS
    Agents,       \* AGENT_NAMES, the internal agents a call may target
    Targets,      \* every target name a caller may write, known or not
    Requesters,   \* requesting_agent names
    Tools,        \* action names a caller may write
    ToolLevel,    \* registered tool -> approval level
    WriteTools,   \* the registered tools marked write_capable
    ScopeWords,       \* words the scope checks compare
    RedScopes,    \* launch_gates.red.modules
    NyBlocked,    \* geo_blocks.new_york.blocked_activities
    Contents      \* (message, payload) pairs, as the cache key tells them apart

Levels == {"L0", "L1", "L2", "L3", "L4"}

\* Levels at which an unsigned call waits for a human.
HumanApprovalLevels == {"L3", "L4"}

\* What a caller may write in approval_level: a level or anything else.
DeclaredLevels == Levels \cup {"unlisted"}

\* Spellings whose normal form (trimmed, lower case, blanks and hyphens made
\* underscores) is the normal form of a New York code.
NyRegions == {"ny", "NY", "nyc", "New York", "new-york"}
Regions == NyRegions \cup {"none", "MA"}

ASSUME GovernanceAssumption ==
    /\ Agents \subseteq Targets
    /\ DOMAIN ToolLevel \subseteq Tools
    /\ ToolLevel \in [DOMAIN ToolLevel -> Levels]
    /\ WriteTools \subseteq DOMAIN ToolLevel
    /\ RedScopes \subseteq ScopeWords
    /\ NyBlocked \subseteq ScopeWords

\* A call as the gateway receives it.  declared is approval_level before
\* normalisation; scopes is the haystack of normalised words.
Envelope ==
    [ requester: Requesters, target: Targets, tool: Tools,
      declared: DeclaredLevels, humanRequired: BOOLEAN, signed: BOOLEAN,
      claim: BOOLEAN, scopes: SUBSET ScopeWords, region: Regions,
      oversize: BOOLEAN, content: Contents ]

-----------------------------------------------------------------------------

\* A level the registry does not list ranks as L0.
LevelRank(level) ==
    CASE level = "L1" -> 1
      [] level = "L2" -> 2
      [] level = "L3" -> 3
      [] level = "L4" -> 4
      [] OTHER -> 0

NormalizedLevel(env) ==
    IF env.declared \in Levels THEN env.declared ELSE "L0"

\* As if the caller's declaration were believed.
MutEffectiveLevel(tool, declared) == declared

\* The registered level is a floor under what the caller declares.
EffectiveLevel(tool, declared) ==
    IF tool \notin DOMAIN ToolLevel
    THEN IF declared \in Levels THEN declared ELSE "L0"
    ELSE IF LevelRank(ToolLevel[tool]) > LevelRank(declared)
         THEN ToolLevel[tool]
         ELSE declared

CallLevel(env) == EffectiveLevel(env.tool, NormalizedLevel(env))

-----------------------------------------------------------------------------

\* The checks that deny a call outright.
UnknownTarget(env) == env.target \notin Agents
ProhibitedClaim(env) == env.claim
RedGated(env) == env.scopes \cap RedScopes # {}
NyGeoBlocked(env) == env.region \in NyRegions /\ env.scopes \cap NyBlocked # {}
Oversize(env) == env.oversize

NeedsHuman(env) ==
    CallLevel(env) \in HumanApprovalLevels \/ env.humanRequired

Outcome(decision, level) == [decision |-> decision, level |-> level]

\* GovernanceGate.evaluate: the first check that fires decides.
Evaluate(env) ==
    IF UnknownTarget(env) THEN Outcome("BLOCK", "L0")
    ELSE IF ProhibitedClaim(env) \/ RedGated(env) THEN Outcome("BLOCK", "L4")
    ELSE IF NyGeoBlocked(env) THEN Outcome("BLOCK", "L3")
    ELSE IF Oversize(env) THEN Outcome("BLOCK", "L2")
    ELSE IF NeedsHuman(env) /\ ~env.signed
         THEN Outcome("PARK", CallLevel(env))
    ELSE Outcome("PERMIT", CallLevel(env))

\* gateway._cacheable: only the answers of read-only calls may be reused.
Cacheable(env) == CallLevel(env) = "L0" /\ env.tool \notin WriteTools
=============================================================================
