------------------------------ MODULE Gateway ------------------------------
(***************************************************************************)
(* The MCP gateway's invocation pipeline (core/gateway/gateway.py), run    *)
(* concurrently by one asyncio process for every request to /agent/invoke. *)
(*                                                                         *)
(* A call is suspended only at an await, so one action stands for the code *)
(* from the answer of one awaited operation to the start of the next: kill *)
(* switch read (global), kill switch read (agent), rate limiter, cache,    *)
(* audit pre-write, tool, audit post-write, call log, cache fill.  Every   *)
(* awaited operation may raise.  A Postgres insert that raises may have    *)
(* committed (the acknowledgement was lost) or not.  The process may stop  *)
(* at any moment and start again with the databases as they are; Redis may *)
(* come back without its keys.                                             *)
(*                                                                         *)
(* The rows of audit_logs and of mcp_call_log are kept per call, in the    *)
(* order of their inserts; how the rows of different calls are chained is  *)
(* the subject of AuditLog.                                                *)
(***************************************************************************)
EXTENDS Governance, KillSwitch, Sequences, FiniteSets

CONSTANTS
    Calls,       \* invocations
    Envelopes,   \* the envelopes callers send
    Delegated,   \* <<target, tool>> pairs served by in-process sub-agents
    PerMinute,   \* rate_limit_per_min
    MaxWindow,   \* bound: the last one-minute window of the run
    NoCall       \* an empty cache entry

ASSUME GatewayAssumption ==
    /\ Envelopes \subseteq Envelope
    /\ KillScopes = Targets \cup {Global}
    /\ Delegated \subseteq Agents \X Tools
    /\ PerMinute \in Nat
    /\ MaxWindow \in Nat
    /\ NoCall \notin Calls

VARIABLES
    env,       \* call -> its envelope
    pc,        \* call -> the operation it awaits, or how it ended
    audit,     \* call -> its rows of audit_logs, oldest first
    calllog,   \* call -> the statuses of its rows of mcp_call_log
    tool,      \* call -> whether its tool was asked, and has taken effect
    cache,     \* cache key -> the call whose result the entry holds
    served,    \* call -> the call whose cached result it found
    window,    \* the current one-minute window
    win,       \* call -> the window its rate limit key was made for
    count,     \* <<requester, window>> -> the Redis counter
    admitted,  \* call -> TRUE: it was let through on the current counters
    armed      \* call -> switches that cover it, engaged since it arrived

callVars == <<env, audit, calllog, tool>>
cacheVars == <<cache, served>>
rateVars == <<window, win, count, admitted>>
vars == <<flag, lastEvent, admin, env, pc, audit, calllog, tool,
          cache, served, window, win, count, admitted, armed>>

\* The operation a call in progress awaits.
Awaiting ==
    { "killGlobal", "killAgent", "blockAudit", "blockLog", "rate", "parkAudit",
      "parkLog", "cacheGet", "cacheLog", "prewrite", "denyLog", "executing",
      "postSuccess", "logSuccess", "cacheSet", "postFailed", "logFailed" }

\* Answered calls carry the status they returned; DENIED is FAILED with the
\* decision BLOCK.  A raised call got a server error, a dropped one no answer.
Answered == {"BLOCKED", "PARKED", "CACHED", "SUCCESS", "FAILED", "DENIED"}
Ended == Answered \cup {"raised", "dropped"}

AuditRows == {"PRE", "BLOCKED", "SUCCESS", "FAILED"}
LogRows == {"BLOCKED", "PARKED", "CACHED", "SUCCESS", "FAILED"}

CacheKey(e) == <<e.tool, e.content>>
CacheKeys == {CacheKey(e) : e \in Envelopes}
Windows == 0..MaxWindow
NoCounts == [k \in Requesters \X Windows |-> 0]
CoveringScopes(c) == {Global, env[c].target}

TypeOK ==
    /\ KillTypeOK
    /\ env \in [Calls -> Envelopes]
    /\ pc \in [Calls -> {"new"} \cup Awaiting \cup Ended]
    /\ audit \in [Calls -> Seq(AuditRows)]
    /\ calllog \in [Calls -> Seq(LogRows)]
    /\ tool \in [Calls -> {"idle", "sent", "done"}]
    /\ cache \in [CacheKeys -> Calls \cup {NoCall}]
    /\ served \in [Calls -> Calls \cup {NoCall}]
    /\ window \in Windows
    /\ win \in [Calls -> Windows]
    /\ count \in [Requesters \X Windows -> Nat]
    /\ admitted \in [Calls -> BOOLEAN]
    /\ armed \in [Calls -> SUBSET KillScopes]

Init ==
    /\ KillInit
    /\ env \in [Calls -> Envelopes]
    /\ pc = [c \in Calls |-> "new"]
    /\ audit = [c \in Calls |-> <<>>]
    /\ calllog = [c \in Calls |-> <<>>]
    /\ tool = [c \in Calls |-> "idle"]
    /\ cache = [k \in CacheKeys |-> NoCall]
    /\ served = [c \in Calls |-> NoCall]
    /\ window = 0
    /\ win = [c \in Calls |-> 0]
    /\ count = NoCounts
    /\ admitted = [c \in Calls |-> FALSE]
    /\ armed = [c \in Calls |-> {}]

-----------------------------------------------------------------------------
(* What the awaited operations do.                                         *)

Goto(c, stage) == pc' = [pc EXCEPT ![c] = stage]

\* AuditBeacon._append for call c, then the operation that follows.
AuditThen(c, row, next, raised) ==
    /\ \/ /\ audit' = [audit EXCEPT ![c] = Append(@, row)]
          /\ Goto(c, next)
       \/ /\ \/ audit' = [audit EXCEPT ![c] = Append(@, row)]
             \/ UNCHANGED audit
          /\ Goto(c, raised)
    /\ UNCHANGED <<killVars, env, calllog, tool, cacheVars, rateVars, armed>>

\* CallLog.record for call c, then the operation that follows.
LogThen(c, status, next, raised) ==
    /\ \/ /\ calllog' = [calllog EXCEPT ![c] = Append(@, status)]
          /\ Goto(c, next)
       \/ /\ \/ calllog' = [calllog EXCEPT ![c] = Append(@, status)]
             \/ UNCHANGED calllog
          /\ Goto(c, raised)
    /\ UNCHANGED <<killVars, env, audit, tool, cacheVars, rateVars, armed>>

\* Where a call goes once the rate limiter has let it through.
AfterAdmission(e) ==
    IF Evaluate(e).decision = "PARK" THEN "parkAudit"
    ELSE IF Cacheable(e) THEN "cacheGet" ELSE "prewrite"

-----------------------------------------------------------------------------
(* The invocation, one awaited operation after the other.                  *)

Arrive(c) ==
    /\ pc[c] = "new"
    /\ Goto(c, "killGlobal")
    /\ armed' = [armed EXCEPT ![c] = flag \cap CoveringScopes(c)]
    /\ UNCHANGED <<killVars, callVars, cacheVars, rateVars>>

\* The switch reads as engaged when Redis cannot be read.
KillGlobal(c) ==
    /\ pc[c] = "killGlobal"
    /\ \/ /\ Global \notin flag
          /\ Goto(c, "killAgent")
       \/ Goto(c, "blockAudit")     \* engaged, or the read raised
    /\ UNCHANGED <<killVars, callVars, cacheVars, rateVars, armed>>

\* As if the switch of the target agent were not looked at.
MutKillAgent(c) ==
    /\ pc[c] = "killAgent"
    /\ \/ /\ Evaluate(env[c]).decision # "BLOCK"
          /\ Goto(c, "rate")
          /\ win' = [win EXCEPT ![c] = window]
       \/ /\ Goto(c, "blockAudit")
          /\ UNCHANGED win
    /\ UNCHANGED <<killVars, callVars, cacheVars, window, count, admitted, armed>>

\* The gate runs, and the rate limiter makes its key from the clock, between
\* the answer of this read and the request to the rate limiter.
KillAgent(c) ==
    /\ pc[c] = "killAgent"
    /\ \/ /\ env[c].target \notin flag
          /\ Evaluate(env[c]).decision # "BLOCK"
          /\ Goto(c, "rate")
          /\ win' = [win EXCEPT ![c] = window]
       \/ /\ Goto(c, "blockAudit")  \* engaged, the read raised, or BLOCK
          /\ UNCHANGED win
    /\ UNCHANGED <<killVars, callVars, cacheVars, window, count, admitted, armed>>

\* _terminal: a failed post-write of a denied call is only logged.
BlockAudit(c) ==
    /\ pc[c] = "blockAudit"
    /\ AuditThen(c, "BLOCKED", "blockLog", "blockLog")

BlockLog(c) ==
    /\ pc[c] = "blockLog"
    /\ LogThen(c, "BLOCKED", "BLOCKED", "raised")

\* As if the count were compared before it is incremented.
MutRateLimit(c) ==
    LET key == <<env[c].requester, win[c]>>
    IN  /\ pc[c] = "rate"
        /\ count' = [count EXCEPT ![key] = @ + 1]
        /\ IF count[key] <= PerMinute
           THEN /\ Goto(c, AfterAdmission(env[c]))
                /\ admitted' = [admitted EXCEPT ![c] = TRUE]
           ELSE /\ Goto(c, "blockAudit")
                /\ UNCHANGED admitted
        /\ UNCHANGED <<killVars, callVars, cacheVars, window, win, armed>>

\* INCR answers the new count.  The first of a window is followed by an awaited
\* EXPIRE, which the decision does not depend on.  An error of either is not
\* caught: the caller gets a server error, and the increment may have happened.
RateLimit(c) ==
    LET key == <<env[c].requester, win[c]>>
    IN  /\ pc[c] = "rate"
        /\ \/ /\ count' = [count EXCEPT ![key] = @ + 1]
              /\ count'[key] <= PerMinute
              /\ Goto(c, AfterAdmission(env[c]))
              /\ admitted' = [admitted EXCEPT ![c] = TRUE]
           \/ /\ count' = [count EXCEPT ![key] = @ + 1]
              /\ count'[key] > PerMinute
              /\ Goto(c, "blockAudit")
              /\ UNCHANGED admitted
           \/ /\ \/ count' = [count EXCEPT ![key] = @ + 1]
                 \/ UNCHANGED count
              /\ Goto(c, "raised")
              /\ UNCHANGED admitted
        /\ UNCHANGED <<killVars, callVars, cacheVars, window, win, armed>>

ParkAudit(c) ==
    /\ pc[c] = "parkAudit"
    /\ AuditThen(c, "PRE", "parkLog", "raised")

\* As if a parked call were logged under a status that is not one of the five.
MutParkLog(c) ==
    /\ pc[c] = "parkLog"
    /\ LogThen(c, "QUEUED", "PARKED", "raised")

ParkLog(c) ==
    /\ pc[c] = "parkLog"
    /\ LogThen(c, "PARKED", "PARKED", "raised")

\* The cached result of a call is no JSON object: its own call, which reached
\* its cache fill, could not be answered with it (CacheSet).
NotAnObject(origin) == pc[origin] \in {"postFailed", "logFailed", "FAILED", "raised"}

\* Errors of the cache are swallowed and read as a miss.  The result that was
\* found is asked for its truth label, which only an object has: any other
\* raises here, uncaught.
CacheGet(c) ==
    LET origin == cache[CacheKey(env[c])]
    IN  /\ pc[c] = "cacheGet"
        /\ \/ /\ origin # NoCall
              /\ ~NotAnObject(origin)
              /\ served' = [served EXCEPT ![c] = origin]
              /\ Goto(c, "cacheLog")
           \/ /\ origin # NoCall
              /\ NotAnObject(origin)
              /\ Goto(c, "raised")
              /\ UNCHANGED served
           \/ /\ Goto(c, "prewrite")
              /\ UNCHANGED served
        /\ UNCHANGED <<killVars, callVars, cache, rateVars, armed>>

CacheLog(c) ==
    /\ pc[c] = "cacheLog"
    /\ LogThen(c, "CACHED", "CACHED", "raised")

\* As if a failed pre-write were logged and passed over.
MutPrewrite(c) ==
    /\ pc[c] = "prewrite"
    /\ \/ audit' = [audit EXCEPT ![c] = Append(@, "PRE")]
       \/ UNCHANGED audit
    /\ tool' = [tool EXCEPT ![c] = "sent"]
    /\ Goto(c, "executing")
    /\ UNCHANGED <<killVars, env, calllog, cacheVars, rateVars, armed>>

\* A pre-write that raises is logged and the call refused; only one that is
\* known to have committed is followed by the request to the tool.
Prewrite(c) ==
    /\ pc[c] = "prewrite"
    /\ \/ /\ audit' = [audit EXCEPT ![c] = Append(@, "PRE")]
          /\ tool' = [tool EXCEPT ![c] = "sent"]
          /\ Goto(c, "executing")
       \/ /\ \/ audit' = [audit EXCEPT ![c] = Append(@, "PRE")]
             \/ UNCHANGED audit
          /\ Goto(c, "denyLog")
          /\ UNCHANGED tool
    /\ UNCHANGED <<killVars, env, calllog, cacheVars, rateVars, armed>>

DenyLog(c) ==
    /\ pc[c] = "denyLog"
    /\ LogThen(c, "FAILED", "DENIED", "raised")

-----------------------------------------------------------------------------
(* The tool and what follows its answer.                                   *)

\* A tool behind HTTP takes effect at any time after it was asked, also after
\* the gateway has given up on it; a sub-agent runs in the gateway's process.
ToolEffect(c) ==
    /\ tool[c] = "sent"
    /\ <<env[c].target, env[c].tool>> \in Delegated => pc[c] = "executing"
    /\ tool' = [tool EXCEPT ![c] = "done"]
    /\ UNCHANGED <<killVars, pc, env, audit, calllog, cacheVars, rateVars, armed>>

\* As if the result were cached before its success is audited and logged.
MutToolReturns(c) ==
    /\ pc[c] = "executing"
    /\ tool[c] = "done"
    /\ Goto(c, "postSuccess")
    /\ cache' = [cache EXCEPT ![CacheKey(env[c])] = c]
    /\ UNCHANGED <<killVars, callVars, served, rateVars, armed>>

ToolReturns(c) ==
    /\ pc[c] = "executing"
    /\ tool[c] = "done"
    /\ Goto(c, "postSuccess")
    /\ UNCHANGED <<killVars, callVars, cacheVars, rateVars, armed>>

\* As if the HTTP client had no timeout.
MutToolRaises(c) ==
    /\ pc[c] = "executing"
    /\ tool[c] = "done"
    /\ <<env[c].target, env[c].tool>> \notin Delegated
    /\ Goto(c, "postFailed")
    /\ UNCHANGED <<killVars, callVars, cacheVars, rateVars, armed>>

\* As if a tool that timed out were tried once more.
MutRetry(c) ==
    /\ pc[c] = "executing"
    /\ <<env[c].target, env[c].tool>> \notin Delegated
    /\ Goto(c, "prewrite")
    /\ UNCHANGED <<killVars, callVars, cacheVars, rateVars, armed>>

\* An HTTP error or a timeout; the tool may have run, run later or never run.
\* The in-process sub-agents of the supervisor do not raise.
ToolRaises(c) ==
    /\ pc[c] = "executing"
    /\ <<env[c].target, env[c].tool>> \notin Delegated
    /\ Goto(c, "postFailed")
    /\ UNCHANGED <<killVars, callVars, cacheVars, rateVars, armed>>

\* As if a failed post-write were only logged, as _terminal does.
MutPostSuccess(c) ==
    /\ pc[c] = "postSuccess"
    /\ AuditThen(c, "SUCCESS", "logSuccess", "logSuccess")

\* The except clause around the tool also catches what the two writes after
\* it raise: the call is then recorded as FAILED although its tool returned.
PostSuccess(c) ==
    /\ pc[c] = "postSuccess"
    /\ AuditThen(c, "SUCCESS", "logSuccess", "postFailed")

LogSuccess(c) ==
    /\ pc[c] = "logSuccess"
    /\ LogThen(c, "SUCCESS",
               IF Cacheable(env[c]) THEN "cacheSet" ELSE "SUCCESS",
               "postFailed")

\* Errors of the cache are swallowed.  The answer that is then built takes an
\* object only: any other JSON an HTTP tool answered raises inside the try, and
\* the call is recorded as FAILED over its SUCCESS rows and its cache entry.
CacheSet(c) ==
    /\ pc[c] = "cacheSet"
    /\ \/ cache' = [cache EXCEPT ![CacheKey(env[c])] = c]
       \/ UNCHANGED cache
    /\ \/ Goto(c, "SUCCESS")
       \/ /\ <<env[c].target, env[c].tool>> \notin Delegated
          /\ Goto(c, "postFailed")
    /\ UNCHANGED <<killVars, callVars, served, rateVars, armed>>

PostFailed(c) ==
    /\ pc[c] = "postFailed"
    /\ AuditThen(c, "FAILED", "logFailed", "raised")

LogFailed(c) ==
    /\ pc[c] = "logFailed"
    /\ LogThen(c, "FAILED", "FAILED", "raised")

-----------------------------------------------------------------------------
(* Administrators and the environment.                                     *)

EngageSwitch(a, s) ==
    /\ Engage(a, s)
    /\ UNCHANGED <<callVars, pc, cacheVars, rateVars, armed>>

ReleaseSwitch(a, s) ==
    /\ Release(a, s)
    /\ armed' = [c \in Calls |-> armed[c] \ {s}]
    /\ UNCHANGED <<callVars, pc, cacheVars, rateVars>>

RecordSwitch(a) ==
    /\ Record(a)
    /\ UNCHANGED <<callVars, pc, cacheVars, rateVars, armed>>

ClockTick ==
    /\ window < MaxWindow
    /\ window' = window + 1
    /\ UNCHANGED <<killVars, callVars, pc, cacheVars, win, count, admitted, armed>>

CacheExpire(k) ==
    /\ cache[k] # NoCall
    /\ cache' = [cache EXCEPT ![k] = NoCall]
    /\ UNCHANGED <<killVars, callVars, pc, served, rateVars, armed>>

\* The process stops and starts again.  An awaited write has committed or not
\* by then, which are the states before and after its step.  Cache keys are
\* made with a hash that differs in every process: old entries are not found.
Crash ==
    /\ \/ \E c \in Calls : pc[c] \in Awaiting
       \/ \E a \in Admins : admin[a] # Idle
    /\ pc' = [c \in Calls |-> IF pc[c] \in Awaiting THEN "dropped" ELSE pc[c]]
    /\ admin' = [a \in Admins |-> Idle]
    /\ cache' = [k \in CacheKeys |-> NoCall]
    /\ UNCHANGED <<flag, lastEvent, callVars, served, rateVars, armed>>

\* Redis restarts without its keys: switches, counters and cache are gone.
RedisLosesKeys ==
    /\ flag' = {}
    /\ cache' = [k \in CacheKeys |-> NoCall]
    /\ count' = NoCounts
    /\ admitted' = [c \in Calls |-> FALSE]
    /\ armed' = [c \in Calls |-> {}]
    /\ UNCHANGED <<lastEvent, admin, callVars, pc, served, window, win>>

-----------------------------------------------------------------------------

\* What the gateway does for a call that has arrived.
Progress(c) ==
    \/ KillGlobal(c) \/ KillAgent(c) \/ BlockAudit(c) \/ BlockLog(c)
    \/ RateLimit(c) \/ ParkAudit(c) \/ ParkLog(c)
    \/ CacheGet(c) \/ CacheLog(c) \/ Prewrite(c) \/ DenyLog(c)
    \/ ToolReturns(c) \/ ToolRaises(c)
    \/ PostSuccess(c) \/ LogSuccess(c) \/ CacheSet(c)
    \/ PostFailed(c) \/ LogFailed(c)

Next ==
    \/ \E c \in Calls : Arrive(c) \/ Progress(c) \/ ToolEffect(c)
    \/ \E a \in Admins :
          \/ \E s \in KillScopes : EngageSwitch(a, s) \/ ReleaseSwitch(a, s)
          \/ RecordSwitch(a)
    \/ ClockTick
    \/ \E k \in CacheKeys : CacheExpire(k)
    \/ Crash
    \/ RedisLosesKeys

Spec == Init /\ [][Next]_vars

\* Only the wait for a tool is bounded by the code: the HTTP client raises when
\* nothing arrives within its timeout, and a sub-agent's handler returns.  The
\* clients of Postgres and Redis are made without a timeout (app.py:34-35), so
\* nothing is assumed of what they are asked.
FairSpec ==
    /\ Spec
    /\ \A c \in Calls :
          /\ WF_vars(pc[c] = "executing" /\ Progress(c))
          /\ WF_vars(ToolEffect(c) /\ <<env[c].target, env[c].tool>> \in Delegated)

-----------------------------------------------------------------------------
(* Properties.                                                             *)

Contains(rows, row) == \E i \in DOMAIN rows : rows[i] = row

\* No tool is asked to do anything before the pre-write of its call has
\* committed, and no SUCCESS is audited for a tool that has had no effect:
\* the ledger never claims more than happened and never less than was begun,
\* whatever writes fail and wherever the process stops.
AuditBeforeExecution ==
    \A c \in Calls :
        /\ tool[c] # "idle" => audit[c] # <<>> /\ audit[c][1] = "PRE"
        /\ Contains(audit[c], "SUCCESS") => tool[c] = "done"

\* What an answered caller was told fixes what the tool was asked and, up to
\* the failures listed here, both ledgers.  A denial is in the call log, and in
\* audit_logs unless that write failed, which _terminal swallows; a call whose
\* pre-write failed has no row there or a PRE.  A cached answer has none: it is
\* given before the pre-write.  FAILED may follow the SUCCESS rows of a tool
\* that returned, in one ledger or both, but never a SUCCESS of the call log
\* that audit_logs lacks.
LedgersMatchAnswer ==
    \A c \in Calls :
        /\ pc[c] \in {"BLOCKED", "DENIED", "PARKED", "CACHED"} => tool[c] = "idle"
        /\ pc[c] = "BLOCKED" =>
              /\ audit[c] \in {<<>>, <<"BLOCKED">>}
              /\ calllog[c] = <<"BLOCKED">>
        /\ pc[c] = "DENIED" =>
              /\ audit[c] \in {<<>>, <<"PRE">>}
              /\ calllog[c] = <<"FAILED">>
        /\ pc[c] = "PARKED" =>
              /\ audit[c] = <<"PRE">>
              /\ calllog[c] = <<"PARKED">>
        /\ pc[c] = "CACHED" =>
              /\ audit[c] = <<>>
              /\ calllog[c] = <<"CACHED">>
        /\ pc[c] = "SUCCESS" =>
              /\ tool[c] = "done"
              /\ audit[c] = <<"PRE", "SUCCESS">>
              /\ calllog[c] = <<"SUCCESS">>
        /\ pc[c] = "FAILED" =>
              /\ tool[c] # "idle"
              /\ audit[c] \in {<<"PRE", "FAILED">>, <<"PRE", "SUCCESS", "FAILED">>}
              /\ calllog[c] \in {<<"FAILED">>, <<"SUCCESS", "FAILED">>}
              /\ calllog[c] # <<"FAILED">> => audit[c] # <<"PRE", "FAILED">>

\* A human must sign: the tool is registered at L3 or L4, whatever level the
\* caller wrote, or the caller declared such a level or asked for approval.
RequiresSignature(e) ==
    \/ e.tool \in DOMAIN ToolLevel /\ ToolLevel[e.tool] \in HumanApprovalLevels
    \/ e.declared \in HumanApprovalLevels
    \/ e.humanRequired

\* No call that requires a human signature and has none reaches its tool or
\* is given another call's result.
HumanGate ==
    \A c \in Calls :
        (tool[c] # "idle" \/ served[c] # NoCall) /\ RequiresSignature(env[c])
            => env[c].signed

\* A call that arrives while a switch covering it is engaged, and that finds
\* it not released since, runs nothing and is given nothing, whatever is
\* engaged or released for other scopes between its two reads.
HaltsNewCalls ==
    \A c \in Calls :
        armed[c] # {} => tool[c] = "idle" /\ served[c] = NoCall

\* On one set of Redis counters no requester has more than PerMinute calls
\* let through per window, however the increments of its calls interleave
\* with each other and with the turn of the minute.
RateBound ==
    \A r \in Requesters, w \in Windows :
        Cardinality({c \in Calls : /\ admitted[c]
                                   /\ env[c].requester = r
                                   /\ win[c] = w}) <= PerMinute

\* A result given from the cache is that of a call with the same action and
\* content whose tool ran and whose success is in both ledgers, and it is
\* never the result of a tool that writes.
CachedAnswersAreAudited ==
    \A c \in Calls :
        served[c] # NoCall =>
            LET origin == served[c]
            IN  /\ tool[origin] = "done"
                /\ Contains(audit[origin], "SUCCESS")
                /\ Contains(calllog[origin], "SUCCESS")
                /\ CacheKey(env[origin]) = CacheKey(env[c])
                /\ env[origin].tool \notin WriteTools

\* Calls and envelopes as GovernedCalls sees them.
Status == [c \in Calls |-> IF pc[c] \in Awaiting THEN "open" ELSE pc[c]]
Halted == {c \in Calls : armed[c] # {}}
Verdict(e) == Evaluate(e).decision
Reads(e) == e.tool \notin WriteTools
Local(e) == <<e.target, e.tool>> \in Delegated

Abstract ==
    INSTANCE GovernedCalls
        WITH status <- Status, trail <- audit, given <- served, halted <- Halted,
             Question <- CacheKey

\* The pipeline with its stages, cache, counters and failures keeps the
\* promise of GovernedCalls: a tool is asked at most once and with its row, a
\* tool in the process has no effect behind the answer, the rows of a call come
\* in one order, and the answer agrees with them and is final, whatever other
\* calls, administrators, lost writes and restarts come between.
Refinement == Abstract!Spec

\* The stages at which a call waits for Postgres or Redis.
AtServer == Awaiting \ {"executing"}

\* A call that has arrived ends, unless one of its requests to Postgres or
\* Redis is never answered: no tool holds it for ever and its failures never
\* send it round its stages again.
EveryCallEnds ==
    \A c \in Calls : pc[c] \in Awaiting ~> pc[c] \in Ended \/ [](pc[c] \in AtServer)

\* killswitch.py:1 calls the switch an "instant" halt of execution whose
\* global scope "blocks ALL tool execution": no tool is asked while the
\* global flag is set.
GlobalHaltIsInstant ==
    [][\A c \in Calls :
          tool[c] = "idle" /\ tool'[c] = "sent" => Global \notin flag]_vars
=============================================================================
