--------------------------- MODULE GovernedProofs ---------------------------
(***************************************************************************)
(* The gateway implements GovernedCalls, for any number of calls,          *)
(* administrators, tools and agents, any registry and any limit.           *)
(*                                                                         *)
(* PathInv adds to the invariants of GatewayProofs what the abstract steps *)
(* ask of the stage a call is at.  A row of audit_logs is a Record, the    *)
(* end of a call an Answer, and what only moves a call from one stage to   *)
(* another a stutter.                                                      *)
(***************************************************************************)
EXTENDS GatewayProofs

PathOf(c) ==
    /\ pc[c] = "new" => armed[c] = {}
    /\ served[c] # NoCall => pc[c] \in {"cacheLog", "CACHED", "raised", "dropped"}
    /\ pc[c] = "cacheLog" => served[c] # NoCall
    /\ pc[c] \in {"parkAudit", "parkLog"} => Evaluate(env[c]).decision = "PARK"
    /\ pc[c] = "postFailed" => (Local(env[c]) => tool[c] = "done")

PathInv == \A c \in Calls : PathOf(c)

\* PathInv is inductive.
LEMMA PathStep ==
  ASSUME TypeOK, LedgerInv, PathInv, [Next]_vars
  PROVE  PathInv'
<1>1. ASSUME NEW c \in Calls, CallStep(c) PROVE PathOf(c)'
  <2> PathOf(c) /\ LedgerOf(c)
    BY DEF PathInv, LedgerInv
  <2> USE DEF TypeOK, Goto, PathOf, Local, killVars, callVars, cacheVars, rateVars
  <2>1. CASE Arrive(c)
    BY <2>1 DEF Arrive
  <2>2. CASE KillGlobal(c) \/ KillAgent(c)
    BY <2>2 DEF KillGlobal, KillAgent
  <2>3. CASE BlockAudit(c) \/ ParkAudit(c)
    BY <2>3 DEF BlockAudit, ParkAudit, AuditThen
  <2>4. CASE PostSuccess(c)
    BY <2>4 DEF PostSuccess, AuditThen, LedgerOf
  <2>5. CASE PostFailed(c)
    BY <2>5 DEF PostFailed, AuditThen
  <2>6. CASE BlockLog(c) \/ ParkLog(c) \/ CacheLog(c) \/ DenyLog(c) \/ LogFailed(c)
    BY <2>6 DEF BlockLog, ParkLog, CacheLog, DenyLog, LogFailed, LogThen
  <2>7. CASE LogSuccess(c)
    BY <2>7 DEF LogSuccess, LogThen, LedgerOf
  <2>8. CASE RateLimit(c)
    BY <2>8 DEF RateLimit, AfterAdmission
  <2>9. CASE CacheGet(c)
    BY <2>9 DEF CacheGet
  <2>10. CASE Prewrite(c) \/ CacheSet(c)
    BY <2>10 DEF Prewrite, CacheSet, LedgerOf
  <2>11. CASE ToolReturns(c) \/ ToolRaises(c) \/ ToolEffect(c)
    BY <2>11 DEF ToolReturns, ToolRaises, ToolEffect, LedgerOf
  <2> QED BY <1>1, <2>1, <2>2, <2>3, <2>4, <2>5, <2>6, <2>7, <2>8, <2>9, <2>10, <2>11
          DEF CallStep, Progress
<1>2. ASSUME NEW c \in Calls, CallStep(c), NEW d \in Calls, d # c PROVE PathOf(d)'
  BY <1>2, OtherCalls DEF PathInv, PathOf, SameFor
<1>3. ASSUME OtherStep, NEW c \in Calls PROVE PathOf(c)'
  BY <1>3, Environment DEF PathInv, PathOf
<1> QED BY <1>1, <1>2, <1>3, StepCases DEF PathInv

-----------------------------------------------------------------------------
(* How the steps of the pipeline look from GovernedCalls.                  *)

views == <<env, Status, audit, tool, served, Halted>>

\* The end of a call is its status; any other stage but the first is "open".
LEMMA StatusMoves ==
  ASSUME TypeOK, NEW c \in Calls, NEW stage, Goto(c, stage)
  PROVE  Status' = [Status EXCEPT ![c] = IF stage \in Awaiting THEN "open" ELSE stage]
<1>1. pc' = [pc EXCEPT ![c] = stage] /\ pc \in [Calls -> {"new"} \cup Awaiting \cup Ended]
  BY DEF Goto, TypeOK
<1> QED BY <1>1 DEF Status

\* Between two stages of a call its status does not change.
LEMMA StatusStays ==
  ASSUME TypeOK, NEW c \in Calls, NEW stage \in Awaiting, pc[c] \in Awaiting, Goto(c, stage)
  PROVE  Status' = Status
<1>1. Status' = [Status EXCEPT ![c] = "open"]
  BY StatusMoves
<1>2. Status[c] = "open"
  BY DEF Status
<1> QED BY <1>1, <1>2 DEF Status

\* What the two first values of a status stand for.
LEMMA OpenStatus ==
  ASSUME TypeOK, NEW c \in Calls
  PROVE  /\ Status[c] = "open" <=> pc[c] \in Awaiting
         /\ Status[c] = "new" <=> pc[c] = "new"
BY DEF Status, TypeOK, Awaiting, Ended, Answered

\* A stage that touches neither the trail nor the tool is a stutter.
LEMMA MovesOn ==
  ASSUME TypeOK, NEW c \in Calls, NEW stage \in Awaiting, pc[c] \in Awaiting, Goto(c, stage),
         UNCHANGED <<env, audit, tool, served, armed>>
  PROVE  UNCHANGED views
BY StatusStays DEF views, Halted

\* A write of the audit log is a Record, or is lost; only a write that raises
\* may end the call.
LEMMA WritesRow ==
  ASSUME TypeOK, NEW c \in Calls, pc[c] \in Awaiting, NEW row, NEW next \in Awaiting,
         NEW raised \in Awaiting \cup {"raised"}, AuditThen(c, row, next, raised)
  PROVE  \/ Abstract!Record(c, row)
         \/ UNCHANGED views
         \/ /\ Status' = [Status EXCEPT ![c] = "raised"]
            /\ UNCHANGED <<env, audit, tool, served, Halted>>
<1>1. UNCHANGED <<env, tool, served, armed>>
  BY DEF AuditThen, cacheVars
<1>2. Halted' = Halted
  BY <1>1 DEF Halted
<1>3. /\ audit' = [audit EXCEPT ![c] = Append(@, row)] \/ audit' = audit
      /\ Goto(c, next) \/ Goto(c, raised)
      /\ audit' = audit => Goto(c, raised) \/ audit' = [audit EXCEPT ![c] = Append(@, row)]
  BY DEF AuditThen
<1>4. "raised" \notin Awaiting
  BY DEF Awaiting
<1>5. Status' = Status \/ Status' = [Status EXCEPT ![c] = "raised"]
  <2>1. CASE Goto(c, next)
    BY <2>1, StatusStays
  <2>2. CASE Goto(c, raised) /\ raised \in Awaiting
    BY <2>2, StatusStays
  <2>3. CASE Goto(c, raised) /\ raised = "raised"
    BY <1>4, <2>3, StatusMoves
  <2> QED BY <1>3, <2>1, <2>2, <2>3
<1>6. CASE audit' = [audit EXCEPT ![c] = Append(@, row)]
  BY <1>1, <1>2, <1>5, <1>6 DEF Abstract!Record
<1>7. CASE audit' = audit
  BY <1>1, <1>2, <1>5, <1>7 DEF views
<1> QED BY <1>3, <1>6, <1>7

\* A call that ends as the abstract call may end is answered.
LEMMA Ends ==
  ASSUME TypeOK, NEW c \in Calls, pc[c] \in Awaiting, NEW answer \in Abstract!Answers,
         Goto(c, answer), Abstract!May(c, answer),
         UNCHANGED <<env, audit, tool, served, armed>>
  PROVE  Abstract!Next
<1>1. Status[c] = "open"
  BY OpenStatus
<1>2. answer \notin Awaiting
  BY DEF Abstract!Answers, Awaiting
<1>3. Status' = [Status EXCEPT ![c] = answer]
  BY <1>2, StatusMoves
<1>4. Halted' = Halted
  BY DEF Halted
<1>5. Abstract!Answer(c, answer)
  BY <1>1, <1>3, <1>4 DEF Abstract!Answer
<1> QED BY <1>5 DEF Abstract!Next

\* An error may end a call anywhere.
LEMMA EndsInError ==
  ASSUME TypeOK, NEW c \in Calls, pc[c] \in Awaiting,
         Status' = [Status EXCEPT ![c] = "raised"],
         UNCHANGED <<env, audit, tool, served, Halted>>
  PROVE  Abstract!Next
<1>1. Status[c] = "open"
  BY OpenStatus
<1>2. Abstract!May(c, "raised") /\ "raised" \in Abstract!Answers
  BY DEF Abstract!May, Abstract!Answers
<1>3. Abstract!Answer(c, "raised")
  BY <1>1, <1>2 DEF Abstract!Answer
<1> QED BY <1>2, <1>3 DEF Abstract!Next

\* The end of a call log write: the call goes on, is answered, or raises.
LEMMA LogsEnd ==
  ASSUME TypeOK, NEW c \in Calls, pc[c] \in Awaiting, NEW row,
         NEW next \in Awaiting \cup Abstract!Answers, NEW raised \in Awaiting \cup {"raised"},
         LogThen(c, row, next, raised),
         next \in Abstract!Answers => Abstract!May(c, next)
  PROVE  Abstract!Next \/ UNCHANGED views
<1>1. /\ Goto(c, next) \/ Goto(c, raised)
      /\ UNCHANGED <<env, audit, tool, served, armed>>
  BY DEF LogThen, cacheVars
<1>2. Abstract!May(c, "raised") /\ "raised" \in Abstract!Answers
  BY DEF Abstract!May, Abstract!Answers
<1>3. CASE Goto(c, next)
  BY <1>1, <1>3, MovesOn, Ends
<1>4. CASE Goto(c, raised)
  BY <1>1, <1>2, <1>4, MovesOn, Ends
<1> QED BY <1>1, <1>3, <1>4

-----------------------------------------------------------------------------
(* Each step of the pipeline is a step of GovernedCalls, or a stutter.     *)

GovernedInv ==
    TypeOK /\ LedgerInv /\ GateInv /\ SwitchInv /\ CacheInv /\ PathInv

\* Before its first write nothing has been done for a call.
LEMMA NothingDone ==
  ASSUME GovernedInv, NEW c \in Calls,
         pc[c] \in {"blockAudit", "parkAudit", "cacheGet", "prewrite"}
  PROVE  Abstract!Untouched(c)
<1>1. PathOf(c) /\ LedgerOf(c) /\ Status[c] = "open"
  BY OpenStatus DEF GovernedInv, PathInv, LedgerInv, Awaiting
<1>2. tool[c] = "idle" /\ audit[c] = <<>> /\ served[c] = NoCall
  BY <1>1 DEF PathOf, LedgerOf, Unwritten
<1> QED BY <1>1, <1>2 DEF Abstract!Untouched

\* A call that arrives may find a switch engaged.
LEMMA Arrives ==
  ASSUME GovernedInv, NEW c \in Calls, Arrive(c)
  PROVE  Abstract!Next
<1>1. /\ pc[c] = "new" /\ Goto(c, "killGlobal")
      /\ UNCHANGED <<env, audit, tool, served>>
  BY DEF Arrive, callVars, cacheVars
<1>2. Status[c] = "new" /\ Status' = [Status EXCEPT ![c] = "open"]
  BY <1>1, StatusMoves, OpenStatus DEF GovernedInv, Awaiting
<1>3. Halted' \in {Halted, Halted \cup {c}}
  <2>1. armed[c] = {} /\ armed \in [Calls -> SUBSET KillScopes]
    BY <1>1 DEF GovernedInv, PathInv, PathOf, TypeOK
  <2>2. \A d \in Calls \ {c} : armed'[d] = armed[d]
    BY <2>1 DEF Arrive
  <2> QED BY <2>1, <2>2 DEF Halted
<1>4. Abstract!Arrive(c)
  BY <1>1, <1>2, <1>3 DEF Abstract!Arrive
<1> QED BY <1>4 DEF Abstract!Next

\* The reads of the switch, the gate and the tool's answer decide where a call
\* goes on; the rate limiter may also raise.
LEMMA Decides ==
  ASSUME GovernedInv, NEW c \in Calls,
         KillGlobal(c) \/ KillAgent(c) \/ RateLimit(c) \/ ToolReturns(c) \/ ToolRaises(c)
  PROVE  Abstract!Next \/ UNCHANGED views
<1>1. UNCHANGED <<env, audit, tool, served, armed>> /\ pc[c] \in Awaiting
  BY DEF KillGlobal, KillAgent, RateLimit, ToolReturns, ToolRaises, callVars, cacheVars, Awaiting
<1>2. \/ \E stage \in Awaiting : Goto(c, stage)
      \/ Goto(c, "raised")
  BY DEF KillGlobal, KillAgent, RateLimit, AfterAdmission, ToolReturns, ToolRaises, Awaiting
<1>3. CASE \E stage \in Awaiting : Goto(c, stage)
  BY <1>1, <1>3, MovesOn DEF GovernedInv
<1>4. CASE Goto(c, "raised")
  <2>1. Abstract!May(c, "raised") /\ "raised" \in Abstract!Answers
    BY DEF Abstract!May, Abstract!Answers
  <2> QED BY <1>1, <1>4, <2>1, Ends DEF GovernedInv
<1> QED BY <1>2, <1>3, <1>4

\* A call that is denied or parked gets its row, and no tool is asked.
LEMMA TurnsDown ==
  ASSUME GovernedInv, NEW c \in Calls, BlockAudit(c) \/ ParkAudit(c)
  PROVE  Abstract!Next \/ UNCHANGED views
<1>1. Abstract!Untouched(c) /\ pc[c] \in Awaiting /\ TypeOK
  BY NothingDone DEF BlockAudit, ParkAudit, GovernedInv, Awaiting
<1>2. CASE BlockAudit(c)
  <2>1. AuditThen(c, "BLOCKED", "blockLog", "blockLog") /\ "blockLog" \in Awaiting
    BY <1>2 DEF BlockAudit, Awaiting
  <2>2. \/ Abstract!Record(c, "BLOCKED")
        \/ UNCHANGED views
        \/ /\ Status' = [Status EXCEPT ![c] = "raised"]
           /\ UNCHANGED <<env, audit, tool, served, Halted>>
    BY <1>1, <2>1, WritesRow
  <2>3. Abstract!Record(c, "BLOCKED") => Abstract!Refuse(c)
    BY <1>1 DEF Abstract!Refuse
  <2> QED BY <1>1, <2>2, <2>3, EndsInError DEF Abstract!Next
<1>3. CASE ParkAudit(c)
  <2>1. AuditThen(c, "PRE", "parkLog", "raised") /\ "parkLog" \in Awaiting
    BY <1>3 DEF ParkAudit, Awaiting
  <2>2. \/ Abstract!Record(c, "PRE")
        \/ UNCHANGED views
        \/ /\ Status' = [Status EXCEPT ![c] = "raised"]
           /\ UNCHANGED <<env, audit, tool, served, Halted>>
    BY <1>1, <2>1, WritesRow
  <2>3. Verdict(env[c]) # "BLOCK"
    BY <1>3 DEF ParkAudit, GovernedInv, PathInv, PathOf, Verdict
  <2>4. Abstract!Record(c, "PRE") => Abstract!Announce(c)
    BY <1>1, <2>3 DEF Abstract!Announce
  <2> QED BY <1>1, <2>2, <2>4, EndsInError DEF Abstract!Next
<1> QED BY <1>2, <1>3

\* The row of an attempt says how it ended, or the attempt is taken for failed.
LEMMA Settles ==
  ASSUME GovernedInv, NEW c \in Calls, PostSuccess(c) \/ PostFailed(c)
  PROVE  Abstract!Next \/ UNCHANGED views
<1>1. pc[c] \in Awaiting /\ TypeOK /\ LedgerOf(c) /\ PathOf(c) /\ Status[c] = "open"
  BY OpenStatus DEF PostSuccess, PostFailed, GovernedInv, LedgerInv, PathInv, Awaiting
<1>2. CASE PostSuccess(c)
  <2>1. /\ AuditThen(c, "SUCCESS", "logSuccess", "postFailed")
        /\ "logSuccess" \in Awaiting /\ "postFailed" \in Awaiting
    BY <1>2 DEF PostSuccess, Awaiting
  <2>2. \/ Abstract!Record(c, "SUCCESS")
        \/ UNCHANGED views
        \/ /\ Status' = [Status EXCEPT ![c] = "raised"]
           /\ UNCHANGED <<env, audit, tool, served, Halted>>
    BY <1>1, <2>1, WritesRow
  <2>3. tool[c] = "done" /\ audit[c] = <<"PRE">>
    BY <1>1, <1>2 DEF PostSuccess, LedgerOf
  <2>4. Abstract!Record(c, "SUCCESS") => Abstract!Confirm(c)
    BY <1>1, <2>3 DEF Abstract!Confirm
  <2> QED BY <1>1, <2>2, <2>4, EndsInError DEF Abstract!Next
<1>3. CASE PostFailed(c)
  <2>1. AuditThen(c, "FAILED", "logFailed", "raised") /\ "logFailed" \in Awaiting
    BY <1>3 DEF PostFailed, Awaiting
  <2>2. \/ Abstract!Record(c, "FAILED")
        \/ UNCHANGED views
        \/ /\ Status' = [Status EXCEPT ![c] = "raised"]
           /\ UNCHANGED <<env, audit, tool, served, Halted>>
    BY <1>1, <2>1, WritesRow
  <2>3. /\ tool[c] # "idle" /\ audit[c] \in {<<"PRE">>, <<"PRE", "SUCCESS">>}
        /\ Local(env[c]) => tool[c] = "done"
    BY <1>1, <1>3 DEF PostFailed, LedgerOf, FailureOf, PathOf
  <2>4. Abstract!Record(c, "FAILED") => Abstract!Fail(c)
    BY <1>1, <2>3 DEF Abstract!Fail
  <2> QED BY <1>1, <2>2, <2>4, EndsInError DEF Abstract!Next
<1> QED BY <1>2, <1>3

\* The row of the call log is followed by the answer that the rows of the
\* audit log allow, or by the cache.
LEMMA Answers ==
  ASSUME GovernedInv, NEW c \in Calls,
         \/ BlockLog(c) \/ ParkLog(c) \/ CacheLog(c) \/ DenyLog(c)
         \/ LogSuccess(c) \/ LogFailed(c)
  PROVE  Abstract!Next \/ UNCHANGED views
<1>1. pc[c] \in Awaiting /\ TypeOK /\ LedgerOf(c) /\ PathOf(c)
  BY DEF BlockLog, ParkLog, CacheLog, DenyLog, LogSuccess, LogFailed,
         GovernedInv, LedgerInv, PathInv, Awaiting
<1>2. \A answer \in Answered : answer \in Abstract!Answers
  BY DEF Answered, Abstract!Answers
<1>3. CASE BlockLog(c)
  <2>1. LogThen(c, "BLOCKED", "BLOCKED", "raised") /\ pc[c] = "blockLog"
    BY <1>3 DEF BlockLog
  <2>2. Abstract!May(c, "BLOCKED")
    BY <1>1, <2>1 DEF LedgerOf, PathOf, Abstract!May
  <2> QED BY <1>1, <1>2, <2>1, <2>2, LogsEnd DEF Answered
<1>4. CASE ParkLog(c)
  <2>1. LogThen(c, "PARKED", "PARKED", "raised") /\ pc[c] = "parkLog"
    BY <1>4 DEF ParkLog
  <2>2. Abstract!May(c, "PARKED")
    BY <1>1, <2>1 DEF LedgerOf, PathOf, Verdict, Abstract!May
  <2> QED BY <1>1, <1>2, <2>1, <2>2, LogsEnd DEF Answered
<1>5. CASE CacheLog(c)
  <2>1. LogThen(c, "CACHED", "CACHED", "raised") /\ pc[c] = "cacheLog"
    BY <1>5 DEF CacheLog
  <2>2. Abstract!May(c, "CACHED")
    BY <1>1, <2>1 DEF PathOf, Abstract!May
  <2> QED BY <1>1, <1>2, <2>1, <2>2, LogsEnd DEF Answered
<1>6. CASE DenyLog(c)
  <2>1. LogThen(c, "FAILED", "DENIED", "raised") /\ pc[c] = "denyLog"
    BY <1>6 DEF DenyLog
  <2>2. Abstract!May(c, "DENIED")
    BY <1>1, <2>1 DEF LedgerOf, PathOf, Abstract!May
  <2> QED BY <1>1, <1>2, <2>1, <2>2, LogsEnd DEF Answered
<1>7. CASE LogSuccess(c)
  <2> DEFINE next == IF Cacheable(env[c]) THEN "cacheSet" ELSE "SUCCESS"
  <2>1. LogThen(c, "SUCCESS", next, "postFailed") /\ pc[c] = "logSuccess"
    BY <1>7 DEF LogSuccess
  <2>2. Abstract!May(c, "SUCCESS")
    BY <1>1, <2>1 DEF LedgerOf, Abstract!May
  <2>3. /\ next \in Awaiting \cup Abstract!Answers
        /\ next \in Abstract!Answers => next = "SUCCESS"
    BY <1>2 DEF Answered, Awaiting, Abstract!Answers
  <2>4. "postFailed" \in Awaiting
    BY DEF Awaiting
  <2> HIDE DEF next
  <2> QED BY <1>1, <2>1, <2>2, <2>3, <2>4, LogsEnd
<1>8. CASE LogFailed(c)
  <2>1. LogThen(c, "FAILED", "FAILED", "raised") /\ pc[c] = "logFailed"
    BY <1>8 DEF LogFailed
  <2>2. Abstract!May(c, "FAILED")
    BY <1>1, <2>1 DEF LedgerOf, FailureOf, Abstract!May
  <2> QED BY <1>1, <1>2, <2>1, <2>2, LogsEnd DEF Answered
<1> QED BY <1>3, <1>4, <1>5, <1>6, <1>7, <1>8

\* A call is served only past both reads of the switch and with a PERMIT.
LEMMA MayBeServed ==
  ASSUME GovernedInv, NEW c \in Calls, pc[c] \in {"cacheGet", "prewrite"}
  PROVE  c \notin Halted /\ Verdict(env[c]) = "PERMIT"
BY DEF GovernedInv, SwitchInv, SwitchOf, Cleared, GateInv, GateOf, Permitted, Halted, Verdict

\* A hit in the cache gives the call a confirmed result, or an error.
LEMMA Hits ==
  ASSUME GovernedInv, NEW c \in Calls, CacheGet(c)
  PROVE  Abstract!Next \/ UNCHANGED views
<1> DEFINE origin == cache[CacheKey(env[c])]
<1>1. /\ pc[c] = "cacheGet" /\ TypeOK /\ UNCHANGED <<env, audit, tool, armed>>
      /\ "cacheGet" \in Awaiting /\ "cacheLog" \in Awaiting /\ "prewrite" \in Awaiting
  BY DEF CacheGet, GovernedInv, callVars, Awaiting
<1>2. CASE origin # NoCall /\ served' = [served EXCEPT ![c] = origin] /\ Goto(c, "cacheLog")
  <2>1. CacheKey(env[c]) \in CacheKeys /\ origin \in Calls
    BY <1>1, <1>2 DEF TypeOK, CacheKeys
  <2>2. Reusable(origin) /\ CacheKey(env[origin]) = CacheKey(env[c])
    BY <1>2, <2>1 DEF GovernedInv, CacheInv
  <2>3. Status' = Status /\ Halted' = Halted
    BY <1>1, <1>2, StatusStays DEF Halted
  <2>4. Abstract!Give(c, origin)
    BY <1>1, <1>2, <2>2, <2>3, NothingDone DEF Reusable, Contains, Reads, Abstract!Give
  <2>5. Abstract!Serve(c)
    BY <1>1, <2>1, <2>4, MayBeServed DEF Abstract!Serve
  <2> QED BY <2>5 DEF Abstract!Next
<1>3. CASE Goto(c, "prewrite") /\ UNCHANGED served
  BY <1>1, <1>3, MovesOn
<1>4. CASE Goto(c, "raised") /\ UNCHANGED served
  <2>1. Abstract!May(c, "raised") /\ "raised" \in Abstract!Answers
    BY DEF Abstract!May, Abstract!Answers
  <2> QED BY <1>1, <1>4, <2>1, Ends
<1> QED BY <1>2, <1>3, <1>4 DEF CacheGet

\* The tool is asked with its row; a pre-write that raises asks no tool.
LEMMA Attempts ==
  ASSUME GovernedInv, NEW c \in Calls, Prewrite(c)
  PROVE  Abstract!Next \/ UNCHANGED views
<1>1. /\ pc[c] = "prewrite" /\ TypeOK /\ UNCHANGED <<env, served, armed>>
      /\ "prewrite" \in Awaiting /\ "executing" \in Awaiting /\ "denyLog" \in Awaiting
      /\ audit' = [audit EXCEPT ![c] = Append(@, "PRE")] \/ audit' = audit
      /\ Goto(c, "executing") \/ Goto(c, "denyLog")
  BY DEF Prewrite, GovernedInv, cacheVars, Awaiting
<1>2. Status' = Status /\ Halted' = Halted
  BY <1>1, StatusStays DEF Halted
<1>3. Abstract!Untouched(c)
  BY <1>1, NothingDone
<1>4. CASE tool' = tool /\ audit' = audit
  BY <1>1, <1>2, <1>4 DEF views
<1>5. CASE tool' = tool /\ audit' = [audit EXCEPT ![c] = Append(@, "PRE")]
  <2>1. Abstract!Record(c, "PRE")
    BY <1>1, <1>2, <1>5 DEF Abstract!Record
  <2>2. Abstract!Announce(c)
    BY <1>1, <1>3, <2>1, MayBeServed DEF Abstract!Announce
  <2> QED BY <2>2 DEF Abstract!Next
<1>6. CASE /\ tool' = [tool EXCEPT ![c] = "sent"]
           /\ audit' = [audit EXCEPT ![c] = Append(@, "PRE")]
  <2>1. audit[c] = <<>> /\ Append(<<>>, "PRE") = <<"PRE">>
    BY <1>3, FailedTrails DEF Abstract!Untouched, AuditRows
  <2>2. Abstract!Attempt(c)
    BY <1>1, <1>2, <1>3, <1>6, <2>1 DEF Abstract!Attempt
  <2>3. Abstract!Serve(c)
    BY <1>1, <2>2, MayBeServed DEF Abstract!Serve
  <2> QED BY <2>3 DEF Abstract!Next
<1> QED BY <1>4, <1>5, <1>6 DEF Prewrite

\* Filling the cache ends the call with its success, unless its result is not
\* one that can be answered.
LEMMA Fills ==
  ASSUME GovernedInv, NEW c \in Calls, CacheSet(c)
  PROVE  Abstract!Next \/ UNCHANGED views
<1>1. /\ pc[c] = "cacheSet" /\ TypeOK
      /\ Goto(c, "SUCCESS") \/ Goto(c, "postFailed")
      /\ UNCHANGED <<env, audit, tool, served, armed>>
      /\ "cacheSet" \in Awaiting /\ "postFailed" \in Awaiting
      /\ "SUCCESS" \in Abstract!Answers
  BY DEF CacheSet, GovernedInv, callVars, Awaiting, Abstract!Answers
<1>2. Abstract!May(c, "SUCCESS")
  BY <1>1 DEF GovernedInv, LedgerInv, LedgerOf, Abstract!May
<1> QED BY <1>1, <1>2, Ends, MovesOn

\* A tool in the process takes effect while its call waits for it; one behind
\* HTTP whenever it likes.
LEMMA TakesEffect ==
  ASSUME GovernedInv, NEW c \in Calls, ToolEffect(c)
  PROVE  Abstract!Next
<1>1. /\ tool[c] = "sent" /\ tool' = [tool EXCEPT ![c] = "done"]
      /\ UNCHANGED <<env, audit, served, pc, armed>>
      /\ Local(env[c]) => pc[c] = "executing"
  BY DEF ToolEffect, cacheVars, Local
<1>2. Status' = Status /\ Halted' = Halted
  BY <1>1 DEF Status, Halted
<1>3. Local(env[c]) => Status[c] = "open" /\ audit[c] = <<"PRE">>
  BY <1>1, OpenStatus DEF GovernedInv, LedgerInv, LedgerOf, Awaiting
<1>4. Abstract!Effect(c)
  BY <1>1, <1>2, <1>3 DEF Abstract!Effect
<1> QED BY <1>4 DEF Abstract!Next

\* A step of a call is a step of the abstract call or a stutter.
LEMMA CallImplements ==
  ASSUME GovernedInv, NEW c \in Calls, CallStep(c)
  PROVE  Abstract!Next \/ UNCHANGED views
BY Arrives, Decides, TurnsDown, Settles, Answers, Hits, Attempts, Fills, TakesEffect
   DEF CallStep, Progress

\* A restart of the process is Stop; a release of a switch, or its loss with
\* the keys of Redis, is Lift; nothing else of the environment is seen.
LEMMA EnvironmentImplements ==
  ASSUME GovernedInv, OtherStep
  PROVE  Abstract!Next \/ UNCHANGED views
<1>1. TypeOK /\ UNCHANGED <<env, audit, tool, served>>
  BY Environment DEF GovernedInv
<1>2. Halted' \in SUBSET Halted
  <2>1. \A c \in Calls : armed'[c] \subseteq armed[c]
    BY <1>1, Environment
  <2> QED BY <2>1 DEF Halted
<1>3. CASE pc' = pc
  <2>1. Status' = Status
    BY <1>3 DEF Status
  <2>2. Abstract!Lift
    BY <1>1, <1>2, <2>1 DEF Abstract!Lift
  <2> QED BY <2>2 DEF Abstract!Next
<1>4. CASE Crash
  <2>1. /\ pc' = [c \in Calls |-> IF pc[c] \in Awaiting THEN "dropped" ELSE pc[c]]
        /\ armed' = armed
    BY <1>4 DEF Crash
  <2>2. Status' = [c \in Calls |-> IF Status[c] = "open" THEN "dropped" ELSE Status[c]]
    <3>1. "dropped" \notin Awaiting
      BY DEF Awaiting
    <3> QED BY <1>1, <2>1, <3>1, OpenStatus DEF Status
  <2>3. Halted' = Halted
    BY <2>1 DEF Halted
  <2>4. Abstract!Stop
    BY <1>1, <2>2, <2>3 DEF Abstract!Stop
  <2> QED BY <2>4 DEF Abstract!Next
<1> QED BY <1>3, <1>4
        DEF OtherStep, EngageSwitch, ReleaseSwitch, RecordSwitch, ClockTick, CacheExpire,
            RedisLosesKeys, vars

\* The pipeline keeps what GovernedCalls promises: a tool is asked at most
\* once, with its row, and only for a call the gate permits and no switch
\* halts; the rows of a call come in one order; its answer agrees with them
\* and is final, through lost writes, restarts and any number of other calls.
THEOREM GatewayRefinement == Spec => Refinement
<1>1. Init => Abstract!Init /\ CacheInv /\ SwitchInv /\ GateInv /\ PathInv
  <2> SUFFICES ASSUME Init
               PROVE  Abstract!Init /\ CacheInv /\ SwitchInv /\ GateInv /\ PathInv
    OBVIOUS
  <2>1. Abstract!Init
    BY DEF Init, Abstract!Init, Status, Halted, Awaiting
  <2>2. CacheInv
    BY DEF Init, CacheInv
  <2>3. SwitchInv /\ GateInv /\ PathInv
    BY DEF Init, SwitchInv, SwitchOf, Cleared, Permitted, GateInv, GateOf, PathInv, PathOf
  <2> QED BY <2>1, <2>2, <2>3
<1>2. TypeOK /\ LedgerInv /\ CacheInv /\ SwitchInv /\ GateInv /\ PathInv /\ [Next]_vars
         => CacheInv' /\ SwitchInv' /\ GateInv' /\ PathInv'
  BY CacheStep, SwitchStep, GateStep, PathStep
<1>3. TypeOK /\ LedgerInv /\ CacheInv /\ SwitchInv /\ GateInv /\ PathInv /\ [Next]_vars
         => [Abstract!Next]_(Abstract!vars)
  <2> SUFFICES ASSUME TypeOK, LedgerInv, CacheInv, SwitchInv, GateInv, PathInv, [Next]_vars
               PROVE  Abstract!Next \/ UNCHANGED views
    BY DEF views, Abstract!vars
  <2>1. GovernedInv
    BY DEF GovernedInv
  <2> QED BY <2>1, StepCases, CallImplements, EnvironmentImplements
<1> QED BY <1>1, <1>2, <1>3, GatewayTypeCorrect, GatewayLedgers, PTL
        DEF Spec, Refinement, Abstract!Spec

-----------------------------------------------------------------------------
(* What the promise comes to.                                              *)

\* ServedOnce, with what makes it inductive: a call that has not arrived has
\* been neither served nor halted.
ServedInv ==
    /\ Abstract!ServedOnce
    /\ \A c \in Calls : Status[c] = "new" => tool[c] = "idle" /\ served[c] = NoCall

\* ServedInv is kept by the steps of the promise, whatever implements them.
LEMMA PromiseServes ==
  ASSUME ServedInv, DOMAIN tool = Calls, DOMAIN served = Calls,
         [Abstract!Next]_(Abstract!vars)
  PROVE  ServedInv'
<1>0. DOMAIN Status = Calls
  BY DEF Status
<1> USE DEF ServedInv, Abstract!ServedOnce
<1>1. ASSUME NEW c \in Calls, Abstract!Arrive(c) PROVE ServedInv'
  BY <1>0, <1>1 DEF Abstract!Arrive
<1>2. ASSUME NEW c \in Calls, Abstract!Serve(c) PROVE ServedInv'
  BY <1>2 DEF Abstract!Serve, Abstract!Attempt, Abstract!Give, Abstract!Untouched
<1>3. ASSUME NEW c \in Calls, Abstract!Effect(c) PROVE ServedInv'
  BY <1>3 DEF Abstract!Effect
<1>4. ASSUME NEW c \in Calls,
             \/ Abstract!Announce(c) \/ Abstract!Refuse(c)
             \/ Abstract!Confirm(c) \/ Abstract!Fail(c)
      PROVE  ServedInv'
  <2>1. /\ UNCHANGED <<env, tool, served, Halted>>
        /\ Status' \in {Status, [Status EXCEPT ![c] = "raised"]}
    BY <1>4 DEF Abstract!Announce, Abstract!Refuse, Abstract!Confirm, Abstract!Fail,
                Abstract!Record
  <2> QED BY <1>0, <2>1
<1>5. ASSUME NEW c \in Calls, NEW answer \in Abstract!Answers, Abstract!Answer(c, answer)
      PROVE  ServedInv'
  BY <1>0, <1>5 DEF Abstract!Answer, Abstract!Answers
<1>6. ASSUME Abstract!Lift \/ Abstract!Stop \/ UNCHANGED Abstract!vars PROVE ServedInv'
  <2>1. /\ UNCHANGED <<env, tool, served>> /\ Halted' \subseteq Halted
        /\ \A c \in Calls : Status'[c] = "new" => Status[c] = "new"
    BY <1>6 DEF Abstract!Lift, Abstract!Stop, Abstract!vars
  <2> QED BY <2>1
<1> QED BY <1>1, <1>2, <1>3, <1>4, <1>5, <1>6 DEF Abstract!Next

\* The tool of a call is asked or the call is given another's result, never
\* both, and neither unless the gate permits it and no switch halts it.
THEOREM GatewayServesOnce == Spec => []Abstract!ServedOnce
<1>1. Init => ServedInv
  BY DEF Init, ServedInv, Abstract!ServedOnce, Halted
<1>2. TypeOK /\ ServedInv /\ [Abstract!Next]_(Abstract!vars) => ServedInv'
  <2> SUFFICES ASSUME TypeOK, ServedInv, [Abstract!Next]_(Abstract!vars) PROVE ServedInv'
    OBVIOUS
  <2>1. DOMAIN tool = Calls /\ DOMAIN served = Calls
    BY DEF TypeOK
  <2> QED BY <2>1, PromiseServes
<1>3. ServedInv => Abstract!ServedOnce
  BY DEF ServedInv
<1> QED BY <1>1, <1>2, <1>3, GatewayTypeCorrect, GatewayRefinement, PTL
        DEF Refinement, Abstract!Spec, Spec

\* A call that has ended stays as it ended: a late effect of its tool, the
\* writes of other calls and a restart do not open it again.
THEOREM GatewayAnswersAreFinal == Spec => Abstract!AnswersAreFinal
<1> DEFINE final == \A c \in Calls : Status[c] \notin {"new", "open"} => Status'[c] = Status[c]
<1>1. [Abstract!Next]_(Abstract!vars) => [final]_(Abstract!vars)
  <2>0. DOMAIN Status = Calls
    BY DEF Status
  <2>1. ASSUME NEW c \in Calls, Abstract!Arrive(c) PROVE final
    BY <2>0, <2>1 DEF Abstract!Arrive
  <2>2. ASSUME NEW c \in Calls, Abstract!Serve(c) \/ Abstract!Effect(c) PROVE final
    BY <2>2 DEF Abstract!Serve, Abstract!Attempt, Abstract!Give, Abstract!Effect
  <2>3. ASSUME NEW c \in Calls,
               \/ Abstract!Announce(c) \/ Abstract!Refuse(c)
               \/ Abstract!Confirm(c) \/ Abstract!Fail(c)
        PROVE  final
    <3>1. Status[c] = "open" /\ Status' \in {Status, [Status EXCEPT ![c] = "raised"]}
      BY <2>3 DEF Abstract!Announce, Abstract!Refuse, Abstract!Untouched,
                  Abstract!Confirm, Abstract!Fail, Abstract!Record
    <3> QED BY <2>0, <3>1
  <2>4. ASSUME NEW c \in Calls, NEW answer \in Abstract!Answers, Abstract!Answer(c, answer)
        PROVE  final
    BY <2>0, <2>4 DEF Abstract!Answer
  <2>5. CASE Abstract!Lift \/ Abstract!Stop
    BY <2>5 DEF Abstract!Lift, Abstract!Stop
  <2> QED BY <2>1, <2>2, <2>3, <2>4, <2>5 DEF Abstract!Next
<1> QED BY <1>1, GatewayRefinement, PTL DEF Refinement, Abstract!Spec, Abstract!AnswersAreFinal

=============================================================================
