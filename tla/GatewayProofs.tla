--------------------------- MODULE GatewayProofs ---------------------------
(***************************************************************************)
(* Theorems about the gateway's pipeline, for any number of calls,         *)
(* envelopes, administrators, tools and agents, and any limit.             *)
(*                                                                         *)
(* LedgerInv says, for each operation a call may await, what its rows in   *)
(* the two ledgers are and whether its tool was asked; GateInv, which      *)
(* calls get that far; SwitchInv, what a call knows of the kill switch;    *)
(* CacheInv, whose results the cache holds; RateInv, how a rate counter    *)
(* bounds the calls it let through.  Each is inductive given TypeOK.       *)
(***************************************************************************)
EXTENDS Gateway, SequenceTheorems, FiniteSetTheorems, TLAPS

\* The operations before the first write of a call.
Unwritten == {"new", "killGlobal", "killAgent", "blockAudit", "rate",
              "parkAudit", "cacheGet", "cacheLog", "prewrite"}

\* How they look once an attempt is taken for failed: a SUCCESS row of the call
\* log was preceded by that of audit_logs.
FailureOf(c) ==
    /\ pc[c] \in {"postFailed", "logFailed", "FAILED"} => tool[c] # "idle"
    /\ pc[c] = "postFailed" =>
          /\ audit[c] \in {<<"PRE">>, <<"PRE", "SUCCESS">>}
          /\ calllog[c] = <<>> \/ (calllog[c] = <<"SUCCESS">> /\ audit[c] # <<"PRE">>)
    /\ pc[c] \in {"logFailed", "FAILED"} =>
          audit[c] \in {<<"PRE", "FAILED">>, <<"PRE", "SUCCESS", "FAILED">>}
    /\ pc[c] = "logFailed" =>
          \/ calllog[c] = <<>>
          \/ calllog[c] = <<"SUCCESS">> /\ audit[c] # <<"PRE", "FAILED">>
    /\ pc[c] = "FAILED" =>
          \/ calllog[c] = <<"FAILED">>
          \/ calllog[c] = <<"SUCCESS", "FAILED">> /\ audit[c] # <<"PRE", "FAILED">>

\* How the ledgers of a call look while it awaits, or after it ended.
LedgerOf(c) ==
    /\ pc[c] \in Unwritten =>
          tool[c] = "idle" /\ audit[c] = <<>> /\ calllog[c] = <<>>
    /\ pc[c] \in {"blockLog", "BLOCKED"} =>
          tool[c] = "idle" /\ audit[c] \in {<<>>, <<"BLOCKED">>}
    /\ pc[c] \in {"blockLog", "parkLog", "denyLog", "executing", "postSuccess", "logSuccess"}
          => calllog[c] = <<>>
    /\ pc[c] = "BLOCKED" => calllog[c] = <<"BLOCKED">>
    /\ pc[c] \in {"parkLog", "PARKED"} => tool[c] = "idle" /\ audit[c] = <<"PRE">>
    /\ pc[c] = "PARKED" => calllog[c] = <<"PARKED">>
    /\ pc[c] = "CACHED" =>
          tool[c] = "idle" /\ audit[c] = <<>> /\ calllog[c] = <<"CACHED">>
    /\ pc[c] \in {"denyLog", "DENIED"} =>
          tool[c] = "idle" /\ audit[c] \in {<<>>, <<"PRE">>}
    /\ pc[c] = "DENIED" => calllog[c] = <<"FAILED">>
    /\ pc[c] \in {"executing", "postSuccess"} => audit[c] = <<"PRE">>
    /\ pc[c] = "executing" => tool[c] # "idle"
    /\ pc[c] \in {"postSuccess", "logSuccess", "cacheSet", "SUCCESS"} => tool[c] = "done"
    /\ pc[c] \in {"logSuccess", "cacheSet", "SUCCESS"} => audit[c] = <<"PRE", "SUCCESS">>
    /\ pc[c] \in {"cacheSet", "SUCCESS"} => calllog[c] = <<"SUCCESS">>
    /\ FailureOf(c)
    /\ tool[c] # "idle" => audit[c] # <<>> /\ audit[c][1] = "PRE"
    /\ Contains(audit[c], "SUCCESS") => tool[c] = "done"

LedgerInv == \A c \in Calls : LedgerOf(c)

\* The stages a call reaches only with the decision PERMIT.
Permitted == {"cacheGet", "cacheLog", "CACHED", "prewrite", "denyLog", "DENIED",
              "executing", "postSuccess", "logSuccess", "cacheSet", "SUCCESS",
              "postFailed", "logFailed", "FAILED"}

GateOf(c) ==
    /\ pc[c] = "rate" => Evaluate(env[c]).decision # "BLOCK"
    /\ pc[c] \in Permitted \/ tool[c] # "idle" \/ served[c] # NoCall
          => Evaluate(env[c]).decision = "PERMIT"

GateInv == \A c \in Calls : GateOf(c)

\* The stages a call reaches only after both reads of the kill switch.
Cleared == Permitted \cup {"rate", "parkAudit", "parkLog", "PARKED"}

SwitchOf(c) ==
    /\ armed[c] \subseteq flag \cap CoveringScopes(c)
    /\ pc[c] = "new" => tool[c] = "idle" /\ served[c] = NoCall
    /\ pc[c] = "killAgent" => Global \notin armed[c]
    /\ pc[c] \in Cleared \/ tool[c] # "idle" \/ served[c] # NoCall
          => armed[c] = {}

SwitchInv == \A c \in Calls : SwitchOf(c)

\* What makes the result of call c fit to be given to others.
Reusable(c) ==
    /\ tool[c] = "done"
    /\ Contains(audit[c], "SUCCESS")
    /\ Contains(calllog[c], "SUCCESS")
    /\ env[c].tool \notin WriteTools

CacheInv ==
    /\ \A c \in Calls : pc[c] = "cacheSet" => Reusable(c)
    /\ \A k \in CacheKeys : cache[k] # NoCall =>
          Reusable(cache[k]) /\ CacheKey(env[cache[k]]) = k
    /\ \A c \in Calls : served[c] # NoCall =>
          Reusable(served[c]) /\ CacheKey(env[served[c]]) = CacheKey(env[c])

-----------------------------------------------------------------------------
(* What Append does to the ledgers.                                        *)

\* Appending a row keeps the rows before it and puts the new one last.
LEMMA AppendRow ==
  ASSUME NEW S, NEW s \in Seq(S), NEW r \in S
  PROVE  LET t == Append(s, r)
         IN  /\ t \in Seq(S)
             /\ t # <<>>
             /\ t[Len(t)] = r
             /\ s # <<>> => t[1] = s[1]
             /\ \A x : Contains(t, x) <=> x = r \/ Contains(s, x)
<1> DEFINE t == Append(s, r)
<1>1. /\ t \in Seq(S)
      /\ Len(t) = Len(s) + 1
      /\ t[Len(t)] = r
      /\ \A i \in 1..Len(s) : t[i] = s[i]
  OBVIOUS
<1>2. t # <<>>
  BY <1>1
<1>3. s # <<>> => t[1] = s[1]
  <2> SUFFICES ASSUME s # <<>> PROVE t[1] = s[1]
    OBVIOUS
  <2>1. 1 \in 1..Len(s)
    BY EmptySeq
  <2> QED BY <2>1, <1>1
<1>4. ASSUME NEW x PROVE Contains(t, x) <=> x = r \/ Contains(s, x)
  <2>1. DOMAIN s = 1..Len(s) /\ DOMAIN t = 1..Len(s) + 1 /\ Len(s) \in Nat
    BY <1>1
  <2> HIDE DEF t
  <2> QED BY <2>1, <1>1 DEF Contains
<1> QED BY <1>1, <1>2, <1>3, <1>4

\* The short ledgers of answered calls.
LEMMA AppendToPre ==
  ASSUME NEW S, NEW x \in S, NEW y \in S
  PROVE  Append(<<x>>, y) = <<x, y>> /\ Append(<<>>, x) = <<x>>
<1> DEFINE s == Append(<<x>>, y)
           t == <<x, y>>
<1>1. <<x>> \in Seq(S) /\ t \in Seq(S)
  OBVIOUS
<1>2. s \in Seq(S) /\ Len(s) = 2 /\ Len(t) = 2
  BY <1>1
<1>3. \A i \in 1..Len(s) : s[i] = t[i]
  <2>1. s[1] = x /\ s[2] = y
    BY <1>1
  <2>2. t[1] = x /\ t[2] = y
    OBVIOUS
  <2> QED BY <2>1, <2>2, <1>2
<1> HIDE DEF s, t
<1>4. s = t
  BY <1>1, <1>2, <1>3, SeqEqual
<1> QED BY <1>4 DEF s, t

\* The rows of the calls that end in FAILED.
LEMMA FailedTrails ==
  /\ Append(<<"PRE">>, "SUCCESS") = <<"PRE", "SUCCESS">>
  /\ Append(<<"PRE">>, "FAILED") = <<"PRE", "FAILED">>
  /\ Append(<<"PRE", "SUCCESS">>, "FAILED") = <<"PRE", "SUCCESS", "FAILED">>
  /\ Append(<<"SUCCESS">>, "FAILED") = <<"SUCCESS", "FAILED">>
  /\ \A x \in AuditRows : Append(<<>>, x) = <<x>>
<1>1. \A x, y \in AuditRows : Append(<<x>>, y) = <<x, y>> /\ Append(<<>>, x) = <<x>>
  BY AppendToPre
<1>2. Append(<<"PRE", "SUCCESS">>, "FAILED") = <<"PRE", "SUCCESS", "FAILED">>
  <2> DEFINE s == Append(<<"PRE", "SUCCESS">>, "FAILED")
             t == <<"PRE", "SUCCESS", "FAILED">>
  <2>1. <<"PRE", "SUCCESS">> \in Seq(AuditRows) /\ "FAILED" \in AuditRows
    BY DEF AuditRows
  <2>2. s \in Seq(AuditRows) /\ Len(s) = 3 /\ s[1] = "PRE" /\ s[2] = "SUCCESS" /\ s[3] = "FAILED"
    BY <2>1
  <2>3. t \in Seq(AuditRows) /\ Len(t) = 3 /\ t[1] = "PRE" /\ t[2] = "SUCCESS" /\ t[3] = "FAILED"
    BY DEF AuditRows
  <2> HIDE DEF s, t
  <2>4. \A i \in 1 .. Len(s) : s[i] = t[i]
    BY <2>2, <2>3
  <2>5. s = t
    BY <2>2, <2>3, <2>4, SeqEqual
  <2> QED BY <2>5 DEF s, t
<1>3. "PRE" \in AuditRows /\ "SUCCESS" \in AuditRows /\ "FAILED" \in AuditRows
  BY DEF AuditRows
<1> QED BY <1>1, <1>2, <1>3

\* A function of ledgers with a row appended to one of them.
LEMMA AppendAt ==
  ASSUME NEW S, NEW f \in [Calls -> Seq(S)], NEW c \in Calls, NEW r \in S
  PROVE  [f EXCEPT ![c] = Append(@, r)] \in [Calls -> Seq(S)]
<1>1. f[c] \in Seq(S)
  OBVIOUS
<1>2. Append(f[c], r) \in Seq(S)
  BY <1>1
<1> QED BY <1>2

-----------------------------------------------------------------------------
(* Type correctness.                                                       *)

StagesOfCalls == {"new"} \cup Awaiting \cup Ended

\* A write to either ledger keeps the types.
LEMMA LedgerWriteType ==
  ASSUME TypeOK, NEW c \in Calls,
         NEW next \in StagesOfCalls, NEW raised \in StagesOfCalls,
         \/ \E row \in AuditRows : AuditThen(c, row, next, raised)
         \/ \E status \in LogRows : LogThen(c, status, next, raised)
  PROVE  TypeOK'
<1>1. pc' \in [Calls -> StagesOfCalls]
  BY DEF AuditThen, LogThen, Goto, TypeOK, StagesOfCalls
<1>2. audit \in [Calls -> Seq(AuditRows)] /\ calllog \in [Calls -> Seq(LogRows)]
  BY DEF TypeOK
<1>3. audit' \in [Calls -> Seq(AuditRows)] /\ calllog' \in [Calls -> Seq(LogRows)]
  <2>1. \A row \in AuditRows :
           [audit EXCEPT ![c] = Append(@, row)] \in [Calls -> Seq(AuditRows)]
    BY <1>2, AppendAt
  <2>2. \A status \in LogRows :
           [calllog EXCEPT ![c] = Append(@, status)] \in [Calls -> Seq(LogRows)]
    BY <1>2, AppendAt
  <2>3. CASE \E row \in AuditRows : AuditThen(c, row, next, raised)
    <3>1. PICK row \in AuditRows : AuditThen(c, row, next, raised)
      BY <2>3
    <3>2. /\ audit' = [audit EXCEPT ![c] = Append(@, row)] \/ audit' = audit
          /\ calllog' = calllog
      BY <3>1 DEF AuditThen
    <3> QED BY <3>2, <2>1, <1>2
  <2>4. CASE \E status \in LogRows : LogThen(c, status, next, raised)
    <3>1. PICK status \in LogRows : LogThen(c, status, next, raised)
      BY <2>4
    <3>2. /\ calllog' = [calllog EXCEPT ![c] = Append(@, status)] \/ calllog' = calllog
          /\ audit' = audit
      BY <3>1 DEF LogThen
    <3> QED BY <3>2, <2>2, <1>2
  <2> QED BY <2>3, <2>4
<1>4. UNCHANGED <<killVars, env, tool, cacheVars, rateVars, armed>>
  BY DEF AuditThen, LogThen
<1> QED BY <1>1, <1>2, <1>3, <1>4
     DEF TypeOK, KillTypeOK, killVars, cacheVars, rateVars, StagesOfCalls

\* Every variable of the pipeline stays within its type.
THEOREM GatewayTypeCorrect == Spec => []TypeOK
<1>1. Init => TypeOK
  BY KillSwitchAssumption, GatewayAssumption
     DEF Init, NoCounts, TypeOK, KillInit, KillTypeOK, Idle, Windows, Awaiting, Ended
<1>2. TypeOK /\ [Next]_vars => TypeOK'
  <2> SUFFICES ASSUME TypeOK, [Next]_vars PROVE TypeOK'
    OBVIOUS
  <2> USE DEF StagesOfCalls, Awaiting, Ended, Answered
  <2>1. ASSUME NEW c \in Calls, Arrive(c) PROVE TypeOK'
    <3>1. flag \cap CoveringScopes(c) \in SUBSET KillScopes
      BY DEF TypeOK, KillTypeOK
    <3>2. armed' \in [Calls -> SUBSET KillScopes]
      BY <2>1, <3>1 DEF Arrive, TypeOK
    <3>3. pc' \in [Calls -> StagesOfCalls]
      BY <2>1 DEF Arrive, Goto, TypeOK
    <3> QED BY <2>1, <3>2, <3>3
         DEF Arrive, TypeOK, KillTypeOK, killVars, callVars, cacheVars, rateVars
  <2>2. ASSUME NEW c \in Calls, KillGlobal(c) \/ KillAgent(c) PROVE TypeOK'
    <3>1. pc' \in [Calls -> StagesOfCalls]
      BY <2>2 DEF KillGlobal, KillAgent, Goto, TypeOK
    <3>2. win' \in [Calls -> Windows]
      BY <2>2 DEF KillGlobal, KillAgent, TypeOK, rateVars
    <3>3. UNCHANGED <<killVars, callVars, cacheVars, window, count, admitted, armed>>
      BY <2>2 DEF KillGlobal, KillAgent, rateVars
    <3> QED BY <3>1, <3>2, <3>3 DEF TypeOK, KillTypeOK, killVars, callVars, cacheVars
  <2>3. ASSUME NEW c \in Calls, RateLimit(c) PROVE TypeOK'
    <3> DEFINE key == <<env[c].requester, win[c]>>
    <3>1. key \in Requesters \X Windows
      BY GatewayAssumption DEF TypeOK, Envelope
    <3>2. count' \in [Requesters \X Windows -> Nat]
      <4>1. count \in [Requesters \X Windows -> Nat]
        BY DEF TypeOK
      <4>2. count' = [count EXCEPT ![key] = @ + 1] \/ count' = count
        BY <2>3 DEF RateLimit
      <4> HIDE DEF key
      <4>3. [count EXCEPT ![key] = @ + 1] \in [Requesters \X Windows -> Nat]
        BY <3>1, <4>1
      <4> QED BY <4>1, <4>2, <4>3
    <3>3. pc' \in [Calls -> StagesOfCalls] /\ admitted' \in [Calls -> BOOLEAN]
      BY <2>3 DEF RateLimit, Goto, AfterAdmission, TypeOK
    <3>4. UNCHANGED <<killVars, callVars, cacheVars, window, win, armed>>
      BY <2>3 DEF RateLimit
    <3> QED BY <3>2, <3>3, <3>4
         DEF TypeOK, KillTypeOK, killVars, callVars, cacheVars
  <2>4. ASSUME NEW c \in Calls,
               BlockAudit(c) \/ ParkAudit(c) \/ PostSuccess(c) \/ PostFailed(c)
        PROVE TypeOK'
    BY <2>4, LedgerWriteType
       DEF BlockAudit, ParkAudit, PostSuccess, PostFailed, AuditRows
  <2>5. ASSUME NEW c \in Calls,
               \/ BlockLog(c) \/ ParkLog(c) \/ CacheLog(c)
               \/ DenyLog(c) \/ LogSuccess(c) \/ LogFailed(c)
        PROVE TypeOK'
    BY <2>5, LedgerWriteType
       DEF BlockLog, ParkLog, CacheLog, DenyLog, LogSuccess, LogFailed, LogRows
  <2>6. ASSUME NEW c \in Calls, CacheGet(c) PROVE TypeOK'
    <3>1. CacheKey(env[c]) \in CacheKeys
      BY DEF TypeOK, CacheKeys
    <3> QED BY <2>6, <3>1
         DEF CacheGet, Goto, TypeOK, KillTypeOK, killVars, callVars, rateVars
  <2>7. ASSUME NEW c \in Calls, Prewrite(c) PROVE TypeOK'
    <3>1. audit' \in [Calls -> Seq(AuditRows)]
      <4>1. audit \in [Calls -> Seq(AuditRows)] /\ "PRE" \in AuditRows
        BY DEF TypeOK, AuditRows
      <4>2. [audit EXCEPT ![c] = Append(@, "PRE")] \in [Calls -> Seq(AuditRows)]
        BY <4>1, AppendAt
      <4>3. audit' = [audit EXCEPT ![c] = Append(@, "PRE")] \/ audit' = audit
        BY <2>7 DEF Prewrite
      <4> QED BY <4>1, <4>2, <4>3
    <3>2. pc' \in [Calls -> StagesOfCalls] /\ tool' \in [Calls -> {"idle", "sent", "done"}]
      BY <2>7 DEF Prewrite, Goto, TypeOK
    <3> QED BY <2>7, <3>1, <3>2
         DEF Prewrite, TypeOK, KillTypeOK, killVars, cacheVars, rateVars
  <2>8. ASSUME NEW c \in Calls, ToolEffect(c) \/ ToolReturns(c) \/ ToolRaises(c)
        PROVE TypeOK'
    BY <2>8 DEF ToolEffect, ToolReturns, ToolRaises, Goto, TypeOK, KillTypeOK,
                killVars, callVars, cacheVars, rateVars
  <2>9. ASSUME NEW c \in Calls, CacheSet(c) PROVE TypeOK'
    BY <2>9 DEF CacheSet, Goto, TypeOK, KillTypeOK, killVars, callVars, rateVars
  <2>10. ASSUME NEW a \in Admins, NEW s \in KillScopes,
                EngageSwitch(a, s) \/ ReleaseSwitch(a, s)
         PROVE TypeOK'
    <3>1. admin' \in [Admins -> [op: {"idle", "engage", "release"}, scope: KillScopes]]
      BY <2>10 DEF EngageSwitch, ReleaseSwitch, Engage, Release, TypeOK, KillTypeOK
    <3>2. flag' \in SUBSET KillScopes /\ UNCHANGED lastEvent
      BY <2>10 DEF EngageSwitch, ReleaseSwitch, Engage, Release, TypeOK, KillTypeOK
    <3>3. armed' \in [Calls -> SUBSET KillScopes]
      BY <2>10 DEF EngageSwitch, ReleaseSwitch, TypeOK
    <3> QED BY <2>10, <3>1, <3>2, <3>3
         DEF EngageSwitch, ReleaseSwitch, TypeOK, KillTypeOK,
             callVars, cacheVars, rateVars
  <2>11. ASSUME NEW a \in Admins, RecordSwitch(a) PROVE TypeOK'
    <3>1. admin[a].op \in {"engage", "release"} /\ admin[a].scope \in KillScopes
      BY <2>11 DEF RecordSwitch, Record, TypeOK, KillTypeOK
    <3>2. lastEvent' \in [KillScopes -> {"none", "engage", "release"}]
      BY <2>11, <3>1 DEF RecordSwitch, Record, TypeOK, KillTypeOK
    <3>3. admin' \in [Admins -> [op: {"idle", "engage", "release"}, scope: KillScopes]]
      BY <2>11, KillSwitchAssumption DEF RecordSwitch, Record, Idle, TypeOK, KillTypeOK
    <3> QED BY <2>11, <3>2, <3>3
         DEF RecordSwitch, Record, TypeOK, KillTypeOK, callVars, cacheVars, rateVars
  <2>12. ASSUME ClockTick PROVE TypeOK'
    BY <2>12, GatewayAssumption
       DEF ClockTick, Windows, TypeOK, KillTypeOK, killVars, callVars, cacheVars
  <2>13. ASSUME NEW k \in CacheKeys, CacheExpire(k) PROVE TypeOK'
    BY <2>13 DEF CacheExpire, TypeOK, KillTypeOK, killVars, callVars, rateVars
  <2>14. ASSUME Crash PROVE TypeOK'
    BY <2>14, KillSwitchAssumption
       DEF Crash, Idle, TypeOK, KillTypeOK, callVars, rateVars
  <2>15. ASSUME RedisLosesKeys PROVE TypeOK'
    BY <2>15 DEF RedisLosesKeys, TypeOK, KillTypeOK, callVars, NoCounts
  <2>16. CASE UNCHANGED vars
    BY <2>16 DEF vars, TypeOK, KillTypeOK
  <2> QED
    BY <2>1, <2>2, <2>3, <2>4, <2>5, <2>6, <2>7, <2>8, <2>9, <2>10, <2>11,
       <2>12, <2>13, <2>14, <2>15, <2>16 DEF Next, Progress
<1> QED BY <1>1, <1>2, PTL DEF Spec
-----------------------------------------------------------------------------
(* A step of one call does not disturb another.                            *)

CallStep(c) == Arrive(c) \/ Progress(c) \/ ToolEffect(c)

\* What an invariant about a call reads, as it was for call d.
SameFor(d) ==
    /\ pc'[d] = pc[d] /\ audit'[d] = audit[d] /\ calllog'[d] = calllog[d]
    /\ tool'[d] = tool[d] /\ served'[d] = served[d] /\ armed'[d] = armed[d]

\* A step of call c leaves every other call as it was.
LEMMA OtherCalls ==
  ASSUME TypeOK, NEW c \in Calls, CallStep(c), NEW d \in Calls, d # c
  PROVE  SameFor(d) /\ UNCHANGED <<flag, env>>
<1> USE DEF TypeOK, SameFor, Goto, killVars, callVars, cacheVars, rateVars
<1>1. CASE Arrive(c)
  BY <1>1 DEF Arrive
<1>2. CASE KillGlobal(c) \/ KillAgent(c)
  BY <1>2 DEF KillGlobal, KillAgent
<1>3. CASE BlockAudit(c) \/ ParkAudit(c) \/ PostSuccess(c) \/ PostFailed(c)
  BY <1>3 DEF BlockAudit, ParkAudit, PostSuccess, PostFailed, AuditThen
<1>4. CASE BlockLog(c) \/ ParkLog(c) \/ CacheLog(c) \/ DenyLog(c) \/ LogSuccess(c) \/ LogFailed(c)
  BY <1>4 DEF BlockLog, ParkLog, CacheLog, DenyLog, LogSuccess, LogFailed, LogThen
<1>5. CASE RateLimit(c)
  BY <1>5 DEF RateLimit
<1>6. CASE CacheGet(c) \/ Prewrite(c) \/ CacheSet(c)
  BY <1>6 DEF CacheGet, Prewrite, CacheSet
<1>7. CASE ToolReturns(c) \/ ToolRaises(c) \/ ToolEffect(c)
  BY <1>7 DEF ToolReturns, ToolRaises, ToolEffect
<1> QED BY <1>1, <1>2, <1>3, <1>4, <1>5, <1>6, <1>7 DEF CallStep, Progress

\* The steps that are no call's.
OtherStep ==
    \/ \E a \in Admins :
          \/ \E s \in KillScopes : EngageSwitch(a, s) \/ ReleaseSwitch(a, s)
          \/ RecordSwitch(a)
    \/ ClockTick
    \/ \E k \in CacheKeys : CacheExpire(k)
    \/ Crash
    \/ RedisLosesKeys
    \/ UNCHANGED vars

\* They leave the ledgers alone and at most drop a call or disarm it.
LEMMA Environment ==
  ASSUME TypeOK, OtherStep
  PROVE  /\ UNCHANGED <<env, audit, calllog, tool, served>>
         /\ \A c \in Calls : pc'[c] \in {pc[c], "dropped"}
         /\ \A c \in Calls : pc[c] \in {"new"} \cup Ended => pc'[c] = pc[c]
         /\ \A c \in Calls : armed'[c] \subseteq armed[c]
<1> USE DEF TypeOK, killVars, callVars, cacheVars, rateVars
<1>1. ASSUME NEW a \in Admins, NEW s \in KillScopes,
             EngageSwitch(a, s) \/ ReleaseSwitch(a, s)
      PROVE  /\ UNCHANGED <<env, audit, calllog, tool, served, pc>>
             /\ \A c \in Calls : armed'[c] \subseteq armed[c]
  BY <1>1 DEF EngageSwitch, ReleaseSwitch
<1>2. ASSUME NEW a \in Admins, RecordSwitch(a)
      PROVE  UNCHANGED <<env, audit, calllog, tool, served, pc, armed>>
  BY <1>2 DEF RecordSwitch
<1>3. ASSUME NEW k \in CacheKeys, CacheExpire(k)
      PROVE  UNCHANGED <<env, audit, calllog, tool, served, pc, armed>>
  BY <1>3 DEF CacheExpire
<1>4. CASE ClockTick
  BY <1>4 DEF ClockTick
<1>5. CASE Crash
  <2>1. UNCHANGED <<env, audit, calllog, tool, served, armed>>
    BY <1>5 DEF Crash
  <2>2. \A c \in Calls : pc'[c] = IF pc[c] \in Awaiting THEN "dropped" ELSE pc[c]
    BY <1>5 DEF Crash
  <2> QED BY <2>1, <2>2 DEF Awaiting, Ended, Answered
<1>6. CASE RedisLosesKeys
  BY <1>6 DEF RedisLosesKeys
<1>7. CASE UNCHANGED vars
  BY <1>7 DEF vars
<1> QED BY <1>1, <1>2, <1>3, <1>4, <1>5, <1>6, <1>7 DEF OtherStep

\* Every step is one of a call or none of them.
LEMMA StepCases ==
  ASSUME [Next]_vars
  PROVE  (\E c \in Calls : CallStep(c)) \/ OtherStep
BY DEF Next, CallStep, OtherStep

-----------------------------------------------------------------------------
(* The human gate.                                                         *)

\* The registered level is a floor under the declared one.
LEMMA LevelFloor ==
  ASSUME NEW name \in DOMAIN ToolLevel, NEW declared \in Levels
  PROVE  /\ ToolLevel[name] \in HumanApprovalLevels
               => EffectiveLevel(name, declared) \in HumanApprovalLevels
         /\ declared \in HumanApprovalLevels
               => EffectiveLevel(name, declared) \in HumanApprovalLevels
<1>1. ToolLevel[name] \in Levels
  BY GovernanceAssumption
<1> QED BY <1>1 DEF EffectiveLevel, LevelRank, Levels, HumanApprovalLevels

\* An envelope that must be signed and is not is never permitted.
LEMMA UnsignedNotPermitted ==
  ASSUME NEW e \in Envelope, RequiresSignature(e), Evaluate(e).decision = "PERMIT"
  PROVE  e.signed
<1>1. e.declared \in HumanApprovalLevels => NormalizedLevel(e) = e.declared
  BY DEF NormalizedLevel, HumanApprovalLevels, Levels
<1>2. NormalizedLevel(e) \in Levels
  BY DEF NormalizedLevel, Levels
<1>3. NeedsHuman(e)
  <2>1. CASE e.tool \in DOMAIN ToolLevel
    BY <2>1, <1>1, <1>2, LevelFloor DEF RequiresSignature, NeedsHuman, CallLevel
  <2>2. CASE e.tool \notin DOMAIN ToolLevel
    BY <2>2, <1>1, <1>2
       DEF RequiresSignature, NeedsHuman, CallLevel, EffectiveLevel
  <2> QED BY <2>1, <2>2
<1> QED BY <1>3 DEF Evaluate, Outcome

\* The gate decides one of three things.
LEMMA Decisions ==
  ASSUME NEW e
  PROVE  Evaluate(e).decision \in {"BLOCK", "PARK", "PERMIT"}
BY DEF Evaluate, Outcome

\* GateInv is inductive.
LEMMA GateStep ==
  ASSUME TypeOK, GateInv, [Next]_vars
  PROVE  GateInv'
<1>1. ASSUME NEW c \in Calls, CallStep(c) PROVE GateOf(c)'
  <2> GateOf(c)
    BY DEF GateInv
  <2> USE DEF TypeOK, Goto, GateOf, Permitted, killVars, callVars, cacheVars, rateVars
  <2>1. CASE Arrive(c)
    BY <1>1, <2>1 DEF Arrive
  <2>2. CASE KillGlobal(c) \/ KillAgent(c)
    BY <2>2 DEF KillGlobal, KillAgent
  <2>3. CASE BlockAudit(c) \/ ParkAudit(c) \/ PostSuccess(c) \/ PostFailed(c)
    BY <2>3 DEF BlockAudit, ParkAudit, PostSuccess, PostFailed, AuditThen
  <2>4. CASE BlockLog(c) \/ ParkLog(c) \/ CacheLog(c) \/ DenyLog(c) \/ LogSuccess(c) \/ LogFailed(c)
    BY <2>4 DEF BlockLog, ParkLog, CacheLog, DenyLog, LogSuccess, LogFailed, LogThen
  <2>5. CASE RateLimit(c)
    BY <2>5, Decisions DEF RateLimit, AfterAdmission
  <2>6. CASE CacheGet(c) \/ Prewrite(c) \/ CacheSet(c)
    BY <2>6 DEF CacheGet, Prewrite, CacheSet
  <2>7. CASE ToolReturns(c) \/ ToolRaises(c) \/ ToolEffect(c)
    BY <2>7 DEF ToolReturns, ToolRaises, ToolEffect
  <2> QED BY <1>1, <2>1, <2>2, <2>3, <2>4, <2>5, <2>6, <2>7 DEF CallStep, Progress
<1>2. ASSUME NEW c \in Calls, CallStep(c), NEW d \in Calls, d # c PROVE GateOf(d)'
  BY <1>2, OtherCalls DEF GateInv, GateOf, SameFor
<1>3. CASE OtherStep
  BY <1>3, Environment DEF GateInv, GateOf, Permitted
<1> QED BY <1>1, <1>2, <1>3, StepCases DEF GateInv

\* No call that requires a human signature and has none reaches its tool or
\* is given another call's result, for any registry and any set of callers.
THEOREM GatewayHumanGate == Spec => []HumanGate
<1>1. Init => GateInv
  BY DEF Init, GateInv, GateOf, Permitted
<1>2. TypeOK /\ GateInv /\ [Next]_vars => GateInv'
  BY GateStep
<1>3. TypeOK /\ GateInv => HumanGate
  BY UnsignedNotPermitted, GatewayAssumption DEF TypeOK, GateInv, GateOf, HumanGate
<1> QED BY <1>1, <1>2, <1>3, GatewayTypeCorrect, PTL DEF Spec
-----------------------------------------------------------------------------
(* The kill switch.                                                        *)

\* A switch that covers an arrived call leaves the call's set with the flag.
LEMMA ArmedIsEngaged ==
  ASSUME TypeOK, SwitchInv, OtherStep, NEW c \in Calls
  PROVE  armed'[c] \subseteq flag' \cap CoveringScopes(c)'
<1> DEFINE covered == armed'[c] \subseteq flag' /\ env' = env
<1>0. armed[c] \subseteq flag \cap CoveringScopes(c)
  BY DEF SwitchInv, SwitchOf
<1> USE DEF TypeOK, killVars, callVars, cacheVars, rateVars
<1>1. ASSUME NEW a \in Admins, NEW s \in KillScopes, EngageSwitch(a, s) PROVE covered
  BY <1>0, <1>1 DEF EngageSwitch, Engage
<1>2. ASSUME NEW a \in Admins, NEW s \in KillScopes, ReleaseSwitch(a, s) PROVE covered
  <2>1. armed'[c] = armed[c] \ {s} /\ flag' = flag \ {s} /\ env' = env
    BY <1>2 DEF ReleaseSwitch, Release
  <2> QED BY <1>0, <2>1
<1>3. ASSUME NEW a \in Admins, RecordSwitch(a) PROVE covered
  BY <1>0, <1>3 DEF RecordSwitch, Record
<1>4. ASSUME ClockTick PROVE covered
  BY <1>0, <1>4 DEF ClockTick
<1>5. ASSUME NEW k \in CacheKeys, CacheExpire(k) PROVE covered
  BY <1>0, <1>5 DEF CacheExpire
<1>6. ASSUME Crash \/ RedisLosesKeys PROVE covered
  BY <1>0, <1>6 DEF Crash, RedisLosesKeys
<1>7. ASSUME UNCHANGED vars PROVE covered
  BY <1>0, <1>7 DEF vars
<1>8. covered
  BY <1>1, <1>2, <1>3, <1>4, <1>5, <1>6, <1>7, <1>0 DEF OtherStep
<1> QED BY <1>0, <1>8, Environment DEF CoveringScopes

\* SwitchInv is inductive: what the first read cannot know, the second does.
LEMMA SwitchStep ==
  ASSUME TypeOK, SwitchInv, [Next]_vars
  PROVE  SwitchInv'
<1>1. ASSUME NEW c \in Calls, CallStep(c) PROVE SwitchOf(c)'
  <2> SwitchOf(c)
    BY DEF SwitchInv
  <2> USE DEF TypeOK, Goto, SwitchOf, Cleared, Permitted, CoveringScopes,
              killVars, callVars, cacheVars, rateVars
  <2>1. CASE Arrive(c)
    BY <2>1 DEF Arrive
  <2>2. CASE KillGlobal(c)
    BY <2>2 DEF KillGlobal
  <2>3. CASE KillAgent(c)
    <3>1. UNCHANGED <<flag, env, tool, served, armed>> /\ pc[c] = "killAgent"
      BY <2>3 DEF KillAgent
    <3>2. /\ pc'[c] \in {"rate", "blockAudit"}
          /\ pc'[c] = "rate" => env[c].target \notin flag
      BY <2>3 DEF KillAgent
    <3>3. pc'[c] = "rate" => armed[c] = {}
      BY <3>1, <3>2
    <3> QED BY <3>1, <3>2, <3>3
  <2>4. CASE BlockAudit(c) \/ ParkAudit(c) \/ PostSuccess(c) \/ PostFailed(c)
    BY <2>4 DEF BlockAudit, ParkAudit, PostSuccess, PostFailed, AuditThen
  <2>5. CASE BlockLog(c) \/ ParkLog(c) \/ CacheLog(c) \/ DenyLog(c) \/ LogSuccess(c) \/ LogFailed(c)
    BY <2>5 DEF BlockLog, ParkLog, CacheLog, DenyLog, LogSuccess, LogFailed, LogThen
  <2>6. CASE RateLimit(c)
    BY <2>6 DEF RateLimit, AfterAdmission
  <2>7. CASE CacheGet(c) \/ Prewrite(c) \/ CacheSet(c)
    BY <2>7 DEF CacheGet, Prewrite, CacheSet
  <2>8. CASE ToolReturns(c) \/ ToolRaises(c) \/ ToolEffect(c)
    BY <2>8 DEF ToolReturns, ToolRaises, ToolEffect
  <2> QED BY <1>1, <2>1, <2>2, <2>3, <2>4, <2>5, <2>6, <2>7, <2>8 DEF CallStep, Progress
<1>2. ASSUME NEW c \in Calls, CallStep(c), NEW d \in Calls, d # c PROVE SwitchOf(d)'
  BY <1>2, OtherCalls DEF SwitchInv, SwitchOf, SameFor, CoveringScopes
<1>3. ASSUME OtherStep, NEW c \in Calls PROVE SwitchOf(c)'
  <2>1. armed'[c] \subseteq flag' \cap CoveringScopes(c)'
    BY <1>3, ArmedIsEngaged
  <2>2. pc'[c] \in {pc[c], "dropped"} /\ armed'[c] \subseteq armed[c]
        /\ tool' = tool /\ served' = served
    BY <1>3, Environment
  <2> QED BY <2>1, <2>2 DEF SwitchInv, SwitchOf, Cleared, Permitted
<1> QED BY <1>1, <1>2, <1>3, StepCases DEF SwitchInv

\* A call that arrives while a switch covering it is engaged, and that finds
\* it not released since, runs nothing and is given nothing, with any number
\* of administrators engaging and releasing any scopes meanwhile.
THEOREM GatewayHaltsNewCalls == Spec => []HaltsNewCalls
<1>1. Init => SwitchInv
  BY DEF Init, SwitchInv, SwitchOf, Cleared, Permitted
<1>2. TypeOK /\ SwitchInv /\ [Next]_vars => SwitchInv'
  BY SwitchStep
<1>3. SwitchInv => HaltsNewCalls
  BY DEF SwitchInv, SwitchOf, HaltsNewCalls
<1> QED BY <1>1, <1>2, <1>3, GatewayTypeCorrect, PTL DEF Spec
-----------------------------------------------------------------------------
(* The ledgers.                                                            *)

\* A ledger without rows contains none.
LEMMA EmptyLedger ==
  ASSUME NEW x
  PROVE  ~Contains(<<>>, x)
BY DEF Contains

\* What a write to audit_logs does to the ledgers of its call.
LEMMA AuditWritten ==
  ASSUME TypeOK, NEW c \in Calls, NEW row \in AuditRows, NEW next, NEW raised,
         AuditThen(c, row, next, raised)
  PROVE  /\ tool' = tool /\ calllog' = calllog
         /\ \/ pc'[c] = next /\ audit'[c] = Append(audit[c], row)
            \/ pc'[c] = raised /\ audit'[c] = Append(audit[c], row)
            \/ pc'[c] = raised /\ audit'[c] = audit[c]
         /\ Append(audit[c], row) # <<>>
         /\ Append(audit[c], row)[Len(Append(audit[c], row))] = row
         /\ audit[c] # <<>> => Append(audit[c], row)[1] = audit[c][1]
         /\ Contains(Append(audit[c], row), "SUCCESS")
               <=> row = "SUCCESS" \/ Contains(audit[c], "SUCCESS")
<1>1. audit[c] \in Seq(AuditRows)
  BY DEF TypeOK
<1>2. /\ tool' = tool /\ calllog' = calllog
      /\ \/ pc'[c] = next /\ audit'[c] = Append(audit[c], row)
         \/ pc'[c] = raised /\ audit'[c] = Append(audit[c], row)
         \/ pc'[c] = raised /\ audit'[c] = audit[c]
  BY DEF AuditThen, Goto, TypeOK
<1> QED BY <1>1, <1>2, AppendRow

\* What a write to mcp_call_log does to the ledgers of its call.
LEMMA LogWritten ==
  ASSUME TypeOK, NEW c \in Calls, NEW status \in LogRows, NEW next, NEW raised,
         LogThen(c, status, next, raised)
  PROVE  /\ tool' = tool /\ audit' = audit
         /\ \/ pc'[c] = next /\ calllog'[c] = Append(calllog[c], status)
            \/ pc'[c] = raised /\ calllog'[c] \in {calllog[c], Append(calllog[c], status)}
         /\ Append(calllog[c], status) # <<>>
         /\ Append(calllog[c], status)[Len(Append(calllog[c], status))] = status
         /\ calllog[c] = <<>> => Append(calllog[c], status) = <<status>>
<1>1. calllog[c] \in Seq(LogRows)
  BY DEF TypeOK
<1>2. /\ tool' = tool /\ audit' = audit
      /\ \/ pc'[c] = next /\ calllog'[c] = Append(calllog[c], status)
         \/ pc'[c] = raised /\ calllog'[c] \in {calllog[c], Append(calllog[c], status)}
  BY DEF LogThen, Goto, TypeOK
<1>3. /\ Append(calllog[c], status) # <<>>
      /\ Append(calllog[c], status)[Len(Append(calllog[c], status))] = status
  BY <1>1, AppendRow
<1>4. Append(<<>>, status) = <<status>>
  BY AppendToPre
<1> QED BY <1>2, <1>3, <1>4

\* The ledgers of a call whose attempt is taken for failed.
LEMMA TakenForFailed ==
  ASSUME NEW c \in Calls, pc'[c] = "postFailed", tool'[c] # "idle",
         calllog'[c] = <<>>, audit'[c] \in {<<"PRE">>, <<"PRE", "SUCCESS">>},
         audit'[c] # <<>>, audit'[c][1] = "PRE",
         Contains(audit'[c], "SUCCESS") => tool'[c] = "done"
  PROVE  LedgerOf(c)'
<1>1. FailureOf(c)'
  BY DEF FailureOf
<1> QED BY <1>1 DEF LedgerOf, Unwritten

\* LedgerOf is kept by each write of a call to audit_logs ...
LEMMA AuditWriteKeepsLedgers ==
  ASSUME TypeOK, NEW c \in Calls, LedgerOf(c),
         BlockAudit(c) \/ ParkAudit(c) \/ PostSuccess(c) \/ PostFailed(c)
  PROVE  LedgerOf(c)'
<1>0. {"BLOCKED", "PRE", "SUCCESS", "FAILED"} \subseteq AuditRows
  BY DEF AuditRows
<1>1. CASE BlockAudit(c)
  <2>1. pc[c] = "blockAudit" /\ AuditThen(c, "BLOCKED", "blockLog", "blockLog")
    BY <1>1 DEF BlockAudit
  <2>2. /\ tool' = tool /\ calllog' = calllog
        /\ \/ pc'[c] = "blockLog" /\ audit'[c] = Append(audit[c], "BLOCKED")
           \/ pc'[c] = "blockLog" /\ audit'[c] = Append(audit[c], "BLOCKED")
           \/ pc'[c] = "blockLog" /\ audit'[c] = audit[c]
        /\ Contains(Append(audit[c], "BLOCKED"), "SUCCESS")
              <=> "BLOCKED" = "SUCCESS" \/ Contains(audit[c], "SUCCESS")
    BY <2>1, <1>0, AuditWritten
  <2>3. tool[c] = "idle" /\ audit[c] = <<>> /\ calllog[c] = <<>>
    BY <2>1 DEF LedgerOf, FailureOf, Unwritten
  <2>4. Append(<<>>, "BLOCKED") = <<"BLOCKED">> /\ ~Contains(<<>>, "SUCCESS")
    BY AppendToPre, EmptyLedger
  <2>5. /\ pc'[c] = "blockLog" /\ tool'[c] = "idle" /\ calllog'[c] = <<>>
        /\ audit'[c] \in {<<>>, <<"BLOCKED">>}
        /\ ~Contains(audit'[c], "SUCCESS")
    BY <2>2, <2>3, <2>4
  <2> QED BY <2>5 DEF LedgerOf, FailureOf, Unwritten
<1>2. CASE ParkAudit(c)
  <2>1. pc[c] = "parkAudit" /\ AuditThen(c, "PRE", "parkLog", "raised")
    BY <1>2 DEF ParkAudit
  <2>2. /\ tool' = tool /\ calllog' = calllog
        /\ \/ pc'[c] = "parkLog" /\ audit'[c] = Append(audit[c], "PRE")
           \/ pc'[c] = "raised" /\ audit'[c] = Append(audit[c], "PRE")
           \/ pc'[c] = "raised" /\ audit'[c] = audit[c]
        /\ Contains(Append(audit[c], "PRE"), "SUCCESS")
              <=> "PRE" = "SUCCESS" \/ Contains(audit[c], "SUCCESS")
    BY <2>1, <1>0, AuditWritten
  <2>3. tool[c] = "idle" /\ audit[c] = <<>> /\ calllog[c] = <<>>
    BY <2>1 DEF LedgerOf, FailureOf, Unwritten
  <2>4. Append(<<>>, "PRE") = <<"PRE">> /\ ~Contains(<<>>, "SUCCESS")
    BY AppendToPre, EmptyLedger
  <2>5. /\ tool'[c] = "idle" /\ calllog'[c] = <<>>
        /\ ~Contains(audit'[c], "SUCCESS")
        /\ \/ pc'[c] = "parkLog" /\ audit'[c] = <<"PRE">>
           \/ pc'[c] = "raised"
    BY <2>2, <2>3, <2>4
  <2> QED BY <2>5 DEF LedgerOf, FailureOf, Unwritten
<1>3. CASE PostSuccess(c)
  <2>1. pc[c] = "postSuccess" /\ AuditThen(c, "SUCCESS", "logSuccess", "postFailed")
    BY <1>3 DEF PostSuccess
  <2>2. /\ tool' = tool /\ calllog' = calllog
        /\ \/ pc'[c] = "logSuccess" /\ audit'[c] = Append(audit[c], "SUCCESS")
           \/ pc'[c] = "postFailed" /\ audit'[c] = Append(audit[c], "SUCCESS")
           \/ pc'[c] = "postFailed" /\ audit'[c] = audit[c]
        /\ Append(audit[c], "SUCCESS") # <<>>
        /\ audit[c] # <<>> => Append(audit[c], "SUCCESS")[1] = audit[c][1]
    BY <2>1, <1>0, AuditWritten
  <2>3. /\ tool[c] = "done" /\ audit[c] = <<"PRE">> /\ calllog[c] = <<>>
        /\ audit[c] # <<>> /\ audit[c][1] = "PRE"
    BY <2>1 DEF LedgerOf
  <2>4. Append(<<"PRE">>, "SUCCESS") = <<"PRE", "SUCCESS">>
    <3>1. \A x, y \in AuditRows : Append(<<x>>, y) = <<x, y>>
      BY AppendToPre
    <3> QED BY <3>1, <1>0
  <2>5. /\ tool'[c] = "done" /\ calllog'[c] = <<>>
        /\ audit'[c] # <<>> /\ audit'[c][1] = "PRE"
        /\ \/ pc'[c] = "logSuccess" /\ audit'[c] = <<"PRE", "SUCCESS">>
           \/ pc'[c] = "postFailed" /\ audit'[c] \in {<<"PRE">>, <<"PRE", "SUCCESS">>}
    BY <2>2, <2>3, <2>4
  <2>6. CASE pc'[c] = "logSuccess"
    BY <2>5, <2>6 DEF LedgerOf, FailureOf, Unwritten
  <2>7. CASE pc'[c] = "postFailed"
    <3>1. /\ tool'[c] = "done" /\ calllog'[c] = <<>> /\ tool'[c] # "idle"
          /\ audit'[c] \in {<<"PRE">>, <<"PRE", "SUCCESS">>}
      BY <2>5, <2>7
    <3> QED BY <2>5, <2>7, <3>1, TakenForFailed
  <2> QED BY <2>5, <2>6, <2>7
<1>4. CASE PostFailed(c)
  <2>1. pc[c] = "postFailed" /\ AuditThen(c, "FAILED", "logFailed", "raised")
    BY <1>4 DEF PostFailed
  <2>2. /\ tool' = tool /\ calllog' = calllog
        /\ \/ pc'[c] = "logFailed" /\ audit'[c] = Append(audit[c], "FAILED")
           \/ pc'[c] = "raised" /\ audit'[c] = Append(audit[c], "FAILED")
           \/ pc'[c] = "raised" /\ audit'[c] = audit[c]
        /\ Append(audit[c], "FAILED") # <<>>
        /\ audit[c] # <<>> => Append(audit[c], "FAILED")[1] = audit[c][1]
        /\ Contains(Append(audit[c], "FAILED"), "SUCCESS")
              <=> "FAILED" = "SUCCESS" \/ Contains(audit[c], "SUCCESS")
    BY <2>1, <1>0, AuditWritten
  <2>3. /\ tool[c] # "idle" /\ audit[c] # <<>> /\ audit[c][1] = "PRE"
        /\ Contains(audit[c], "SUCCESS") => tool[c] = "done"
        /\ audit[c] \in {<<"PRE">>, <<"PRE", "SUCCESS">>}
        /\ calllog[c] = <<>> \/ (calllog[c] = <<"SUCCESS">> /\ audit[c] # <<"PRE">>)
    BY <2>1 DEF LedgerOf, FailureOf
  <2> DEFINE longer == Append(audit[c], "FAILED")
  <2> HIDE DEF longer
  <2>4. /\ tool'[c] # "idle" /\ audit'[c] # <<>> /\ audit'[c][1] = "PRE"
        /\ Contains(audit'[c], "SUCCESS") => tool'[c] = "done"
        /\ \/ pc'[c] = "logFailed" /\ audit'[c] = longer
           \/ pc'[c] = "raised"
    <3>1. /\ tool' = tool
          /\ \/ pc'[c] \in {"logFailed", "raised"} /\ audit'[c] = longer
             \/ pc'[c] = "raised" /\ audit'[c] = audit[c]
          /\ longer # <<>>
          /\ audit[c] # <<>> => longer[1] = audit[c][1]
          /\ Contains(longer, "SUCCESS") <=> Contains(audit[c], "SUCCESS")
      BY <2>2 DEF longer
    <3> QED BY <3>1, <2>3
  <2>5. /\ longer \in {<<"PRE", "FAILED">>, <<"PRE", "SUCCESS", "FAILED">>}
        /\ longer = <<"PRE", "FAILED">> => audit[c] = <<"PRE">>
    <3>1. <<"PRE", "SUCCESS", "FAILED">> # <<"PRE", "FAILED">>
      OBVIOUS
    <3> QED BY <2>3, <3>1, FailedTrails DEF longer
  <2>6. calllog' = calllog
    BY <2>2
  <2> QED BY <2>3, <2>4, <2>5, <2>6 DEF LedgerOf, FailureOf, Unwritten
<1> QED BY <1>1, <1>2, <1>3, <1>4

\* ... by each of its writes to mcp_call_log ...
LEMMA LogWriteKeepsLedgers ==
  ASSUME TypeOK, NEW c \in Calls, LedgerOf(c),
         \/ BlockLog(c) \/ ParkLog(c) \/ CacheLog(c)
         \/ DenyLog(c) \/ LogSuccess(c) \/ LogFailed(c)
  PROVE  LedgerOf(c)'
<1> USE DEF LedgerOf, FailureOf, Unwritten
<1>1. CASE BlockLog(c)
  <2>1. pc[c] = "blockLog" /\ LogThen(c, "BLOCKED", "BLOCKED", "raised")
    BY <1>1 DEF BlockLog
  <2> QED BY <2>1, LogWritten DEF LogRows
<1>2. CASE ParkLog(c)
  <2>1. pc[c] = "parkLog" /\ LogThen(c, "PARKED", "PARKED", "raised")
    BY <1>2 DEF ParkLog
  <2> QED BY <2>1, LogWritten DEF LogRows
<1>3. CASE CacheLog(c)
  <2>1. pc[c] = "cacheLog" /\ LogThen(c, "CACHED", "CACHED", "raised")
    BY <1>3 DEF CacheLog
  <2> QED BY <2>1, LogWritten DEF LogRows
<1>4. CASE DenyLog(c)
  <2>1. pc[c] = "denyLog" /\ LogThen(c, "FAILED", "DENIED", "raised")
    BY <1>4 DEF DenyLog
  <2> QED BY <2>1, LogWritten DEF LogRows
<1>5. CASE LogSuccess(c)
  <2> DEFINE next == IF Cacheable(env[c]) THEN "cacheSet" ELSE "SUCCESS"
  <2>1. pc[c] = "logSuccess" /\ LogThen(c, "SUCCESS", next, "postFailed")
    BY <1>5 DEF LogSuccess
  <2>2. next \in {"cacheSet", "SUCCESS"}
    OBVIOUS
  <2> HIDE DEF next
  <2>3. /\ tool' = tool /\ audit' = audit
        /\ \/ pc'[c] = next /\ calllog'[c] = <<"SUCCESS">>
           \/ pc'[c] = "postFailed" /\ calllog'[c] \in {<<>>, <<"SUCCESS">>}
    <3>1. "SUCCESS" \in LogRows /\ calllog[c] = <<>>
      BY <2>1 DEF LogRows
    <3>2. /\ tool' = tool /\ audit' = audit
          /\ \/ pc'[c] = next /\ calllog'[c] = Append(calllog[c], "SUCCESS")
             \/ /\ pc'[c] = "postFailed"
                /\ calllog'[c] \in {calllog[c], Append(calllog[c], "SUCCESS")}
          /\ Append(calllog[c], "SUCCESS") = <<"SUCCESS">>
      BY <2>1, <3>1, LogWritten
    <3> QED BY <3>1, <3>2
  <2>4. tool[c] = "done" /\ audit[c] = <<"PRE", "SUCCESS">> /\ audit[c] # <<"PRE">>
    <3>1. <<"PRE", "SUCCESS">> # <<"PRE">>
      OBVIOUS
    <3> QED BY <2>1, <3>1
  <2>5. CASE pc'[c] = "postFailed"
    BY <2>3, <2>4, <2>5
  <2>6. CASE pc'[c] = next
    BY <2>2, <2>3, <2>4, <2>6
  <2> QED BY <2>3, <2>5, <2>6
<1>6. CASE LogFailed(c)
  <2>1. pc[c] = "logFailed" /\ LogThen(c, "FAILED", "FAILED", "raised")
    BY <1>6 DEF LogFailed
  <2>2. /\ tool' = tool /\ audit' = audit
        /\ \/ pc'[c] = "FAILED" /\ calllog'[c] = Append(calllog[c], "FAILED")
           \/ pc'[c] = "raised"
    BY <2>1, LogWritten DEF LogRows
  <2>3. \/ calllog[c] = <<>> /\ Append(calllog[c], "FAILED") = <<"FAILED">>
        \/ /\ calllog[c] = <<"SUCCESS">> /\ audit[c] # <<"PRE", "FAILED">>
           /\ Append(calllog[c], "FAILED") = <<"SUCCESS", "FAILED">>
    <3>1. Append(<<>>, "FAILED") = <<"FAILED">>
      BY AppendToPre
    <3> QED BY <2>1, <3>1, FailedTrails
  <2>4. CASE pc'[c] = "FAILED"
    <3>1. calllog'[c] = Append(calllog[c], "FAILED")
      BY <2>2, <2>4
    <3> QED BY <2>1, <2>2, <2>3, <2>4, <3>1
  <2>5. CASE pc'[c] = "raised"
    BY <2>1, <2>2, <2>5
  <2> QED BY <2>2, <2>4, <2>5
<1> QED BY <1>1, <1>2, <1>3, <1>4, <1>5, <1>6

\* ... and by its other steps, the pre-write among them.
LEMMA CallKeepsLedgers ==
  ASSUME TypeOK, NEW c \in Calls, LedgerOf(c), CallStep(c)
  PROVE  LedgerOf(c)'
<1> USE DEF TypeOK, Goto, LedgerOf, FailureOf, Unwritten, killVars, callVars, cacheVars, rateVars
<1>1. CASE Arrive(c) \/ KillGlobal(c) \/ KillAgent(c) \/ RateLimit(c)
  BY <1>1 DEF Arrive, KillGlobal, KillAgent, RateLimit, AfterAdmission
<1>2. CASE CacheGet(c)
  BY <1>2 DEF CacheGet
<1>5. CASE CacheSet(c)
  <2>1. /\ pc[c] = "cacheSet" /\ pc'[c] \in {"SUCCESS", "postFailed"}
        /\ UNCHANGED <<audit, calllog, tool>>
    BY <1>5 DEF CacheSet
  <2>2. <<"PRE", "SUCCESS">> # <<"PRE">>
    OBVIOUS
  <2> QED BY <2>1, <2>2
<1>3. CASE ToolReturns(c) \/ ToolRaises(c) \/ ToolEffect(c)
  <2>1. CASE ToolReturns(c) \/ ToolRaises(c)
    <3>1. /\ pc[c] = "executing" /\ UNCHANGED <<audit, calllog, tool>>
          /\ (pc'[c] = "postSuccess" /\ tool[c] = "done") \/ pc'[c] = "postFailed"
      BY <2>1 DEF ToolReturns, ToolRaises
    <3>2. /\ audit[c] = <<"PRE">> /\ calllog[c] = <<>> /\ tool[c] # "idle"
          /\ audit[c] # <<>> /\ audit[c][1] = "PRE"
          /\ Contains(audit[c], "SUCCESS") => tool[c] = "done"
      BY <3>1
    <3>3. CASE pc'[c] = "postFailed"
      <4>1. /\ tool'[c] # "idle" /\ calllog'[c] = <<>> /\ audit'[c] = <<"PRE">>
            /\ audit'[c] # <<>> /\ audit'[c][1] = "PRE"
            /\ Contains(audit'[c], "SUCCESS") => tool'[c] = "done"
        BY <3>1, <3>2
      <4> QED BY <3>3, <4>1, TakenForFailed
    <3>4. CASE pc'[c] = "postSuccess" /\ tool[c] = "done"
      BY <3>1, <3>2, <3>4
    <3> QED BY <3>1, <3>3, <3>4
  <2>2. CASE ToolEffect(c)
    BY <2>2 DEF ToolEffect
  <2> QED BY <1>3, <2>1, <2>2
<1>4. CASE Prewrite(c)
  <2>1. Append(<<>>, "PRE") = <<"PRE">> /\ <<"PRE">>[1] = "PRE" /\ <<"PRE">> # <<>>
    BY AppendToPre
  <2>2. ~Contains(<<"PRE">>, "SUCCESS") /\ ~Contains(<<>>, "SUCCESS")
    BY EmptyLedger DEF Contains
  <2>3. /\ pc[c] = "prewrite" /\ tool[c] = "idle" /\ audit[c] = <<>> /\ calllog[c] = <<>>
        /\ calllog'[c] = calllog[c]
        /\ \/ pc'[c] = "executing" /\ audit'[c] = Append(<<>>, "PRE") /\ tool'[c] = "sent"
           \/ /\ pc'[c] = "denyLog" /\ tool'[c] = "idle"
              /\ audit'[c] \in {<<>>, Append(<<>>, "PRE")}
    BY <1>4 DEF Prewrite
  <2> QED BY <2>1, <2>2, <2>3
<1> QED BY <1>1, <1>2, <1>3, <1>4, <1>5, AuditWriteKeepsLedgers, LogWriteKeepsLedgers
     DEF CallStep, Progress

\* LedgerInv is inductive.
LEMMA LedgerStep ==
  ASSUME TypeOK, LedgerInv, [Next]_vars
  PROVE  LedgerInv'
<1>1. ASSUME NEW c \in Calls, CallStep(c) PROVE LedgerOf(c)'
  BY <1>1, CallKeepsLedgers DEF LedgerInv
<1>2. ASSUME NEW c \in Calls, CallStep(c), NEW d \in Calls, d # c PROVE LedgerOf(d)'
  BY <1>2, OtherCalls DEF LedgerInv, LedgerOf, FailureOf, SameFor
<1>3. ASSUME OtherStep, NEW c \in Calls PROVE LedgerOf(c)'
  BY <1>3, Environment DEF LedgerInv, LedgerOf, FailureOf, Unwritten
<1> QED BY <1>1, <1>2, <1>3, StepCases DEF LedgerInv

\* At every operation of every call its two ledgers are what LedgerOf says.
THEOREM GatewayLedgers == Spec => []LedgerInv
<1>1. Init => LedgerInv
  BY EmptyLedger DEF Init, LedgerInv, LedgerOf, FailureOf, Unwritten
<1>2. TypeOK /\ LedgerInv /\ [Next]_vars => LedgerInv'
  BY LedgerStep
<1> QED BY <1>1, <1>2, GatewayTypeCorrect, PTL DEF Spec

\* No tool is asked before its call's pre-write has committed, and SUCCESS is
\* audited only for a tool that has taken effect.
THEOREM GatewayAuditBeforeExecution == Spec => []AuditBeforeExecution
<1>1. LedgerInv => AuditBeforeExecution
  BY DEF LedgerInv, LedgerOf, AuditBeforeExecution
<1> QED BY <1>1, GatewayLedgers, PTL

\* What an answered caller was told fixes what the tool was asked and the rows
\* of both ledgers, but for the rows that LedgersMatchAnswer lists as missing
\* from audit_logs or superseded there.
THEOREM GatewayLedgersMatchAnswer == Spec => []LedgersMatchAnswer
<1>1. LedgerInv => LedgersMatchAnswer
  BY DEF LedgerInv, LedgerOf, FailureOf, LedgersMatchAnswer
<1> QED BY <1>1, GatewayLedgers, PTL
-----------------------------------------------------------------------------
(* The cache.                                                              *)

\* Rows are never removed from a ledger.
LEMMA LedgersGrow ==
  ASSUME TypeOK, NEW c \in Calls, CallStep(c), NEW x
  PROVE  /\ Contains(audit[c], x) => Contains(audit'[c], x)
         /\ Contains(calllog[c], x) => Contains(calllog'[c], x)
<1>1. audit[c] \in Seq(AuditRows) /\ calllog[c] \in Seq(LogRows)
  BY DEF TypeOK
<1>2. /\ audit'[c] = audit[c] \/ \E row \in AuditRows : audit'[c] = Append(audit[c], row)
      /\ \/ calllog'[c] = calllog[c]
         \/ \E status \in LogRows : calllog'[c] = Append(calllog[c], status)
  <2> USE DEF TypeOK, callVars, AuditRows, LogRows
  <2>1. CASE BlockAudit(c) \/ ParkAudit(c) \/ PostSuccess(c) \/ PostFailed(c)
    BY <2>1 DEF BlockAudit, ParkAudit, PostSuccess, PostFailed, AuditThen
  <2>2. CASE BlockLog(c) \/ ParkLog(c) \/ CacheLog(c) \/ DenyLog(c) \/ LogSuccess(c) \/ LogFailed(c)
    BY <2>2 DEF BlockLog, ParkLog, CacheLog, DenyLog, LogSuccess, LogFailed, LogThen
  <2>3. CASE Arrive(c) \/ KillGlobal(c) \/ KillAgent(c) \/ RateLimit(c) \/ CacheGet(c) \/ CacheSet(c)
    BY <2>3 DEF Arrive, KillGlobal, KillAgent, RateLimit, CacheGet, CacheSet
  <2>4. CASE Prewrite(c) \/ ToolReturns(c) \/ ToolRaises(c) \/ ToolEffect(c)
    BY <2>4 DEF Prewrite, ToolReturns, ToolRaises, ToolEffect
  <2> QED BY <2>1, <2>2, <2>3, <2>4 DEF CallStep, Progress
<1>3. \A row \in AuditRows : Contains(audit[c], x) => Contains(Append(audit[c], row), x)
  BY <1>1, AppendRow
<1>4. \A status \in LogRows : Contains(calllog[c], x) => Contains(Append(calllog[c], status), x)
  BY <1>1, AppendRow
<1> QED BY <1>2, <1>3, <1>4

\* A tool that has taken effect is not asked again.
LEMMA ToolStaysDone ==
  ASSUME TypeOK, LedgerInv, NEW c \in Calls, CallStep(c), tool[c] = "done"
  PROVE  tool'[c] = "done" /\ env' = env
<1> USE DEF TypeOK, killVars, callVars, cacheVars, rateVars
<1>1. CASE BlockAudit(c) \/ ParkAudit(c) \/ PostSuccess(c) \/ PostFailed(c)
  BY <1>1 DEF BlockAudit, ParkAudit, PostSuccess, PostFailed, AuditThen
<1>2. CASE BlockLog(c) \/ ParkLog(c) \/ CacheLog(c) \/ DenyLog(c) \/ LogSuccess(c) \/ LogFailed(c)
  BY <1>2 DEF BlockLog, ParkLog, CacheLog, DenyLog, LogSuccess, LogFailed, LogThen
<1>3. CASE Arrive(c) \/ KillGlobal(c) \/ KillAgent(c) \/ RateLimit(c) \/ CacheGet(c) \/ CacheSet(c)
  BY <1>3 DEF Arrive, KillGlobal, KillAgent, RateLimit, CacheGet, CacheSet
<1>4. CASE ToolReturns(c) \/ ToolRaises(c) \/ ToolEffect(c)
  BY <1>4 DEF ToolReturns, ToolRaises, ToolEffect
<1>5. ~Prewrite(c)
  BY DEF Prewrite, LedgerInv, LedgerOf, Unwritten
<1> QED BY <1>1, <1>2, <1>3, <1>4, <1>5 DEF CallStep, Progress

\* A result that may be reused stays so.
LEMMA ReusableStays ==
  ASSUME TypeOK, LedgerInv, [Next]_vars, NEW o \in Calls, Reusable(o)
  PROVE  Reusable(o)' /\ env' = env
<1>1. ASSUME CallStep(o) PROVE Reusable(o)' /\ env' = env
  BY <1>1, LedgersGrow, ToolStaysDone DEF Reusable
<1>2. ASSUME NEW c \in Calls, CallStep(c), o # c PROVE Reusable(o)' /\ env' = env
  BY <1>2, OtherCalls DEF Reusable, SameFor
<1>3. ASSUME OtherStep PROVE Reusable(o)' /\ env' = env
  BY <1>3, Environment DEF Reusable
<1> QED BY <1>1, <1>2, <1>3, StepCases

\* What a step may put in the cache, or take from it.
LEMMA CacheChanges ==
  ASSUME TypeOK, [Next]_vars
  PROVE  /\ \A k \in CacheKeys : cache'[k] # NoCall => cache'[k] = cache[k] \/
               \E c \in Calls : CacheSet(c) /\ cache'[k] = c /\ k = CacheKey(env[c])
         /\ \A c \in Calls : served'[c] # NoCall => served'[c] = served[c] \/
               (served'[c] = cache[CacheKey(env[c])] /\ cache[CacheKey(env[c])] # NoCall)
         /\ \A c \in Calls : pc'[c] = "cacheSet" => pc[c] = "cacheSet" \/ LogSuccess(c)
         /\ env' = env
<1> DEFINE CacheOK == \A k \in CacheKeys : cache'[k] # NoCall => cache'[k] = cache[k] \/
               \E c \in Calls : CacheSet(c) /\ cache'[k] = c /\ k = CacheKey(env[c])
           ServedOK == \A c \in Calls : served'[c] # NoCall => served'[c] = served[c] \/
               (served'[c] = cache[CacheKey(env[c])] /\ cache[CacheKey(env[c])] # NoCall)
           StageOK == \A c \in Calls :
               pc'[c] = "cacheSet" => pc[c] = "cacheSet" \/ LogSuccess(c)
<1> USE DEF TypeOK, Goto, killVars, callVars, cacheVars, rateVars
<1>1. ASSUME NEW c \in Calls, CallStep(c) PROVE CacheOK /\ ServedOK /\ StageOK /\ env' = env
  <2>1. CASE BlockAudit(c) \/ ParkAudit(c) \/ PostSuccess(c) \/ PostFailed(c)
    BY <2>1 DEF BlockAudit, ParkAudit, PostSuccess, PostFailed, AuditThen
  <2>2. CASE BlockLog(c) \/ ParkLog(c) \/ CacheLog(c) \/ DenyLog(c) \/ LogFailed(c)
    BY <2>2 DEF BlockLog, ParkLog, CacheLog, DenyLog, LogFailed, LogThen
  <2>3. CASE LogSuccess(c)
    <3>1. UNCHANGED <<env, cache, served>> /\ \A d \in Calls \ {c} : pc'[d] = pc[d]
      BY <2>3 DEF LogSuccess, LogThen
    <3> QED BY <2>3, <3>1
  <2>4. CASE CacheSet(c)
    <3>1. UNCHANGED <<env, served>>
          /\ \A d \in Calls : pc'[d] \in {pc[d], "SUCCESS", "postFailed"}
      BY <2>4 DEF CacheSet
    <3>2. cache' = [cache EXCEPT ![CacheKey(env[c])] = c] \/ cache' = cache
      BY <2>4 DEF CacheSet
    <3> QED BY <2>4, <3>1, <3>2
  <2>5. CASE CacheGet(c)
    BY <2>5 DEF CacheGet
  <2>6. CASE Arrive(c) \/ KillGlobal(c) \/ KillAgent(c)
    BY <2>6 DEF Arrive, KillGlobal, KillAgent
  <2>7. CASE RateLimit(c)
    BY <2>7 DEF RateLimit, AfterAdmission
  <2>8. CASE Prewrite(c) \/ ToolReturns(c) \/ ToolRaises(c) \/ ToolEffect(c)
    BY <2>8 DEF Prewrite, ToolReturns, ToolRaises, ToolEffect
  <2> QED BY <1>1, <2>1, <2>2, <2>3, <2>4, <2>5, <2>6, <2>7, <2>8 DEF CallStep, Progress
<1>2. ASSUME OtherStep PROVE CacheOK /\ ServedOK /\ StageOK /\ env' = env
  <2>1. ServedOK /\ StageOK /\ env' = env
    BY <1>2, Environment
  <2>2. CASE \E k \in CacheKeys : CacheExpire(k)
    BY <2>1, <2>2 DEF CacheExpire
  <2>3. CASE Crash \/ RedisLosesKeys
    BY <2>1, <2>3 DEF Crash, RedisLosesKeys
  <2>4. CASE ClockTick \/ UNCHANGED vars
    BY <2>1, <2>4 DEF ClockTick, vars
  <2>5. ASSUME NEW a \in Admins, RecordSwitch(a) PROVE CacheOK
    BY <2>5 DEF RecordSwitch
  <2>6. ASSUME NEW a \in Admins, NEW s \in KillScopes, EngageSwitch(a, s) \/ ReleaseSwitch(a, s)
        PROVE  CacheOK
    BY <2>6 DEF EngageSwitch, ReleaseSwitch
  <2> QED BY <1>2, <2>1, <2>2, <2>3, <2>4, <2>5, <2>6 DEF OtherStep
<1> QED BY <1>1, <1>2, StepCases

\* CacheInv is inductive.
LEMMA CacheStep ==
  ASSUME TypeOK, LedgerInv, CacheInv, [Next]_vars
  PROVE  CacheInv'
<1>1. env' = env /\ \A k \in CacheKeys : cache[k] \in Calls \cup {NoCall}
  BY CacheChanges DEF TypeOK
<1>2. ASSUME NEW c \in Calls, pc'[c] = "cacheSet" PROVE Reusable(c)'
  <2>1. CASE pc[c] = "cacheSet"
    BY <2>1, ReusableStays DEF CacheInv
  <2>2. CASE LogSuccess(c)
    <3>1. pc[c] = "logSuccess" /\ LogThen(c, "SUCCESS",
              IF Cacheable(env[c]) THEN "cacheSet" ELSE "SUCCESS", "postFailed")
      BY <2>2 DEF LogSuccess
    <3>2. tool'[c] = "done" /\ audit'[c] = <<"PRE", "SUCCESS">> /\ Cacheable(env[c])
          /\ calllog[c] = <<>> /\ calllog'[c] = Append(calllog[c], "SUCCESS")
      BY <1>2, <3>1 DEF LogThen, Goto, TypeOK, LedgerInv, LedgerOf
    <3>3. Contains(<<"PRE", "SUCCESS">>, "SUCCESS")
      BY DEF Contains
    <3>4. Contains(calllog'[c], "SUCCESS")
      BY <3>2, AppendToPre DEF Contains
    <3> QED BY <3>2, <3>3, <3>4, <1>1 DEF Reusable, Cacheable
  <2> QED BY <1>2, <2>1, <2>2, CacheChanges
<1>3. ASSUME NEW k \in CacheKeys, NEW o, o = cache'[k], o # NoCall
      PROVE  Reusable(o)' /\ CacheKey(env'[o]) = k
  <2>1. CASE o = cache[k]
    <3>1. o \in Calls /\ Reusable(o) /\ CacheKey(env[o]) = k
      BY <1>1, <1>3, <2>1 DEF CacheInv
    <3> QED BY <1>1, <3>1, ReusableStays
  <2>2. ASSUME NEW c \in Calls, CacheSet(c), o = c, k = CacheKey(env[c])
        PROVE  Reusable(o)' /\ CacheKey(env'[o]) = k
    <3>1. Reusable(c)
      BY <2>2 DEF CacheInv, CacheSet
    <3>2. Reusable(c)'
      BY <3>1, ReusableStays
    <3> QED BY <1>1, <2>2, <3>2
  <2> QED BY <1>3, <2>1, <2>2, CacheChanges
<1>4. ASSUME NEW c \in Calls, NEW o, o = served'[c], o # NoCall
      PROVE  Reusable(o)' /\ CacheKey(env'[o]) = CacheKey(env'[c])
  <2>1. CacheKey(env[c]) \in CacheKeys /\ served[c] \in Calls \cup {NoCall}
    BY DEF TypeOK, CacheKeys
  <2>2. o = served[c] \/ o = cache[CacheKey(env[c])]
    BY <1>4, CacheChanges
  <2>3. o \in Calls /\ Reusable(o) /\ CacheKey(env[o]) = CacheKey(env[c])
    BY <1>1, <1>4, <2>1, <2>2 DEF CacheInv
  <2> QED BY <1>1, <2>3, ReusableStays
<1> QED BY <1>2, <1>3, <1>4 DEF CacheInv, Reusable

\* A cached answer is that of a call with the same action and content whose
\* tool ran, whose success both ledgers hold, and which writes nothing.
THEOREM GatewayCachedAnswers == Spec => []CachedAnswersAreAudited
<1>1. Init => CacheInv
  BY DEF Init, CacheInv
<1>2. TypeOK /\ LedgerInv /\ CacheInv /\ [Next]_vars => CacheInv'
  BY CacheStep
<1>3. CacheInv => CachedAnswersAreAudited
  BY DEF CacheInv, Reusable, CachedAnswersAreAudited
<1> QED BY <1>1, <1>2, <1>3, GatewayTypeCorrect, GatewayLedgers, PTL DEF Spec
-----------------------------------------------------------------------------
(* The rate limit.                                                         *)

\* The operations before the answer of the rate limiter.
Unlimited == {"new", "killGlobal", "killAgent", "rate"}

\* The calls of a requester let through in a window.
AdmittedIn(r, w) ==
    {c \in Calls : admitted[c] /\ env[c].requester = r /\ win[c] = w}

\* Only a call that is past the limiter is let through, and its window fixed.
PastLimiter == \A c \in Calls : admitted[c] => pc[c] \notin Unlimited

\* The counter of a window is never behind the calls it let through.
WithinCount ==
    \A r \in Requesters, w \in Windows :
        /\ IsFiniteSet(AdmittedIn(r, w))
        /\ Cardinality(AdmittedIn(r, w)) <= count[<<r, w>>]
        /\ Cardinality(AdmittedIn(r, w)) <= PerMinute

RateInv == PastLimiter /\ WithinCount

\* Only the limiter, the read before it and a loss of Redis' keys touch what
\* the limit is about.
LEMMA RateUntouched ==
  ASSUME TypeOK, [Next]_vars, ~RedisLosesKeys,
         \A c \in Calls : ~RateLimit(c) /\ ~KillAgent(c)
  PROVE  UNCHANGED <<env, win, count, admitted>>
<1> USE DEF killVars, callVars, cacheVars, rateVars
<1>1. ASSUME NEW c \in Calls, CallStep(c) PROVE UNCHANGED <<env, win, count, admitted>>
  <2>1. CASE Arrive(c) \/ KillGlobal(c)
    BY <2>1 DEF Arrive, KillGlobal
  <2>2. CASE BlockAudit(c) \/ ParkAudit(c) \/ PostSuccess(c) \/ PostFailed(c)
    BY <2>2 DEF BlockAudit, ParkAudit, PostSuccess, PostFailed, AuditThen
  <2>3. CASE BlockLog(c) \/ ParkLog(c) \/ CacheLog(c) \/ DenyLog(c) \/ LogSuccess(c) \/ LogFailed(c)
    BY <2>3 DEF BlockLog, ParkLog, CacheLog, DenyLog, LogSuccess, LogFailed, LogThen
  <2>4. CASE CacheGet(c) \/ Prewrite(c) \/ CacheSet(c)
    BY <2>4 DEF CacheGet, Prewrite, CacheSet
  <2>5. CASE ToolReturns(c) \/ ToolRaises(c) \/ ToolEffect(c)
    BY <2>5 DEF ToolReturns, ToolRaises, ToolEffect
  <2> QED BY <1>1, <2>1, <2>2, <2>3, <2>4, <2>5 DEF CallStep, Progress
<1>2. ASSUME OtherStep PROVE UNCHANGED <<env, win, count, admitted>>
  BY <1>2 DEF OtherStep, EngageSwitch, ReleaseSwitch, RecordSwitch, ClockTick, CacheExpire,
              Crash, vars
<1> QED BY <1>1, <1>2, StepCases

\* A call past the limiter stays past it.
LEMMA StaysLimited ==
  ASSUME TypeOK, [Next]_vars, NEW c \in Calls, pc[c] \notin Unlimited
  PROVE  pc'[c] \notin Unlimited
<1> USE DEF TypeOK, Goto, Unlimited, killVars, callVars, cacheVars, rateVars
<1>1. ASSUME CallStep(c) PROVE pc'[c] \notin Unlimited
  <2>1. CASE Arrive(c) \/ KillGlobal(c) \/ KillAgent(c) \/ RateLimit(c)
    BY <2>1 DEF Arrive, KillGlobal, KillAgent, RateLimit
  <2>2. CASE BlockAudit(c) \/ ParkAudit(c) \/ PostSuccess(c) \/ PostFailed(c)
    BY <2>2 DEF BlockAudit, ParkAudit, PostSuccess, PostFailed, AuditThen
  <2>3. CASE BlockLog(c) \/ ParkLog(c) \/ CacheLog(c) \/ DenyLog(c) \/ LogSuccess(c) \/ LogFailed(c)
    BY <2>3 DEF BlockLog, ParkLog, CacheLog, DenyLog, LogSuccess, LogFailed, LogThen
  <2>4. CASE CacheGet(c) \/ Prewrite(c) \/ CacheSet(c)
    BY <2>4 DEF CacheGet, Prewrite, CacheSet
  <2>5. CASE ToolReturns(c) \/ ToolRaises(c) \/ ToolEffect(c)
    BY <2>5 DEF ToolReturns, ToolRaises, ToolEffect
  <2> QED BY <1>1, <2>1, <2>2, <2>3, <2>4, <2>5 DEF CallStep, Progress
<1>2. ASSUME NEW d \in Calls, CallStep(d), d # c PROVE pc'[c] \notin Unlimited
  BY <1>2, OtherCalls DEF SameFor
<1>3. ASSUME OtherStep PROVE pc'[c] \notin Unlimited
  BY <1>3, Environment
<1> QED BY <1>1, <1>2, <1>3, StepCases

\* The increment that lets a call through counts it.
LEMMA RateLimitCounts ==
  ASSUME TypeOK, RateInv, NEW c \in Calls, RateLimit(c),
         NEW r \in Requesters, NEW w \in Windows
  PROVE  /\ IsFiniteSet(AdmittedIn(r, w)')
         /\ Cardinality(AdmittedIn(r, w)') <= count'[<<r, w>>]
         /\ Cardinality(AdmittedIn(r, w)') <= PerMinute
<1> DEFINE key == <<env[c].requester, win[c]>>
           S == AdmittedIn(r, w)
<1>1. /\ key \in Requesters \X Windows /\ <<r, w>> \in Requesters \X Windows
      /\ count \in [Requesters \X Windows -> Nat] /\ PerMinute \in Nat
      /\ admitted \in [Calls -> BOOLEAN]
  BY GatewayAssumption DEF TypeOK, Envelope
<1>2. /\ IsFiniteSet(S) /\ Cardinality(S) <= count[<<r, w>>] /\ Cardinality(S) <= PerMinute
      /\ Cardinality(S) \in Nat
  BY FS_CardinalityType DEF RateInv, PastLimiter, WithinCount
<1>3. ~admitted[c] /\ env' = env /\ win' = win
  BY DEF RateLimit, RateInv, PastLimiter, Unlimited, callVars
<1>4. CASE admitted' = [admitted EXCEPT ![c] = TRUE]
           /\ count' = [count EXCEPT ![key] = @ + 1] /\ count'[key] <= PerMinute
  <2>1. CASE key = <<r, w>>
    <3>1. S' = S \cup {c} /\ c \notin S
      BY <1>1, <1>3, <1>4, <2>1 DEF AdmittedIn
    <3>2. IsFiniteSet(S \cup {c}) /\ Cardinality(S \cup {c}) = Cardinality(S) + 1
      BY <1>2, <3>1, FS_AddElement
    <3>3. count'[<<r, w>>] = count[<<r, w>>] + 1 /\ count[<<r, w>>] \in Nat
      <4> HIDE DEF key
      <4> QED BY <1>1, <1>4, <2>1
    <3> HIDE DEF S, key
    <3>4. S' = S \cup {c} /\ count'[<<r, w>>] <= PerMinute
      BY <1>4, <2>1, <3>1
    <3> QED BY <1>1, <1>2, <3>2, <3>3, <3>4 DEF S
  <2>2. CASE key # <<r, w>>
    <3>1. S' = S
      BY <1>1, <1>3, <1>4, <2>2 DEF AdmittedIn
    <3>2. count'[<<r, w>>] = count[<<r, w>>]
      <4> HIDE DEF key
      <4> QED BY <1>1, <1>4, <2>2
    <3> QED BY <1>2, <3>1, <3>2
  <2> QED BY <2>1, <2>2
<1>5. CASE admitted' = admitted
           /\ (count' = [count EXCEPT ![key] = @ + 1] \/ count' = count)
  <2>1. S' = S
    BY <1>3, <1>5 DEF AdmittedIn
  <2>2. count'[<<r, w>>] >= count[<<r, w>>] /\ count'[<<r, w>>] \in Nat
        /\ count[<<r, w>>] \in Nat
    <3> HIDE DEF key
    <3> QED BY <1>1, <1>5
  <2> HIDE DEF S
  <2>3. /\ IsFiniteSet(S') /\ Cardinality(S') <= count'[<<r, w>>] /\ Cardinality(S') <= PerMinute
    BY <1>2, <2>1, <2>2
  <2> QED BY <2>3 DEF S
<1> QED BY <1>4, <1>5 DEF RateLimit

\* RateInv is inductive.
LEMMA RateStep ==
  ASSUME TypeOK, RateInv, [Next]_vars
  PROVE  RateInv'
<1>1. ASSUME NEW c \in Calls, RateLimit(c) PROVE WithinCount' /\ PastLimiter'
  <2>1. WithinCount'
    BY <1>1, RateLimitCounts DEF WithinCount
  <2>2. ASSUME NEW d \in Calls, admitted'[d] PROVE pc'[d] \notin Unlimited
    <3>1. CASE d = c
      BY <1>1, <3>1, Decisions DEF RateLimit, AfterAdmission, Goto, Unlimited, TypeOK
    <3>2. CASE d # c
      <4>1. admitted[d]
        BY <1>1, <2>2, <3>2 DEF RateLimit, TypeOK
      <4> QED BY <4>1, StaysLimited DEF RateInv, PastLimiter, WithinCount
    <3> QED BY <3>1, <3>2
  <2> QED BY <2>1, <2>2 DEF PastLimiter
<1>2. ASSUME NEW c \in Calls, KillAgent(c) PROVE WithinCount' /\ PastLimiter'
  <2>1. /\ ~admitted[c] /\ UNCHANGED <<env, count, admitted>>
        /\ \A d \in Calls \ {c} : win'[d] = win[d]
    BY <1>2 DEF KillAgent, RateInv, PastLimiter, Unlimited, callVars, TypeOK
  <2>2. \A r \in Requesters, w \in Windows : AdmittedIn(r, w)' = AdmittedIn(r, w)
    BY <2>1 DEF AdmittedIn
  <2> QED BY <2>1, <2>2, StaysLimited DEF RateInv, PastLimiter, WithinCount
<1>3. ASSUME RedisLosesKeys PROVE WithinCount' /\ PastLimiter'
  <2>1. /\ \A c \in Calls : ~admitted'[c]
        /\ \A r \in Requesters, w \in Windows : count'[<<r, w>>] = 0
    BY <1>3 DEF RedisLosesKeys, NoCounts
  <2>2. \A r \in Requesters, w \in Windows : AdmittedIn(r, w)' = {}
    BY <2>1 DEF AdmittedIn
  <2>3. PerMinute \in Nat /\ IsFiniteSet({}) /\ Cardinality({}) = 0
    BY FS_EmptySet, GatewayAssumption
  <2>4. WithinCount'
    <3>1. ASSUME NEW r \in Requesters, NEW w \in Windows
          PROVE  /\ IsFiniteSet(AdmittedIn(r, w)')
                 /\ Cardinality(AdmittedIn(r, w)') <= count'[<<r, w>>]
                 /\ Cardinality(AdmittedIn(r, w)') <= PerMinute
      <4>1. AdmittedIn(r, w)' = {} /\ count'[<<r, w>>] = 0
        BY <2>1, <2>2
      <4> QED BY <2>3, <4>1
    <3> QED BY <3>1 DEF WithinCount
  <2> QED BY <2>1, <2>4 DEF PastLimiter
<1>4. CASE ~RedisLosesKeys /\ \A c \in Calls : ~RateLimit(c) /\ ~KillAgent(c)
  <2>1. UNCHANGED <<env, win, count, admitted>>
    BY <1>4, RateUntouched
  <2>2. \A r \in Requesters, w \in Windows : AdmittedIn(r, w)' = AdmittedIn(r, w)
    BY <2>1 DEF AdmittedIn
  <2> QED BY <2>1, <2>2, StaysLimited DEF RateInv, PastLimiter, WithinCount
<1> QED BY <1>1, <1>2, <1>3, <1>4 DEF RateInv

\* On one set of Redis counters no requester has more than PerMinute calls let
\* through per window, for any number of concurrent calls.
THEOREM GatewayRateBound == Spec => []RateBound
<1>1. Init => RateInv
  <2> SUFFICES ASSUME Init PROVE RateInv
    OBVIOUS
  <2>1. /\ \A c \in Calls : ~admitted[c]
        /\ \A r \in Requesters, w \in Windows : count[<<r, w>>] = 0
    BY DEF Init, NoCounts
  <2>2. \A r, w : AdmittedIn(r, w) = {}
    BY <2>1 DEF AdmittedIn
  <2> QED BY <2>1, <2>2, FS_EmptySet, GatewayAssumption DEF RateInv, PastLimiter, WithinCount
<1>2. TypeOK /\ RateInv /\ [Next]_vars => RateInv'
  BY RateStep
<1>3. RateInv => RateBound
  BY DEF RateInv, PastLimiter, WithinCount, AdmittedIn, RateBound
<1> QED BY <1>1, <1>2, <1>3, GatewayTypeCorrect, PTL DEF Spec

=============================================================================
