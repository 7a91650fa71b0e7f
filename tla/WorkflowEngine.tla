--------------------------- MODULE WorkflowEngine ---------------------------
(***************************************************************************)
(* The workflow engine of the orchestrator with its human gate and its     *)
(* module breakers (nobleport-systems/orchestrator/nobleport:              *)
(* workflows/engine.py, human_gate.py, registry.py, api.py).               *)
(*                                                                         *)
(* One asyncio process runs it.  The engine awaits nothing but the handle  *)
(* of an agent, so one action stands for the code from the answer of a     *)
(* handle, or from a request of the API, to the next handle or the end of  *)
(* the request.  A handle may take any time and may raise.  Everything is  *)
(* in the memory of the process: a restart is Init.                        *)
(***************************************************************************)
EXTENDS ModuleCatalog

CONSTANT BreakerThreshold   \* BREAKER_THRESHOLD

ASSUME ThresholdAssumption == BreakerThreshold \in Nat \ {0}

VARIABLES
    state,     \* run -> its WorkflowState, or "new"
    cursor,    \* run -> steps taken
    results,   \* run -> its StepResults
    pending,   \* run -> pending_approval_id, or 0
    handle,    \* run -> what is known of the handle it awaits
    requests,  \* the ApprovalRequests, numbered in the order of their creation
    health,    \* module -> its ModuleHealth
    outcomes   \* module -> how its handles ended, oldest first

runVars == <<state, cursor, results, pending, handle>>
vars == <<runVars, requests, health, outcomes>>

\* A step that was handled, for real or simulated, or only prepared.
StepResult == [step: Nat, prepared: BOOLEAN, simulated: BOOLEAN, approved: BOOLEAN]
Handle == [simulate: BOOLEAN, approved: BOOLEAN]
NoHandle == [simulate |-> FALSE, approved |-> FALSE]
ApprovalRequest == [run: Runs, step: Nat, state: {"PENDING", "APPROVED", "REJECTED"}]
ModuleHealth == [healthy: BOOLEAN, failures: Nat, tripped: BOOLEAN]

TypeOK ==
    /\ state \in [Runs -> {"new", "RUNNING", "AWAITING_APPROVAL", "COMPLETED",
                           "REJECTED", "FAILED"}]
    /\ cursor \in [Runs -> Nat]
    /\ results \in [Runs -> Seq(StepResult)]
    /\ pending \in [Runs -> Nat]
    /\ handle \in [Runs -> Handle]
    /\ requests \in Seq(ApprovalRequest)
    /\ health \in [Modules -> ModuleHealth]
    /\ outcomes \in [Modules -> Seq({"success", "failure"})]

Init ==
    /\ state = [r \in Runs |-> "new"]
    /\ cursor = [r \in Runs |-> 0]
    /\ results = [r \in Runs |-> <<>>]
    /\ pending = [r \in Runs |-> 0]
    /\ handle = [r \in Runs |-> NoHandle]
    /\ requests = <<>>
    /\ health = [m \in Modules |->
                    [healthy |-> TRUE, failures |-> 0, tripped |-> FALSE]]
    /\ outcomes = [m \in Modules |-> <<>>]

-----------------------------------------------------------------------------
(* The registry.                                                           *)

\* As if the breaker were not asked.
MutMayExecuteEffects(m, healthOf) == Status[m] = "LIVE"

\* Whether a call of module m that starts now is for real.
MayExecuteEffects(m, healthOf) == Status[m] = "LIVE" /\ ~healthOf[m].tripped

\* As if a success closed the breaker and kept the count.
MutRecordSuccess(m) ==
    /\ health' = [health EXCEPT ![m] =
                     [healthy |-> TRUE, failures |-> @.failures, tripped |-> FALSE]]
    /\ outcomes' = [outcomes EXCEPT ![m] = Append(@, "success")]

RecordSuccess(m) ==
    /\ health' = [health EXCEPT ![m] =
                     [healthy |-> TRUE, failures |-> 0, tripped |-> FALSE]]
    /\ outcomes' = [outcomes EXCEPT ![m] = Append(@, "success")]

RecordFailure(m) ==
    /\ health' = [health EXCEPT ![m] =
                     [healthy |-> FALSE, failures |-> @.failures + 1,
                      tripped |-> @.tripped \/ @.failures + 1 >= BreakerThreshold]]
    /\ outcomes' = [outcomes EXCEPT ![m] = Append(@, "failure")]

-----------------------------------------------------------------------------
(* The engine.                                                             *)

\* _execute_current_step up to the handle, for a step that is not hard-blocked.
Dispatch(r, i, approved, healthOf) ==
    /\ state' = [state EXCEPT ![r] = "RUNNING"]
    /\ handle' = [handle EXCEPT ![r] =
                     [simulate |-> ~MayExecuteEffects(StepAt(r, i), healthOf),
                      approved |-> approved]]

\* The three ways out of _advance's loop, with the cursor at i: the run is
\* completed, asks for an approval, or awaits the handle of its next step.
Complete(r, i, asked) ==
    /\ i = Len(Plan[r])
    /\ state' = [state EXCEPT ![r] = "COMPLETED"]
    /\ pending' = [pending EXCEPT ![r] = 0]
    /\ requests' = asked
    /\ UNCHANGED handle

Ask(r, i, asked) ==
    /\ i < Len(Plan[r])
    /\ RequiresHumanGate(StepAt(r, i))
    /\ state' = [state EXCEPT ![r] = "AWAITING_APPROVAL"]
    /\ pending' = [pending EXCEPT ![r] = Len(asked) + 1]
    /\ requests' = Append(asked, [run |-> r, step |-> i + 1, state |-> "PENDING"])
    /\ UNCHANGED handle

Proceed(r, i, asked, healthOf) ==
    /\ i < Len(Plan[r])
    /\ ~RequiresHumanGate(StepAt(r, i))
    /\ Dispatch(r, i, FALSE, healthOf)
    /\ pending' = [pending EXCEPT ![r] = 0]
    /\ requests' = asked

Advance(r, i, asked, healthOf) ==
    /\ cursor' = [cursor EXCEPT ![r] = i]
    /\ Complete(r, i, asked) \/ Ask(r, i, asked) \/ Proceed(r, i, asked, healthOf)

Start(r) ==
    /\ state[r] = "new"
    /\ Advance(r, 0, requests, health)
    /\ UNCHANGED <<results, health, outcomes>>

\* As if only steps run for real were recorded as approved.
MutAddResult(r, prepared, simulated, approved) ==
    results' = [results EXCEPT ![r] =
                   Append(@, [step |-> cursor[r] + 1, prepared |-> prepared,
                              simulated |-> simulated,
                              approved |-> approved /\ ~simulated])]

AddResult(r, prepared, simulated, approved) ==
    results' = [results EXCEPT ![r] =
                   Append(@, [step |-> cursor[r] + 1, prepared |-> prepared,
                              simulated |-> simulated, approved |-> approved])]

\* As if the cursor moved after approved steps only.
MutHandleReturns(r) ==
    /\ state[r] = "RUNNING"
    /\ RecordSuccess(StepAt(r, cursor[r]))
    /\ AddResult(r, FALSE, handle[r].simulate, handle[r].approved)
    /\ Advance(r, cursor[r] + (IF handle[r].approved THEN 1 ELSE 0), requests, health')

HandleReturns(r) ==
    /\ state[r] = "RUNNING"
    /\ RecordSuccess(StepAt(r, cursor[r]))
    /\ AddResult(r, FALSE, handle[r].simulate, handle[r].approved)
    /\ Advance(r, cursor[r] + 1, requests, health')

HandleRaises(r) ==
    /\ state[r] = "RUNNING"
    /\ RecordFailure(StepAt(r, cursor[r]))
    /\ state' = [state EXCEPT ![r] = "FAILED"]
    /\ UNCHANGED <<cursor, results, pending, handle, requests>>

\* As if a request were closed without its verdict.
MutResolved(q, verdict) == [requests EXCEPT ![q].state = "RESOLVED"]

\* HumanGate.resolve: a request that is not PENDING is a conflict.
Resolved(q, verdict) == [requests EXCEPT ![q].state = verdict]

\* As if an approval unlocked a hard-blocked step too.
MutApprove(q) ==
    LET r == requests[q].run
    IN  /\ requests[q].state = "PENDING"
        /\ pending[r] = q
        /\ Dispatch(r, cursor[r], TRUE, health)
        /\ pending' = [pending EXCEPT ![r] = 0]
        /\ requests' = Resolved(q, "APPROVED")
        /\ UNCHANGED <<cursor, results, health, outcomes>>

\* A hard-blocked step is recorded as prepared and the run goes on; any other
\* is dispatched with the approval.  A request its run does not wait for
\* changes only itself.
Approve(q) ==
    LET r == requests[q].run
    IN  /\ requests[q].state = "PENDING"
        /\ IF pending[r] # q
           THEN /\ requests' = Resolved(q, "APPROVED")
                /\ UNCHANGED runVars
           ELSE \/ /\ HardBlocked(StepAt(r, cursor[r]))
                   /\ AddResult(r, TRUE, TRUE, TRUE)
                   /\ Advance(r, cursor[r] + 1, Resolved(q, "APPROVED"), health)
                \/ /\ ~HardBlocked(StepAt(r, cursor[r]))
                   /\ Dispatch(r, cursor[r], TRUE, health)
                   /\ pending' = [pending EXCEPT ![r] = 0]
                   /\ requests' = Resolved(q, "APPROVED")
                   /\ UNCHANGED <<cursor, results>>
        /\ UNCHANGED <<health, outcomes>>

\* As if a rejected run kept waiting for its request.
MutReject(q) ==
    LET r == requests[q].run
    IN  /\ requests[q].state = "PENDING"
        /\ requests' = Resolved(q, "REJECTED")
        /\ UNCHANGED <<runVars, health, outcomes>>

Reject(q) ==
    LET r == requests[q].run
    IN  /\ requests[q].state = "PENDING"
        /\ requests' = Resolved(q, "REJECTED")
        /\ IF pending[r] # q
           THEN UNCHANGED <<state, pending>>
           ELSE /\ pending' = [pending EXCEPT ![r] = 0]
                /\ state' = [state EXCEPT ![r] = "REJECTED"]
        /\ UNCHANGED <<cursor, results, handle, health, outcomes>>

Next ==
    \/ \E r \in Runs : Start(r) \/ HandleReturns(r) \/ HandleRaises(r)
    \/ \E q \in DOMAIN requests : Approve(q) \/ Reject(q)

Spec == Init /\ [][Next]_vars

-----------------------------------------------------------------------------
(* Properties.                                                             *)

\* Everything a run waits for can be resolved: a run awaits an approval
\* exactly when one PENDING request is its pending one, for the step at its
\* cursor, and no PENDING request is left behind by its run (engine.py:104
\* would answer its approval by doing nothing).
WaitingRunsAreListed ==
    /\ \A r \in Runs :
          /\ state[r] = "AWAITING_APPROVAL" <=> pending[r] # 0
          /\ pending[r] # 0 =>
                /\ pending[r] \in DOMAIN requests
                /\ requests[pending[r]] =
                      [run |-> r, step |-> cursor[r] + 1, state |-> "PENDING"]
    /\ \A q \in DOMAIN requests :
          requests[q].state = "PENDING" => pending[requests[q].run] = q

\* The record of a run tells what happened to it: one result for each step
\* taken, in the order of the plan; a step is recorded as approved exactly
\* when it is gated, as prepared exactly when it is hard-blocked, and never as
\* real when its module is not LIVE; a completed run has taken every step.
ResultsFollowPlan ==
    \A r \in Runs :
        /\ Len(results[r]) = cursor[r]
        /\ state[r] = "COMPLETED" => cursor[r] = Len(Plan[r])
        /\ \A k \in DOMAIN results[r] :
              LET m == StepAt(r, k - 1)
              IN  /\ results[r][k].step = k
                  /\ results[r][k].approved <=> RequiresHumanGate(m)
                  /\ results[r][k].prepared <=> HardBlocked(m)
                  /\ Status[m] # "LIVE" => results[r][k].simulated

\* Whether a module's last BreakerThreshold handles all failed.
OnAStreak(history) ==
    /\ Len(history) >= BreakerThreshold
    /\ \A k \in DOMAIN history :
          k > Len(history) - BreakerThreshold => history[k] = "failure"

\* A breaker is open exactly while the last BreakerThreshold handles of its
\* module failed, whichever runs they belong to and in whatever order their
\* answers arrive, and a module is healthy exactly while its last one did not.
BreakerMatchesHistory ==
    \A m \in Modules :
        /\ health[m].tripped <=> OnAStreak(outcomes[m])
        /\ health[m].healthy <=>
              outcomes[m] # <<>> => outcomes[m][Len(outcomes[m])] = "success"

\* Run r comes to await another handle.
Begins(r) == state'[r] = "RUNNING" /\ (state[r] # "RUNNING" \/ cursor'[r] # cursor[r])

CallMatchesHistory(r) ==
    IF Begins(r)
    THEN ~handle'[r].simulate
            <=> /\ Status[StepAt(r, cursor'[r])] = "LIVE"
                /\ ~OnAStreak(outcomes'[StepAt(r, cursor'[r])])
    ELSE handle'[r] = handle[r]

\* A handle is begun for real exactly when its module is LIVE and the answers
\* that have arrived by then do not end in a streak of failures; what arrives
\* while it runs does not change it.
RealCallsNeedAClosedBreaker == [][\A r \in Runs : CallMatchesHistory(r)]_vars

\* The recorded steps of run r that were not only prepared.
Recorded(r) == {k \in DOMAIN results[r] : ~results[r][k].prepared}

\* The steps of run r that were handed to an agent: the recorded ones and the
\* one it is at while its handle runs or when its handle has raised.
Begun(r) ==
    Recorded(r) \cup (IF state[r] \in {"RUNNING", "FAILED"} THEN {cursor[r] + 1} ELSE {})

Granted(r) ==
    {k \in 1..Len(Plan[r]) :
        \E q \in DOMAIN requests :
            requests[q] = [run |-> r, step |-> k, state |-> "APPROVED"]}

Phase(r) ==
    CASE state[r] = "new" -> "new"
      [] state[r] = "RUNNING" -> "working"
      [] state[r] = "AWAITING_APPROVAL" -> "asked"
      [] state[r] = "COMPLETED" -> "done"
      [] state[r] = "REJECTED" -> "refused"
      [] state[r] = "FAILED" -> "failed"

Abstract ==
    INSTANCE GatedRuns
        WITH at <- cursor,
             phase <- [r \in Runs |-> Phase(r)],
             begun <- [r \in Runs |-> Begun(r)],
             granted <- [r \in Runs |-> Granted(r)]

\* The engine with its requests, records and breakers keeps the promise of
\* GatedRuns: steps in order, each begun at most once, gated ones after their
\* own approval, hard-blocked ones never.
Refinement == Abstract!Spec

\* No step of a gated module reaches an agent without an approval of that
\* step of that run, and no step of a hard-blocked module ever does, even
\* approved (engine.py:6-8).
OnlyGrantedStepsBegin == Abstract!OnlyGrantedStepsBegin
=============================================================================
