------------------------------ MODULE GatedRuns ------------------------------
(***************************************************************************)
(* What the workflow engine promises, without its approval requests, its   *)
(* breakers and its records: a run takes its steps in order, each is       *)
(* begun at most once, a gated one only once it is granted, a hard-blocked *)
(* one never; a refusal or a failure ends the run.                         *)
(***************************************************************************)
EXTENDS ModuleCatalog

VARIABLES
    at,       \* run -> the cursor of the step it is at
    phase,    \* run -> where it stands with that step
    begun,    \* run -> the steps handed to an agent
    granted   \* run -> the steps a human has approved

vars == <<at, phase, begun, granted>>

Init ==
    /\ at = [r \in Runs |-> 0]
    /\ phase = [r \in Runs |-> "new"]
    /\ begun = [r \in Runs |-> {}]
    /\ granted = [r \in Runs |-> {}]

\* Step i + 1 of run r is handed to its agent, for the first time.
Begin(r, i) ==
    /\ i + 1 \notin begun[r]
    /\ phase' = [phase EXCEPT ![r] = "working"]
    /\ begun' = [begun EXCEPT ![r] = @ \cup {i + 1}]

\* Run r comes to cursor i.
Reach(r, i) ==
    /\ at' = [at EXCEPT ![r] = i]
    /\ \/ /\ i = Len(Plan[r])
          /\ phase' = [phase EXCEPT ![r] = "done"]
          /\ UNCHANGED begun
       \/ /\ i < Len(Plan[r])
          /\ RequiresHumanGate(StepAt(r, i))
          /\ phase' = [phase EXCEPT ![r] = "asked"]
          /\ UNCHANGED begun
       \/ /\ i < Len(Plan[r])
          /\ ~RequiresHumanGate(StepAt(r, i))
          /\ Begin(r, i)

Start(r) ==
    /\ phase[r] = "new"
    /\ Reach(r, 0)
    /\ UNCHANGED granted

Finish(r) ==
    /\ phase[r] = "working"
    /\ Reach(r, at[r] + 1)
    /\ UNCHANGED granted

Fail(r) ==
    /\ phase[r] = "working"
    /\ phase' = [phase EXCEPT ![r] = "failed"]
    /\ UNCHANGED <<at, begun, granted>>

Grant(r) ==
    /\ phase[r] = "asked"
    /\ granted' = [granted EXCEPT ![r] = @ \cup {at[r] + 1}]
    /\ \/ /\ HardBlocked(StepAt(r, at[r]))
          /\ Reach(r, at[r] + 1)
       \/ /\ ~HardBlocked(StepAt(r, at[r]))
          /\ Begin(r, at[r])
          /\ UNCHANGED at

Refuse(r) ==
    /\ phase[r] = "asked"
    /\ phase' = [phase EXCEPT ![r] = "refused"]
    /\ UNCHANGED <<at, begun, granted>>

Next == \E r \in Runs : Start(r) \/ Finish(r) \/ Fail(r) \/ Grant(r) \/ Refuse(r)

Spec == Init /\ [][Next]_vars

-----------------------------------------------------------------------------
\* What the human gate is for: a gated step is begun only if it was granted,
\* and a hard-blocked one never is.
OnlyGrantedStepsBegin ==
    \A r \in Runs : \A k \in begun[r] :
        /\ RequiresHumanGate(StepAt(r, k - 1)) => k \in granted[r]
        /\ ~HardBlocked(StepAt(r, k - 1))
=============================================================================
