------------------------ MODULE WorkflowEngineProofs ------------------------
(***************************************************************************)
(* Theorems about the workflow engine, for any catalog, any runs of any    *)
(* workflows and any breaker threshold.                                    *)
(***************************************************************************)
EXTENDS WorkflowEngine, TLAPS

States == {"new", "RUNNING", "AWAITING_APPROVAL", "COMPLETED", "REJECTED", "FAILED"}

\* A run is at a step of its plan, past its last one only when completed.
CursorInPlan ==
    \A r \in Runs :
        /\ cursor[r] \in 0..Len(Plan[r])
        /\ state[r] \in {"RUNNING", "AWAITING_APPROVAL", "REJECTED", "FAILED"}
              => cursor[r] < Len(Plan[r])
        /\ state[r] = "COMPLETED" => cursor[r] = Len(Plan[r])
        /\ state[r] = "new" => cursor[r] = 0

TInv == TypeOK /\ CursorInPlan

\* A step of a plan is a module of the catalog.
LEMMA StepIsModule ==
    ASSUME NEW r \in Runs, NEW i \in Nat, i < Len(Plan[r])
    PROVE  StepAt(r, i) \in Modules
  BY CatalogAssumption DEF StepAt

\* Advance keeps the types and the cursor in the plan.
LEMMA AdvanceType ==
    ASSUME TInv, NEW r \in Runs, NEW i \in 0..Len(Plan[r]),
           NEW asked \in Seq(ApprovalRequest), NEW h, Advance(r, i, asked, h)
    PROVE  /\ state' \in [Runs -> States]
           /\ cursor' \in [Runs -> Nat]
           /\ pending' \in [Runs -> Nat]
           /\ handle' \in [Runs -> Handle]
           /\ requests' \in Seq(ApprovalRequest)
           /\ CursorInPlan'
  <1> USE DEF TInv, TypeOK, States
  <1>1. Len(Plan[r]) \in Nat
    BY CatalogAssumption
  <1>2. [run |-> r, step |-> i + 1, state |-> "PENDING"] \in ApprovalRequest
    BY <1>1 DEF ApprovalRequest
  <1>3. cursor' \in [Runs -> Nat] /\ cursor' = [cursor EXCEPT ![r] = i]
    BY <1>1 DEF Advance
  <1>4. CASE Complete(r, i, asked)
    BY <1>1, <1>3, <1>4 DEF Complete, CursorInPlan
  <1>5. CASE Ask(r, i, asked)
    <2>1. Append(asked, [run |-> r, step |-> i + 1, state |-> "PENDING"])
            \in Seq(ApprovalRequest)
      BY <1>2
    <2>2. Len(asked) + 1 \in Nat
      OBVIOUS
    <2> QED
      BY <1>1, <1>3, <1>5, <2>1, <2>2 DEF Ask, CursorInPlan
  <1>6. CASE Proceed(r, i, asked, h)
    <2>1. handle' \in [Runs -> Handle]
      BY <1>6 DEF Proceed, Dispatch, MayExecuteEffects, Handle
    <2> QED
      BY <1>1, <1>3, <1>6, <2>1 DEF Proceed, Dispatch, CursorInPlan
  <1> QED
    BY <1>4, <1>5, <1>6 DEF Advance

\* What the two ways a handle ends leave in the registry.
LEMMA RegistryType ==
    ASSUME TypeOK, NEW m \in Modules, RecordSuccess(m) \/ RecordFailure(m)
    PROVE  /\ health' \in [Modules -> ModuleHealth]
           /\ outcomes' \in [Modules -> Seq({"success", "failure"})]
  <1> USE DEF TypeOK
  <1>1. \A n \in Modules : outcomes[n] \in Seq({"success", "failure"})
    OBVIOUS
  <1>2. CASE RecordSuccess(m)
    BY <1>1, <1>2 DEF RecordSuccess, ModuleHealth
  <1>3. CASE RecordFailure(m)
    BY <1>1, <1>3, ThresholdAssumption DEF RecordFailure, ModuleHealth
  <1> QED
    BY <1>2, <1>3

\* Adding a result keeps the types.
LEMMA AddResultType ==
    ASSUME TypeOK, NEW r \in Runs, NEW p \in BOOLEAN, NEW s \in BOOLEAN, NEW a \in BOOLEAN,
           AddResult(r, p, s, a)
    PROVE  results' \in [Runs -> Seq(StepResult)]
  <1>1. [step |-> cursor[r] + 1, prepared |-> p, simulated |-> s, approved |-> a]
            \in StepResult
    BY DEF TypeOK, StepResult
  <1> QED
    BY <1>1 DEF TypeOK, AddResult

\* Resolving a request keeps the types.
LEMMA ResolvedType ==
    ASSUME TypeOK, NEW q \in DOMAIN requests, NEW v \in {"APPROVED", "REJECTED"}
    PROVE  Resolved(q, v) \in Seq(ApprovalRequest)
  <1>1. requests[q] \in ApprovalRequest
    BY DEF TypeOK
  <1>2. [requests[q] EXCEPT !.state = v] \in ApprovalRequest
    BY <1>1 DEF ApprovalRequest
  <1> QED
    BY <1>2 DEF TypeOK, Resolved

\* A request is one of a run and of a step.
LEMMA RequestRun ==
    ASSUME TInv, NEW q \in DOMAIN requests
    PROVE  requests[q].run \in Runs /\ requests[q].step \in Nat
  <1>1. requests \in Seq(ApprovalRequest)
    BY DEF TInv, TypeOK
  <1>2. requests[q] \in ApprovalRequest
    BY <1>1
  <1> QED
    BY <1>2 DEF ApprovalRequest

\* A PENDING request is waited for by its run.
LEMMA PendingRequest ==
    ASSUME TInv, WaitingRunsAreListed, NEW q \in DOMAIN requests,
           requests[q].state = "PENDING"
    PROVE  /\ q # 0
           /\ pending[requests[q].run] = q
           /\ state[requests[q].run] = "AWAITING_APPROVAL"
           /\ requests[q] = [run |-> requests[q].run,
                             step |-> cursor[requests[q].run] + 1, state |-> "PENDING"]
  <1>1. requests \in Seq(ApprovalRequest)
    BY DEF TInv, TypeOK
  <1>2. q # 0
    BY <1>1
  <1>3. requests[q].run \in Runs
    BY RequestRun
  <1>4. pending[requests[q].run] = q
    BY DEF WaitingRunsAreListed
  <1> QED
    BY <1>2, <1>3, <1>4 DEF WaitingRunsAreListed

LEMMA InitTInv == Init => TInv
  BY CatalogAssumption, ThresholdAssumption
     DEF Init, TInv, TypeOK, CursorInPlan, Handle, NoHandle, ModuleHealth

\* TInv is kept by every step, given that the request a run waits for is
\* pending only while it waits (the first part of Waiting below).
LEMMA NextTInv ==
    ASSUME TInv, WaitingRunsAreListed, [Next]_vars
    PROVE  TInv'
  <1>1. ASSUME NEW r \in Runs, Start(r) PROVE TInv'
    <2>1. 0 \in 0..Len(Plan[r]) /\ requests \in Seq(ApprovalRequest)
      BY CatalogAssumption DEF TInv, TypeOK
    <2>2. Advance(r, 0, requests, health)
      BY <1>1 DEF Start
    <2> QED
      BY <1>1, <2>1, <2>2, AdvanceType DEF Start, TInv, TypeOK, States
  <1>2. ASSUME NEW r \in Runs, HandleReturns(r) PROVE TInv'
    <2>1. /\ cursor[r] + 1 \in 0..Len(Plan[r])
          /\ cursor[r] \in Nat /\ cursor[r] < Len(Plan[r])
          /\ requests \in Seq(ApprovalRequest)
          /\ handle[r].simulate \in BOOLEAN /\ handle[r].approved \in BOOLEAN
      BY <1>2, CatalogAssumption DEF HandleReturns, TInv, TypeOK, CursorInPlan, Handle
    <2>2. StepAt(r, cursor[r]) \in Modules
      BY <2>1, StepIsModule
    <2>3. /\ health' \in [Modules -> ModuleHealth]
          /\ outcomes' \in [Modules -> Seq({"success", "failure"})]
      BY <1>2, <2>2, RegistryType DEF HandleReturns, TInv
    <2>4. results' \in [Runs -> Seq(StepResult)]
      BY <1>2, <2>1, AddResultType DEF HandleReturns, TInv
    <2>5. PICK h : Advance(r, cursor[r] + 1, requests, h)
      BY <1>2 DEF HandleReturns
    <2> QED
      BY <2>1, <2>3, <2>4, <2>5, AdvanceType DEF TInv, TypeOK, States
  <1>3. ASSUME NEW r \in Runs, HandleRaises(r) PROVE TInv'
    <2>1. StepAt(r, cursor[r]) \in Modules
      BY <1>3, StepIsModule DEF HandleRaises, TInv, TypeOK, CursorInPlan
    <2>2. /\ health' \in [Modules -> ModuleHealth]
          /\ outcomes' \in [Modules -> Seq({"success", "failure"})]
      BY <1>3, <2>1, RegistryType DEF HandleRaises, TInv
    <2> QED
      BY <1>3, <2>2 DEF HandleRaises, TInv, TypeOK, CursorInPlan
  <1>4. ASSUME NEW q \in DOMAIN requests, Approve(q) PROVE TInv'
    <2> DEFINE r == requests[q].run
               asked == Resolved(q, "APPROVED")
    <2>1. r \in Runs /\ cursor[r] \in Nat
      BY RequestRun DEF TInv, TypeOK
    <2>2. pending[r] = q /\ state[r] = "AWAITING_APPROVAL" /\ q # 0
      BY <1>4, PendingRequest DEF Approve
    <2>3. asked \in Seq(ApprovalRequest)
      BY ResolvedType DEF TInv
    <2>4. cursor[r] < Len(Plan[r]) /\ cursor[r] + 1 \in 0..Len(Plan[r])
      BY <2>1, <2>2, CatalogAssumption DEF TInv, CursorInPlan
    <2>5. CASE /\ AddResult(r, TRUE, TRUE, TRUE)
               /\ Advance(r, cursor[r] + 1, asked, health)
      <3>1. results' \in [Runs -> Seq(StepResult)]
        BY <2>1, <2>5, AddResultType DEF TInv
      <3> QED
        BY <1>4, <2>1, <2>3, <2>4, <2>5, <3>1, AdvanceType DEF Approve, TInv, TypeOK, States
    <2>6. CASE /\ Dispatch(r, cursor[r], TRUE, health)
               /\ pending' = [pending EXCEPT ![r] = 0]
               /\ requests' = asked
               /\ UNCHANGED <<cursor, results>>
      <3>1. handle' \in [Runs -> Handle] /\ state' = [state EXCEPT ![r] = "RUNNING"]
        BY <2>6 DEF Dispatch, MayExecuteEffects, Handle, TInv, TypeOK
      <3> QED
        BY <1>4, <2>1, <2>3, <2>4, <2>6, <3>1 DEF Approve, TInv, TypeOK, CursorInPlan
    <2> QED
      BY <1>4, <2>2, <2>5, <2>6 DEF Approve
  <1>5. ASSUME NEW q \in DOMAIN requests, Reject(q) PROVE TInv'
    <2> DEFINE r == requests[q].run
    <2>1. r \in Runs
      BY RequestRun
    <2>2. pending[r] = q /\ state[r] = "AWAITING_APPROVAL"
      BY <1>5, PendingRequest DEF Reject
    <2>3. requests' \in Seq(ApprovalRequest)
      BY <1>5, ResolvedType DEF Reject, TInv
    <2>4. /\ state' = [state EXCEPT ![r] = "REJECTED"]
          /\ pending' = [pending EXCEPT ![r] = 0]
          /\ UNCHANGED <<cursor, results, handle, health, outcomes>>
      BY <1>5, <2>2 DEF Reject
    <2>5. TypeOK'
      BY <2>1, <2>3, <2>4 DEF TInv, TypeOK
    <2>6. CursorInPlan'
      BY <2>1, <2>2, <2>4 DEF TInv, TypeOK, CursorInPlan
    <2> QED
      BY <2>5, <2>6 DEF TInv
  <1>6. CASE UNCHANGED vars
    BY <1>6 DEF vars, runVars, TInv, TypeOK, CursorInPlan
  <1> QED
    BY <1>1, <1>2, <1>3, <1>4, <1>5, <1>6 DEF Next

-----------------------------------------------------------------------------
(* Every approval that is waited for is there to be given.                 *)

\* What is written to the list of requests keeps the other requests, and the
\* one it opens or closes.
LEMMA AdvanceWaiting ==
    ASSUME TInv, NEW r \in Runs, NEW i \in Nat, NEW h,
           NEW asked \in Seq(ApprovalRequest),
           \A q \in DOMAIN asked : asked[q].state = "PENDING" =>
               asked[q] = requests[q] /\ q \in DOMAIN requests /\ asked[q].run # r,
           \A q \in DOMAIN requests : requests[q].run # r =>
               q \in DOMAIN asked /\ asked[q] = requests[q],
           WaitingRunsAreListed, Advance(r, i, asked, h)
    PROVE  WaitingRunsAreListed'
  <1> USE DEF TInv, TypeOK
  <1>1. \A s \in Runs \ {r} : state'[s] = state[s] /\ pending'[s] = pending[s]
                                /\ cursor'[s] = cursor[s]
    BY DEF Advance, Complete, Ask, Proceed, Dispatch
  <1>2. CASE Complete(r, i, asked) \/ Proceed(r, i, asked, h)
    <2>1. /\ state'[r] # "AWAITING_APPROVAL"
          /\ pending'[r] = 0
          /\ requests' = asked
      BY <1>2 DEF Complete, Proceed, Dispatch
    <2>2. ASSUME NEW s \in Runs
          PROVE  /\ state'[s] = "AWAITING_APPROVAL" <=> pending'[s] # 0
                 /\ pending'[s] # 0 =>
                       /\ pending'[s] \in DOMAIN requests'
                       /\ requests'[pending'[s]] =
                             [run |-> s, step |-> cursor'[s] + 1, state |-> "PENDING"]
      <3>1. CASE s = r
        BY <2>1, <3>1
      <3>2. CASE s # r
        <4>1. pending[s] # 0 => /\ pending[s] \in DOMAIN requests
                                /\ requests[pending[s]] =
                                     [run |-> s, step |-> cursor[s] + 1, state |-> "PENDING"]
          BY DEF WaitingRunsAreListed
        <4>2. pending[s] # 0 => /\ pending[s] \in DOMAIN asked
                                /\ asked[pending[s]] = requests[pending[s]]
          BY <3>2, <4>1
        <4> QED
          BY <1>1, <2>1, <3>2, <4>1, <4>2 DEF WaitingRunsAreListed
      <3> QED
        BY <3>1, <3>2
    <2>3. ASSUME NEW q \in DOMAIN requests', requests'[q].state = "PENDING"
          PROVE  pending'[requests'[q].run] = q
      BY <1>1, <2>1, <2>3, RequestRun DEF WaitingRunsAreListed
    <2> QED
      BY <2>2, <2>3 DEF WaitingRunsAreListed
  <1>3. CASE Ask(r, i, asked)
    <2> DEFINE new == [run |-> r, step |-> i + 1, state |-> "PENDING"]
    <2>1. /\ state'[r] = "AWAITING_APPROVAL"
          /\ pending'[r] = Len(asked) + 1
          /\ requests' = Append(asked, new)
          /\ cursor'[r] = i
      BY <1>3 DEF Ask, Advance
    <2>2. /\ DOMAIN requests' = DOMAIN asked \cup {Len(asked) + 1}
          /\ \A q \in DOMAIN asked : requests'[q] = asked[q]
          /\ requests'[Len(asked) + 1] = new
          /\ Len(asked) + 1 # 0
          /\ Len(asked) + 1 \notin DOMAIN asked
      BY <2>1
    <2>3. ASSUME NEW s \in Runs
          PROVE  /\ state'[s] = "AWAITING_APPROVAL" <=> pending'[s] # 0
                 /\ pending'[s] # 0 =>
                       /\ pending'[s] \in DOMAIN requests'
                       /\ requests'[pending'[s]] =
                             [run |-> s, step |-> cursor'[s] + 1, state |-> "PENDING"]
      <3>1. CASE s = r
        BY <2>1, <2>2, <3>1
      <3>2. CASE s # r
        BY <1>1, <2>2, <3>2 DEF WaitingRunsAreListed
      <3> QED
        BY <3>1, <3>2
    <2>4. ASSUME NEW q \in DOMAIN requests', requests'[q].state = "PENDING"
          PROVE  pending'[requests'[q].run] = q
      <3>1. CASE q = Len(asked) + 1
        BY <2>1, <2>2, <3>1
      <3>2. CASE q \in DOMAIN asked
        BY <1>1, <2>2, <2>4, <3>2, RequestRun DEF WaitingRunsAreListed
      <3> QED
        BY <2>2, <3>1, <3>2
    <2> QED
      BY <2>3, <2>4 DEF WaitingRunsAreListed
  <1> QED
    BY <1>2, <1>3 DEF Advance

\* Only the request of a waiting run can be PENDING for it.
LEMMA NoOtherRequest ==
    ASSUME TInv, WaitingRunsAreListed, NEW r \in Runs, NEW q \in DOMAIN requests,
           requests[q].run = r, requests[q].state = "PENDING"
    PROVE  state[r] = "AWAITING_APPROVAL" /\ pending[r] = q
  BY PendingRequest

\* What resolving a request changes.
LEMMA ResolvedOthers ==
    ASSUME TInv, NEW q \in DOMAIN requests, NEW v
    PROVE  /\ DOMAIN Resolved(q, v) = DOMAIN requests
           /\ \A p \in DOMAIN requests \ {q} : Resolved(q, v)[p] = requests[p]
           /\ Resolved(q, v)[q].run = requests[q].run
           /\ Resolved(q, v)[q].step = requests[q].step
           /\ Resolved(q, v)[q].state = v
  <1>1. requests \in Seq(ApprovalRequest)
    BY DEF TInv, TypeOK
  <1>2. requests[q] \in ApprovalRequest
    BY <1>1
  <1> QED
    BY <1>1, <1>2 DEF Resolved, ApprovalRequest

\* Dispatching the step a run was approved for, or rejecting it, leaves its
\* request closed and the others as they are.
LEMMA CloseWaiting ==
    ASSUME TInv, WaitingRunsAreListed, NEW q \in DOMAIN requests, NEW v, v # "PENDING",
           requests[q].state = "PENDING",
           NEW to, to # "AWAITING_APPROVAL",
           requests' = Resolved(q, v),
           state' = [state EXCEPT ![requests[q].run] = to],
           pending' = [pending EXCEPT ![requests[q].run] = 0],
           cursor' = cursor
    PROVE  WaitingRunsAreListed'
  <1> DEFINE r == requests[q].run
  <1> USE DEF TInv, TypeOK
  <1>1. r \in Runs /\ pending[r] = q /\ pending'[r] = 0 /\ state'[r] = to
    BY RequestRun, PendingRequest
  <1>2. \A s \in Runs \ {r} : state'[s] = state[s] /\ pending'[s] = pending[s]
    OBVIOUS
  <1>3. /\ DOMAIN requests' = DOMAIN requests
        /\ \A p \in DOMAIN requests \ {q} : requests'[p] = requests[p]
        /\ requests'[q].run = r /\ requests'[q].state = v
    <2>1. /\ DOMAIN Resolved(q, v) = DOMAIN requests
          /\ \A p \in DOMAIN requests \ {q} : Resolved(q, v)[p] = requests[p]
          /\ Resolved(q, v)[q].run = requests[q].run
          /\ Resolved(q, v)[q].step = requests[q].step
          /\ Resolved(q, v)[q].state = v
      BY ResolvedOthers, Zenon
    <2> QED
      BY <2>1
  <1>4. ASSUME NEW s \in Runs
        PROVE  /\ state'[s] = "AWAITING_APPROVAL" <=> pending'[s] # 0
               /\ pending'[s] # 0 =>
                     /\ pending'[s] \in DOMAIN requests'
                     /\ requests'[pending'[s]] =
                           [run |-> s, step |-> cursor'[s] + 1, state |-> "PENDING"]
    <2>1. CASE s = r
      BY <1>1, <2>1
    <2>2. CASE s # r
      <3>1. pending[s] # 0 => /\ pending[s] \in DOMAIN requests
                              /\ requests[pending[s]] =
                                   [run |-> s, step |-> cursor[s] + 1, state |-> "PENDING"]
        BY DEF WaitingRunsAreListed
      <3>2. pending[s] # 0 => pending[s] # q
        BY <3>1, <2>2
      <3> QED
        BY <1>2, <1>3, <2>2, <3>1, <3>2 DEF WaitingRunsAreListed
    <2> QED
      BY <2>1, <2>2
  <1>5. ASSUME NEW p \in DOMAIN requests', requests'[p].state = "PENDING"
        PROVE  pending'[requests'[p].run] = p
    <2>1. p \in DOMAIN requests /\ p # q /\ requests'[p] = requests[p]
      BY <1>3, <1>5
    <2>2. pending[requests[p].run] = p /\ requests[p].run \in Runs
      BY <1>5, <2>1, PendingRequest, RequestRun
    <2>3. requests[p].run # r
      BY <1>1, <2>1, <2>2
    <2> QED
      BY <1>2, <2>1, <2>2, <2>3
  <1> QED
    BY <1>4, <1>5 DEF WaitingRunsAreListed

LEMMA NextWaiting ==
    ASSUME TInv, WaitingRunsAreListed, [Next]_vars
    PROVE  WaitingRunsAreListed'
  <1>1. requests \in Seq(ApprovalRequest)
    BY DEF TInv, TypeOK
  <1>2. \A r \in Runs, q \in DOMAIN requests :
            /\ state[r] # "AWAITING_APPROVAL"
            /\ requests[q].state = "PENDING"
            => requests[q].run # r
    BY NoOtherRequest
  <1>3. ASSUME NEW r \in Runs, Start(r) PROVE WaitingRunsAreListed'
    <2>1. state[r] # "AWAITING_APPROVAL" /\ Advance(r, 0, requests, health)
      BY <1>3 DEF Start
    <2> QED
      BY <1>1, <1>2, <2>1, AdvanceWaiting
  <1>4. ASSUME NEW r \in Runs, HandleReturns(r) PROVE WaitingRunsAreListed'
    <2>1. PICK h : Advance(r, cursor[r] + 1, requests, h)
      BY <1>4 DEF HandleReturns
    <2>2. state[r] # "AWAITING_APPROVAL" /\ cursor[r] + 1 \in Nat
      BY <1>4 DEF HandleReturns, TInv, TypeOK
    <2> QED
      BY <1>1, <1>2, <2>1, <2>2, AdvanceWaiting
  <1>5. ASSUME NEW r \in Runs, HandleRaises(r) PROVE WaitingRunsAreListed'
    <2>1. /\ state[r] = "RUNNING"
          /\ state' = [state EXCEPT ![r] = "FAILED"]
          /\ UNCHANGED <<cursor, pending, requests>>
      BY <1>5 DEF HandleRaises
    <2> QED
      BY <2>1 DEF WaitingRunsAreListed, TInv, TypeOK
  <1>6. ASSUME NEW q \in DOMAIN requests, Approve(q) PROVE WaitingRunsAreListed'
    <2> DEFINE r == requests[q].run
               asked == Resolved(q, "APPROVED")
    <2>1. /\ r \in Runs /\ cursor[r] + 1 \in Nat
          /\ pending[r] = q
          /\ requests[q].state = "PENDING"
      BY <1>6, RequestRun, PendingRequest DEF Approve, TInv, TypeOK
    <2>2. CASE Advance(r, cursor[r] + 1, asked, health)
      <3>1. asked \in Seq(ApprovalRequest)
        BY ResolvedType DEF TInv
      <3>2. /\ DOMAIN asked = DOMAIN requests
            /\ \A p \in DOMAIN requests \ {q} : asked[p] = requests[p]
            /\ asked[q].state = "APPROVED"
        <4>1. /\ DOMAIN Resolved(q, "APPROVED") = DOMAIN requests
              /\ \A p \in DOMAIN requests \ {q} : Resolved(q, "APPROVED")[p] = requests[p]
              /\ Resolved(q, "APPROVED")[q].run = requests[q].run
              /\ Resolved(q, "APPROVED")[q].step = requests[q].step
              /\ Resolved(q, "APPROVED")[q].state = "APPROVED"
          BY ResolvedOthers, Zenon
        <4> QED
          BY <4>1
      <3>3. \A p \in DOMAIN asked : asked[p].state = "PENDING" =>
                asked[p] = requests[p] /\ p \in DOMAIN requests /\ asked[p].run # r
        BY <2>1, <3>2, NoOtherRequest
      <3>4. \A p \in DOMAIN requests : requests[p].run # r =>
                p \in DOMAIN asked /\ asked[p] = requests[p]
        BY <3>2
      <3> QED
        BY <2>1, <2>2, <3>1, <3>3, <3>4, AdvanceWaiting
    <2>3. CASE /\ Dispatch(r, cursor[r], TRUE, health)
               /\ pending' = [pending EXCEPT ![r] = 0]
               /\ requests' = asked
               /\ UNCHANGED <<cursor, results>>
      <3>1. state' = [state EXCEPT ![r] = "RUNNING"]
        BY <2>3 DEF Dispatch
      <3> QED
        BY <2>1, <2>3, <3>1, CloseWaiting
    <2> QED
      BY <1>6, <2>1, <2>2, <2>3 DEF Approve
  <1>7. ASSUME NEW q \in DOMAIN requests, Reject(q) PROVE WaitingRunsAreListed'
    <2> DEFINE r == requests[q].run
    <2>1. /\ pending[r] = q
          /\ requests[q].state = "PENDING"
      BY <1>7, PendingRequest DEF Reject
    <2>2. /\ state' = [state EXCEPT ![r] = "REJECTED"]
          /\ pending' = [pending EXCEPT ![r] = 0]
          /\ requests' = Resolved(q, "REJECTED")
          /\ cursor' = cursor
      BY <1>7, <2>1 DEF Reject
    <2> QED
      BY <2>1, <2>2, CloseWaiting
  <1>8. CASE UNCHANGED vars
    BY <1>8 DEF vars, runVars, WaitingRunsAreListed
  <1> QED
    BY <1>3, <1>4, <1>5, <1>6, <1>7, <1>8 DEF Next

\* Every variable of the engine keeps its type and every run is at a step of
\* its plan.
THEOREM EngineTypeCorrect == Spec => []TypeOK
  <1>1. Init => TInv /\ WaitingRunsAreListed
    BY InitTInv DEF Init, WaitingRunsAreListed
  <1>2. TInv /\ WaitingRunsAreListed /\ [Next]_vars => TInv' /\ WaitingRunsAreListed'
    BY NextTInv, NextWaiting
  <1>3. TInv => TypeOK
    BY DEF TInv
  <1> QED
    BY <1>1, <1>2, <1>3, PTL DEF Spec

\* A run that waits for an approval has exactly one PENDING request, and a
\* PENDING request a run that waits for it (engine.py:98-137).
THEOREM EngineWaitingRunsAreListed == Spec => []WaitingRunsAreListed
  <1>1. Init => TInv /\ WaitingRunsAreListed
    BY InitTInv DEF Init, WaitingRunsAreListed
  <1>2. TInv /\ WaitingRunsAreListed /\ [Next]_vars => TInv' /\ WaitingRunsAreListed'
    BY NextTInv, NextWaiting
  <1> QED
    BY <1>1, <1>2, PTL DEF Spec

-----------------------------------------------------------------------------
(* The records follow the plan.                                            *)

\* What is known of the handle a run awaits: begun with an approval exactly
\* when its step is gated, never for a hard-blocked step, and simulated when
\* its module is not LIVE.
HandleFollowsPlan ==
    \A r \in Runs :
        state[r] = "RUNNING" =>
            /\ handle[r].approved <=> RequiresHumanGate(StepAt(r, cursor[r]))
            /\ ~HardBlocked(StepAt(r, cursor[r]))
            /\ Status[StepAt(r, cursor[r])] # "LIVE" => handle[r].simulate

\* A run waits for an approval at a gated step only.
WaitsAtGatedSteps ==
    \A r \in Runs :
        state[r] = "AWAITING_APPROVAL" => RequiresHumanGate(StepAt(r, cursor[r]))

RInv == HandleFollowsPlan /\ WaitsAtGatedSteps /\ ResultsFollowPlan

\* The records of one run.
RecordOf(r, taken) ==
    /\ Len(results[r]) = taken
    /\ \A k \in DOMAIN results[r] :
          LET m == StepAt(r, k - 1)
          IN  /\ results[r][k].step = k
              /\ results[r][k].approved <=> RequiresHumanGate(m)
              /\ results[r][k].prepared <=> HardBlocked(m)
              /\ Status[m] # "LIVE" => results[r][k].simulated

\* One more result, of the step at the cursor, keeps the record.
LEMMA AddedRecord ==
    ASSUME TInv, RInv, NEW r \in Runs, NEW p \in BOOLEAN, NEW s \in BOOLEAN, NEW a \in BOOLEAN,
           a <=> RequiresHumanGate(StepAt(r, cursor[r])),
           p <=> HardBlocked(StepAt(r, cursor[r])),
           Status[StepAt(r, cursor[r])] # "LIVE" => s,
           AddResult(r, p, s, a),
           NEW n, n = cursor[r] + 1
    PROVE  /\ RecordOf(r, n)'
           /\ \A t \in Runs \ {r} : results'[t] = results[t]
           /\ results'[r] = Append(results[r],
                 [step |-> cursor[r] + 1, prepared |-> p, simulated |-> s, approved |-> a])
           /\ results[r] \in Seq(StepResult)
           /\ Len(results[r]) = cursor[r]
  <1> DEFINE new == [step |-> cursor[r] + 1, prepared |-> p, simulated |-> s, approved |-> a]
  <1>1. results[r] \in Seq(StepResult) /\ Len(results[r]) = cursor[r] /\ cursor[r] \in Nat
    BY DEF TInv, TypeOK, RInv, ResultsFollowPlan
  <1>2. results'[r] = Append(results[r], new)
    BY DEF AddResult, TInv, TypeOK
  <1>3. \A t \in Runs \ {r} : results'[t] = results[t]
    BY DEF AddResult, TInv, TypeOK
  <1>4. ASSUME NEW k \in DOMAIN results'[r]
        PROVE  /\ results'[r][k].step = k
               /\ results'[r][k].approved <=> RequiresHumanGate(StepAt(r, k - 1))
               /\ results'[r][k].prepared <=> HardBlocked(StepAt(r, k - 1))
               /\ Status[StepAt(r, k - 1)] # "LIVE" => results'[r][k].simulated
    <2>1. CASE k = cursor[r] + 1
      <3>1. results'[r][k] = new /\ k - 1 = cursor[r]
        BY <1>1, <1>2, <2>1
      <3> QED
        BY <3>1, <2>1
    <2>2. CASE k # cursor[r] + 1
      <3>1. k \in DOMAIN results[r] /\ results'[r][k] = results[r][k]
        BY <1>1, <1>2, <2>2
      <3> QED
        BY <3>1 DEF RInv, ResultsFollowPlan
    <2> QED
      BY <2>1, <2>2
  <1>5. Len(results'[r]) = cursor[r] + 1
    BY <1>1, <1>2
  <1> QED
    <2>1. RecordOf(r, n)'
      BY <1>4, <1>5 DEF RecordOf
    <2> QED
      BY <1>1, <1>2, <1>3, <2>1

\* Advance with the records of its run in order keeps RInv.
LEMMA AdvanceRecord ==
    ASSUME TInv, RInv, NEW r \in Runs, NEW i \in 0..Len(Plan[r]), NEW asked, NEW h,
           Advance(r, i, asked, h),
           RecordOf(r, i)',
           \A t \in Runs \ {r} : results'[t] = results[t]
    PROVE  RInv'
  <1> USE DEF TInv, TypeOK
  <1>1. \A t \in Runs \ {r} : /\ state'[t] = state[t] /\ cursor'[t] = cursor[t]
                              /\ handle'[t] = handle[t]
    BY DEF Advance, Complete, Ask, Proceed, Dispatch
  <1>2. /\ cursor'[r] = i
        /\ state'[r] = "COMPLETED" => i = Len(Plan[r])
    BY DEF Advance, Complete, Ask, Proceed, Dispatch
  <1>3. /\ state'[r] = "RUNNING" =>
              /\ ~RequiresHumanGate(StepAt(r, i))
              /\ ~handle'[r].approved
              /\ Status[StepAt(r, i)] # "LIVE" => handle'[r].simulate
    <2>1. CASE Complete(r, i, asked) \/ Ask(r, i, asked)
      BY <2>1 DEF Complete, Ask
    <2>2. CASE Proceed(r, i, asked, h)
      BY <2>2 DEF Proceed, Dispatch, MayExecuteEffects
    <2> QED
      BY <2>1, <2>2 DEF Advance
  <1>4. ResultsFollowPlan'
    <2>1. ASSUME NEW t \in Runs
          PROVE  /\ RecordOf(t, cursor[t])'
                 /\ (state[t] = "COMPLETED" => cursor[t] = Len(Plan[t]))'
      <3>1. CASE t = r
        BY <1>2, <3>1 DEF RecordOf
      <3>2. CASE t # r
        BY <1>1, <3>2 DEF RInv, ResultsFollowPlan, RecordOf
      <3> QED
        BY <3>1, <3>2
    <2> QED
      BY <2>1 DEF ResultsFollowPlan, RecordOf
  <1>5. HandleFollowsPlan'
    <2>1. \A m : HardBlocked(m) => RequiresHumanGate(m)
      BY DEF HardBlocked, RequiresHumanGate
    <2> QED
      BY <1>1, <1>2, <1>3, <2>1 DEF RInv, HandleFollowsPlan
  <1>6. WaitsAtGatedSteps'
    <2>1. state'[r] = "AWAITING_APPROVAL" => RequiresHumanGate(StepAt(r, i))
      BY DEF Advance, Complete, Ask, Proceed, Dispatch
    <2> QED
      BY <1>1, <1>2, <2>1 DEF RInv, WaitsAtGatedSteps
  <1> QED
    BY <1>4, <1>5, <1>6 DEF RInv

LEMMA NextRecord ==
    ASSUME TInv, WaitingRunsAreListed, RInv, [Next]_vars
    PROVE  RInv'
  <1>1. \A r \in Runs : cursor[r] \in Nat /\ Len(Plan[r]) \in Nat
    BY CatalogAssumption DEF TInv, TypeOK
  <1>2. ASSUME NEW r \in Runs, Start(r) PROVE RInv'
    <2>1. /\ Advance(r, 0, requests, health)
          /\ results' = results
          /\ cursor[r] = 0
      BY <1>2 DEF Start, TInv, CursorInPlan
    <2>2. RecordOf(r, 0)'
      BY <2>1 DEF RInv, ResultsFollowPlan, RecordOf
    <2> QED
      BY <1>1, <2>1, <2>2, AdvanceRecord
  <1>3. ASSUME NEW r \in Runs, HandleReturns(r) PROVE RInv'
    <2>1. PICK h : Advance(r, cursor[r] + 1, requests, h)
      BY <1>3 DEF HandleReturns
    <2>2. /\ handle[r].simulate \in BOOLEAN /\ handle[r].approved \in BOOLEAN
          /\ cursor[r] + 1 \in 0..Len(Plan[r])
      BY <1>1, <1>3 DEF HandleReturns, TInv, TypeOK, CursorInPlan, Handle
    <2>3. /\ AddResult(r, FALSE, handle[r].simulate, handle[r].approved)
          /\ handle[r].approved <=> RequiresHumanGate(StepAt(r, cursor[r]))
          /\ FALSE <=> HardBlocked(StepAt(r, cursor[r]))
          /\ Status[StepAt(r, cursor[r])] # "LIVE" => handle[r].simulate
      BY <1>3 DEF HandleReturns, RInv, HandleFollowsPlan
    <2>4. PICK n : n = cursor[r] + 1
      OBVIOUS
    <2>5. RecordOf(r, n)' /\ \A t \in Runs \ {r} : results'[t] = results[t]
      BY <2>2, <2>3, <2>4, AddedRecord
    <2> QED
      BY <2>1, <2>2, <2>4, <2>5, AdvanceRecord
  <1>4. ASSUME NEW r \in Runs, HandleRaises(r) PROVE RInv'
    <2>1. /\ state' = [state EXCEPT ![r] = "FAILED"]
          /\ UNCHANGED <<cursor, results, handle>>
      BY <1>4 DEF HandleRaises
    <2>2. \A t \in Runs : state'[t] = IF t = r THEN "FAILED" ELSE state[t]
      BY <2>1 DEF TInv, TypeOK
    <2> QED
      BY <2>1, <2>2 DEF RInv, HandleFollowsPlan, WaitsAtGatedSteps, ResultsFollowPlan
  <1>5. ASSUME NEW q \in DOMAIN requests, Approve(q) PROVE RInv'
    <2>0. PICK r \in Runs : r = requests[q].run
      BY RequestRun
    <2>1. r \in Runs /\ pending[r] = q /\ state[r] = "AWAITING_APPROVAL"
      BY <1>5, <2>0, PendingRequest DEF Approve
    <2>2. RequiresHumanGate(StepAt(r, cursor[r]))
      BY <2>1 DEF RInv, WaitsAtGatedSteps
    <2>3. CASE /\ HardBlocked(StepAt(r, cursor[r]))
               /\ AddResult(r, TRUE, TRUE, TRUE)
               /\ Advance(r, cursor[r] + 1, Resolved(q, "APPROVED"), health)
      <3>1. cursor[r] + 1 \in 0..Len(Plan[r])
        BY <1>1, <2>1 DEF TInv, CursorInPlan
      <3>2. PICK n : n = cursor[r] + 1
        OBVIOUS
      <3>3. RecordOf(r, n)' /\ \A t \in Runs \ {r} : results'[t] = results[t]
        <4>1. /\ TRUE <=> RequiresHumanGate(StepAt(r, cursor[r]))
              /\ TRUE <=> HardBlocked(StepAt(r, cursor[r]))
              /\ Status[StepAt(r, cursor[r])] # "LIVE" => TRUE
          BY <2>2, <2>3
        <4> QED
          BY <2>1, <2>3, <3>2, <4>1, AddedRecord
      <3>4. n \in 0..Len(Plan[r]) /\ Advance(r, n, Resolved(q, "APPROVED"), health)
        BY <2>3, <3>1, <3>2
      <3> QED
        BY <2>1, <3>3, <3>4, AdvanceRecord
    <2>4. CASE /\ ~HardBlocked(StepAt(r, cursor[r]))
               /\ Dispatch(r, cursor[r], TRUE, health)
               /\ UNCHANGED <<cursor, results>>
      <3>1. /\ state'[r] = "RUNNING"
            /\ handle'[r].approved = TRUE
            /\ Status[StepAt(r, cursor[r])] # "LIVE" => handle'[r].simulate
        BY <2>1, <2>4 DEF Dispatch, MayExecuteEffects, TInv, TypeOK
      <3>2. \A t \in Runs \ {r} : state'[t] = state[t] /\ handle'[t] = handle[t]
        BY <2>4 DEF Dispatch, TInv, TypeOK
      <3>3. HandleFollowsPlan'
        BY <2>2, <2>4, <3>1, <3>2 DEF RInv, HandleFollowsPlan
      <3>4. WaitsAtGatedSteps'
        BY <2>4, <3>1, <3>2 DEF RInv, WaitsAtGatedSteps
      <3>5. ResultsFollowPlan'
        BY <2>4, <3>1, <3>2 DEF RInv, ResultsFollowPlan
      <3> QED
        BY <3>3, <3>4, <3>5 DEF RInv
    <2> QED
      BY <1>5, <2>0, <2>1, <2>3, <2>4 DEF Approve
  <1>6. ASSUME NEW q \in DOMAIN requests, Reject(q) PROVE RInv'
    <2> DEFINE r == requests[q].run
    <2>1. r \in Runs /\ pending[r] = q
      BY <1>6, RequestRun, PendingRequest DEF Reject
    <2>2. /\ state' = [state EXCEPT ![r] = "REJECTED"]
          /\ UNCHANGED <<cursor, results, handle>>
      BY <1>6, <2>1 DEF Reject
    <2>3. \A t \in Runs : state'[t] = IF t = r THEN "REJECTED" ELSE state[t]
      BY <2>1, <2>2 DEF TInv, TypeOK
    <2> QED
      BY <2>2, <2>3 DEF RInv, HandleFollowsPlan, WaitsAtGatedSteps, ResultsFollowPlan
  <1>7. CASE UNCHANGED vars
    BY <1>7 DEF vars, runVars, RInv, HandleFollowsPlan, WaitsAtGatedSteps, ResultsFollowPlan
  <1> QED
    BY <1>2, <1>3, <1>4, <1>5, <1>6, <1>7 DEF Next

LEMMA InitRecord == Init => RInv
  BY CatalogAssumption
     DEF Init, RInv, HandleFollowsPlan, WaitsAtGatedSteps, ResultsFollowPlan

\* The record of every run is one result for each step it has taken, in the
\* order of its plan, approved, prepared and simulated as the catalog demands.
THEOREM EngineResultsFollowPlan == Spec => []ResultsFollowPlan
  <1>1. Init => TInv /\ WaitingRunsAreListed /\ RInv
    BY InitTInv, InitRecord DEF Init, WaitingRunsAreListed
  <1>2. TInv /\ WaitingRunsAreListed /\ RInv /\ [Next]_vars
            => TInv' /\ WaitingRunsAreListed' /\ RInv'
    BY NextTInv, NextWaiting, NextRecord
  <1>3. RInv => ResultsFollowPlan
    BY DEF RInv
  <1> QED
    BY <1>1, <1>2, <1>3, PTL DEF Spec

-----------------------------------------------------------------------------
(* The breakers tell how the handles of their modules ended.               *)

\* What a module's health says of the history of its handles: the count is
\* the length of the streak of failures it ends with.
Counts(c, history) ==
    /\ c.failures <= Len(history)
    /\ \A k \in DOMAIN history :
          k > Len(history) - c.failures => history[k] = "failure"
    /\ c.failures < Len(history) =>
          history[Len(history) - c.failures] = "success"
    /\ c.tripped <=> c.failures >= BreakerThreshold
    /\ c.healthy <=> c.failures = 0

BreakerCounts == \A m \in Modules : Counts(health[m], outcomes[m])

\* A count says what BreakerMatchesHistory says.
LEMMA CountIsStreak ==
    ASSUME NEW c \in ModuleHealth, NEW history \in Seq({"success", "failure"}),
           Counts(c, history)
    PROVE  /\ c.tripped <=> OnAStreak(history)
           /\ c.healthy <=> history # <<>> => history[Len(history)] = "success"
  <1>1. c.failures \in Nat /\ Len(history) \in Nat /\ DOMAIN history = 1..Len(history)
    BY DEF ModuleHealth
  <1>2. BreakerThreshold \in Nat /\ BreakerThreshold > 0
    BY ThresholdAssumption
  <1>3. ASSUME c.failures >= BreakerThreshold PROVE OnAStreak(history)
    BY <1>1, <1>2, <1>3 DEF Counts, OnAStreak
  <1>4. ASSUME c.failures < BreakerThreshold, OnAStreak(history) PROVE FALSE
    <2>1. Len(history) >= BreakerThreshold
      BY <1>4 DEF OnAStreak
    <2>2. Len(history) - c.failures \in DOMAIN history
      BY <1>1, <1>2, <1>4, <2>1
    <2>3. history[Len(history) - c.failures] = "success"
      <3>1. c.failures < Len(history)
        BY <1>1, <1>2, <1>4, <2>1
      <3> QED
        BY <3>1 DEF Counts
    <2>4. history[Len(history) - c.failures] = "failure"
      BY <1>1, <1>2, <1>4, <2>1, <2>2 DEF OnAStreak
    <2> QED
      BY <2>3, <2>4
  <1>5. c.tripped <=> c.failures >= BreakerThreshold
    BY DEF Counts
  <1>6. ASSUME c.failures = 0, history # <<>> PROVE history[Len(history)] = "success"
    BY <1>1, <1>6 DEF Counts
  <1>7. ASSUME c.failures # 0
        PROVE  history # <<>> /\ history[Len(history)] # "success"
    <2>1. Len(history) \in DOMAIN history
      BY <1>1, <1>7 DEF Counts
    <2>2. history[Len(history)] = "failure"
      BY <1>1, <1>7, <2>1 DEF Counts
    <2> QED
      BY <2>1, <2>2
  <1>8. c.healthy <=> c.failures = 0
    BY DEF Counts
  <1> QED
    BY <1>1, <1>2, <1>3, <1>4, <1>5, <1>6, <1>7, <1>8

\* One more answer keeps the count.
LEMMA RecordedCount ==
    ASSUME TInv, BreakerCounts, NEW m \in Modules, RecordSuccess(m) \/ RecordFailure(m)
    PROVE  BreakerCounts'
  <1> USE DEF TInv, TypeOK
  <1>1. /\ outcomes[m] \in Seq({"success", "failure"}) /\ health[m] \in ModuleHealth
        /\ Counts(health[m], outcomes[m])
    BY DEF BreakerCounts
  <1>2. /\ health[m].failures \in Nat
        /\ BreakerThreshold \in Nat /\ BreakerThreshold > 0
    BY <1>1, ThresholdAssumption DEF ModuleHealth
  <1>3. \A n \in Modules \ {m} : health'[n] = health[n] /\ outcomes'[n] = outcomes[n]
    BY DEF RecordSuccess, RecordFailure
  <1>4. CASE RecordSuccess(m)
    <2>1. /\ health'[m] = [healthy |-> TRUE, failures |-> 0, tripped |-> FALSE]
          /\ outcomes'[m] = Append(outcomes[m], "success")
      BY <1>4 DEF RecordSuccess
    <2>2. /\ Len(outcomes'[m]) = Len(outcomes[m]) + 1
          /\ outcomes'[m][Len(outcomes[m]) + 1] = "success"
          /\ DOMAIN outcomes'[m] = 1..(Len(outcomes[m]) + 1)
          /\ Len(outcomes[m]) \in Nat
      BY <1>1, <2>1
    <2>3. Counts(health'[m], outcomes'[m])
      BY <1>2, <2>1, <2>2 DEF Counts
    <2> QED
      BY <1>3, <2>3 DEF BreakerCounts
  <1>5. CASE RecordFailure(m)
    <2> DEFINE c == health[m].failures
    <2>1. /\ health'[m].failures = c + 1
          /\ health'[m].healthy = FALSE
          /\ outcomes'[m] = Append(outcomes[m], "failure")
      BY <1>5 DEF RecordFailure
    <2>2. health'[m].tripped <=> c + 1 >= BreakerThreshold
      <3>1. health'[m].tripped = (health[m].tripped \/ c + 1 >= BreakerThreshold)
        BY <1>5 DEF RecordFailure
      <3>2. health[m].tripped <=> c >= BreakerThreshold
        BY <1>1 DEF Counts
      <3>3. c >= BreakerThreshold => c + 1 >= BreakerThreshold
        BY <1>2
      <3> QED
        BY <3>1, <3>2, <3>3
    <2>3. /\ Len(outcomes'[m]) = Len(outcomes[m]) + 1
          /\ \A k \in DOMAIN outcomes[m] : outcomes'[m][k] = outcomes[m][k]
          /\ outcomes'[m][Len(outcomes[m]) + 1] = "failure"
          /\ DOMAIN outcomes'[m] = 1..(Len(outcomes[m]) + 1)
          /\ DOMAIN outcomes[m] = 1..Len(outcomes[m])
          /\ Len(outcomes[m]) \in Nat
      BY <1>1, <2>1
    <2>4. Counts(health'[m], outcomes'[m])
      BY <1>1, <1>2, <2>1, <2>2, <2>3 DEF Counts
    <2> QED
      BY <1>3, <2>4 DEF BreakerCounts
  <1> QED
    BY <1>4, <1>5

LEMMA NextBreaker ==
    ASSUME TInv, BreakerCounts, [Next]_vars
    PROVE  BreakerCounts'
  <1>1. ASSUME NEW r \in Runs, HandleReturns(r) \/ HandleRaises(r) PROVE BreakerCounts'
    <2>1. /\ StepAt(r, cursor[r]) \in Modules
          /\ \/ RecordSuccess(StepAt(r, cursor[r]))
             \/ RecordFailure(StepAt(r, cursor[r]))
      BY <1>1, StepIsModule DEF HandleReturns, HandleRaises, TInv, TypeOK, CursorInPlan
    <2>2. PICK m \in Modules : RecordSuccess(m) \/ RecordFailure(m)
      BY <2>1
    <2> QED
      BY <2>2, RecordedCount
  <1>2. CASE UNCHANGED <<health, outcomes>>
    BY <1>2 DEF BreakerCounts
  <1>3. \/ \E r \in Runs : HandleReturns(r) \/ HandleRaises(r)
        \/ UNCHANGED <<health, outcomes>>
    BY DEF Next, Start, Approve, Reject, vars, runVars
  <1> QED
    BY <1>1, <1>2, <1>3

\* A breaker is open exactly while the last BreakerThreshold handles of its
\* module failed, whatever runs they belong to (registry.py:86-97).
THEOREM EngineBreakerMatchesHistory == Spec => []BreakerMatchesHistory
  <1>1. Init => TInv /\ WaitingRunsAreListed /\ BreakerCounts
    BY InitTInv, ThresholdAssumption
       DEF Init, WaitingRunsAreListed, BreakerCounts, Counts
  <1>2. TInv /\ WaitingRunsAreListed /\ BreakerCounts /\ [Next]_vars
            => TInv' /\ WaitingRunsAreListed' /\ BreakerCounts'
    BY NextTInv, NextWaiting, NextBreaker
  <1>3. TInv /\ BreakerCounts => BreakerMatchesHistory
    <2> SUFFICES ASSUME TInv, BreakerCounts, NEW m \in Modules
                 PROVE  /\ health[m].tripped <=> OnAStreak(outcomes[m])
                        /\ health[m].healthy <=>
                              outcomes[m] # <<>> => outcomes[m][Len(outcomes[m])] = "success"
      BY DEF BreakerMatchesHistory
    <2>1. /\ health[m] \in ModuleHealth /\ outcomes[m] \in Seq({"success", "failure"})
          /\ Counts(health[m], outcomes[m])
      BY DEF TInv, TypeOK, BreakerCounts
    <2> QED
      BY <2>1, CountIsStreak
  <1> QED
    BY <1>1, <1>2, <1>3, PTL DEF Spec

-----------------------------------------------------------------------------
(* The engine implements GatedRuns.                                        *)

\* The abstract view of the state.
ViewPhase == [r \in Runs |-> Phase(r)]
ViewBegun == [r \in Runs |-> Begun(r)]
ViewGranted == [r \in Runs |-> Granted(r)]

\* The list of requests keeps the approvals it has.
LEMMA GrantedKept ==
    ASSUME NEW s \in Runs,
           \A p \in DOMAIN requests : requests[p].state = "APPROVED" =>
               p \in DOMAIN requests' /\ requests'[p] = requests[p],
           \A p \in DOMAIN requests' : requests'[p].state = "APPROVED" =>
               p \in DOMAIN requests /\ requests'[p] = requests[p]
    PROVE  Granted(s)' = Granted(s)
  BY DEF Granted

\* Advance opens at most one request, which is not approved.
LEMMA AdvanceRequests ==
    ASSUME NEW r \in Runs, NEW i, NEW asked \in Seq(ApprovalRequest), NEW h,
           Advance(r, i, asked, h)
    PROVE  /\ \A p \in DOMAIN asked : p \in DOMAIN requests' /\ requests'[p] = asked[p]
           /\ \A p \in DOMAIN requests' : requests'[p].state = "APPROVED" =>
                  p \in DOMAIN asked /\ requests'[p] = asked[p]
  <1>1. CASE requests' = asked
    BY <1>1
  <1>2. CASE requests' = Append(asked, [run |-> r, step |-> i + 1, state |-> "PENDING"])
    BY <1>2
  <1> QED
    BY <1>1, <1>2 DEF Advance, Complete, Ask, Proceed

\* An advance that lets the approvals alone, all steps up to its cursor having
\* been recorded or only prepared, is the abstract Reach.
LEMMA AdvanceReaches ==
    ASSUME TInv, NEW r \in Runs, NEW i \in Nat, NEW asked, NEW h,
           Advance(r, i, asked, h),
           Recorded(r)' = Begun(r),
           Begun(r) \subseteq 1..i,
           \A t \in Runs \ {r} : results'[t] = results[t]
    PROVE  Abstract!Reach(r, i)
  <1> USE DEF TInv, TypeOK
  <1>1. /\ cursor' = [cursor EXCEPT ![r] = i]
        /\ \A t \in Runs \ {r} : state'[t] = state[t] /\ cursor'[t] = cursor[t]
    BY DEF Advance, Complete, Ask, Proceed, Dispatch
  <1>2. \A t \in Runs \ {r} : Phase(t)' = Phase(t) /\ Begun(t)' = Begun(t)
    BY <1>1 DEF Phase, Begun, Recorded
  <1>3. CASE Complete(r, i, asked)
    <2>1. state'[r] = "COMPLETED" /\ i = Len(Plan[r])
      BY <1>3 DEF Complete
    <2>2. Phase(r)' = "done" /\ Begun(r)' = Begun(r)
      BY <2>1 DEF Phase, Begun
    <2>3. /\ ViewPhase' = [ViewPhase EXCEPT ![r] = "done"]
          /\ ViewBegun' = ViewBegun
      BY <1>2, <2>2 DEF ViewPhase, ViewBegun
    <2> QED
      BY <1>1, <2>1, <2>3 DEF Abstract!Reach, ViewPhase, ViewBegun
  <1>4. CASE Ask(r, i, asked)
    <2>1. /\ state'[r] = "AWAITING_APPROVAL"
          /\ i < Len(Plan[r]) /\ RequiresHumanGate(StepAt(r, i))
      BY <1>4 DEF Ask
    <2>2. Phase(r)' = "asked" /\ Begun(r)' = Begun(r)
      BY <2>1 DEF Phase, Begun
    <2>3. /\ ViewPhase' = [ViewPhase EXCEPT ![r] = "asked"]
          /\ ViewBegun' = ViewBegun
      BY <1>2, <2>2 DEF ViewPhase, ViewBegun
    <2> QED
      BY <1>1, <2>1, <2>3 DEF Abstract!Reach, Abstract!RequiresHumanGate, RequiresHumanGate,
                              Abstract!StepAt, StepAt, ViewPhase, ViewBegun
  <1>5. CASE Proceed(r, i, asked, h)
    <2>1. /\ state'[r] = "RUNNING" /\ cursor'[r] = i
          /\ i < Len(Plan[r]) /\ ~RequiresHumanGate(StepAt(r, i))
      BY <1>1, <1>5 DEF Proceed, Dispatch
    <2>2. Phase(r)' = "working" /\ Begun(r)' = Begun(r) \cup {i + 1} /\ i + 1 \notin Begun(r)
      BY <2>1 DEF Phase, Begun
    <2>3. /\ ViewPhase' = [ViewPhase EXCEPT ![r] = "working"]
          /\ ViewBegun' = [ViewBegun EXCEPT ![r] = @ \cup {i + 1}]
          /\ i + 1 \notin ViewBegun[r]
      BY <1>2, <2>2 DEF ViewPhase, ViewBegun
    <2> QED
      BY <1>1, <2>1, <2>3 DEF Abstract!Reach, Abstract!Begin, Abstract!RequiresHumanGate,
                              RequiresHumanGate, Abstract!StepAt, StepAt, ViewPhase, ViewBegun
  <1> QED
    BY <1>3, <1>4, <1>5 DEF Advance

\* What the records say of the steps a run has begun.
LEMMA BegunSoFar ==
    ASSUME TInv, RInv, NEW r \in Runs
    PROVE  /\ Recorded(r) \subseteq 1..cursor[r]
           /\ state[r] \in {"new", "AWAITING_APPROVAL"} => Begun(r) = Recorded(r)
           /\ state[r] \in {"RUNNING", "FAILED"} => Begun(r) = Recorded(r) \cup {cursor[r] + 1}
  <1>1. results[r] \in Seq(StepResult) /\ Len(results[r]) = cursor[r]
    BY DEF TInv, TypeOK, RInv, ResultsFollowPlan
  <1>2. Recorded(r) \subseteq 1..cursor[r]
    BY <1>1 DEF Recorded
  <1> QED
    BY <1>2 DEF Begun

\* One more result is one more recorded step, unless it was only prepared.
LEMMA RecordedMore ==
    ASSUME TInv, RInv, NEW r \in Runs, NEW p \in BOOLEAN, NEW s \in BOOLEAN, NEW a \in BOOLEAN,
           AddResult(r, p, s, a)
    PROVE  /\ Recorded(r)' = Recorded(r) \cup (IF p THEN {} ELSE {cursor[r] + 1})
           /\ \A t \in Runs \ {r} : results'[t] = results[t]
  <1> DEFINE new == [step |-> cursor[r] + 1, prepared |-> p, simulated |-> s, approved |-> a]
  <1>1. results[r] \in Seq(StepResult) /\ Len(results[r]) = cursor[r] /\ cursor[r] \in Nat
    BY DEF TInv, TypeOK, RInv, ResultsFollowPlan
  <1>2. results'[r] = Append(results[r], new)
    BY DEF AddResult, TInv, TypeOK
  <1>3. /\ DOMAIN results'[r] = DOMAIN results[r] \cup {cursor[r] + 1}
        /\ \A k \in DOMAIN results[r] : results'[r][k] = results[r][k]
        /\ results'[r][cursor[r] + 1].prepared = p
    BY <1>1, <1>2
  <1>4. cursor[r] + 1 \notin DOMAIN results[r]
    BY <1>1
  <1>5. \A t \in Runs \ {r} : results'[t] = results[t]
    BY DEF AddResult, TInv, TypeOK
  <1> QED
    BY <1>3, <1>4, <1>5 DEF Recorded

\* The approval of the step a run waits at is one more granted step.
LEMMA GrantedMore ==
    ASSUME TInv, WaitingRunsAreListed, NEW q \in DOMAIN requests,
           requests[q].state = "PENDING",
           NEW r \in Runs, r = requests[q].run,
           \A p \in DOMAIN requests \ {q} : requests[p].state = "APPROVED" =>
               p \in DOMAIN requests' /\ requests'[p] = requests[p],
           q \in DOMAIN requests',
           requests'[q] = [run |-> r, step |-> cursor[r] + 1, state |-> "APPROVED"],
           \A p \in DOMAIN requests' : requests'[p].state = "APPROVED" =>
               p = q \/ (p \in DOMAIN requests /\ requests'[p] = requests[p])
    PROVE  ViewGranted' = [ViewGranted EXCEPT ![r] = @ \cup {cursor[r] + 1}]
  <1>1. cursor[r] + 1 \in 1..Len(Plan[r])
    BY PendingRequest, CatalogAssumption DEF TInv, TypeOK, CursorInPlan
  <1>2. Granted(r)' = Granted(r) \cup {cursor[r] + 1}
    <2>1. ASSUME NEW k \in Granted(r)' PROVE k \in Granted(r) \cup {cursor[r] + 1}
      <3>1. PICK p \in DOMAIN requests' :
                requests'[p] = [run |-> r, step |-> k, state |-> "APPROVED"]
        BY DEF Granted
      <3>2. CASE p = q
        BY <3>1, <3>2
      <3>3. CASE p # q
        BY <3>1, <3>3 DEF Granted
      <3> QED
        BY <3>2, <3>3
    <2>2. ASSUME NEW k \in Granted(r) PROVE k \in Granted(r)'
      <3>1. PICK p \in DOMAIN requests :
                requests[p] = [run |-> r, step |-> k, state |-> "APPROVED"]
        BY DEF Granted
      <3>2. p # q
        BY <3>1
      <3> QED
        BY <3>1, <3>2 DEF Granted
    <2>3. cursor[r] + 1 \in Granted(r)'
      BY <1>1 DEF Granted
    <2> QED
      BY <2>1, <2>2, <2>3
  <1>3. ASSUME NEW t \in Runs \ {r} PROVE Granted(t)' = Granted(t)
    <2>1. ASSUME NEW k \in Granted(t)' PROVE k \in Granted(t)
      <3>1. PICK p \in DOMAIN requests' :
                requests'[p] = [run |-> t, step |-> k, state |-> "APPROVED"]
        BY DEF Granted
      <3>2. p # q
        BY <3>1
      <3> QED
        BY <3>1, <3>2 DEF Granted
    <2>2. ASSUME NEW k \in Granted(t) PROVE k \in Granted(t)'
      <3>1. PICK p \in DOMAIN requests :
                requests[p] = [run |-> t, step |-> k, state |-> "APPROVED"]
        BY DEF Granted
      <3>2. p # q
        BY <3>1
      <3> QED
        BY <3>1, <3>2 DEF Granted
    <2> QED
      BY <2>1, <2>2
  <1> QED
    BY <1>2, <1>3 DEF ViewGranted

\* A run whose state and whose steps are all that changes.
LEMMA ViewChange ==
    ASSUME NEW r \in Runs,
           \A t \in Runs \ {r} : state'[t] = state[t] /\ cursor'[t] = cursor[t],
           results' = results
    PROVE  /\ ViewPhase' = [ViewPhase EXCEPT ![r] = Phase(r)']
           /\ ViewBegun' = [ViewBegun EXCEPT ![r] = Begun(r)']
  <1>1. \A t \in Runs \ {r} : Phase(t)' = Phase(t) /\ Begun(t)' = Begun(t)
    BY DEF Phase, Begun, Recorded
  <1> QED
    BY <1>1 DEF ViewPhase, ViewBegun

LEMMA StartImplements ==
    ASSUME TInv, RInv, NEW r \in Runs, Start(r)
    PROVE  Abstract!Start(r)
  <1>1. /\ state[r] = "new" /\ cursor[r] = 0 /\ results' = results
        /\ Advance(r, 0, requests, health)
    BY DEF Start, TInv, CursorInPlan
  <1>2. Recorded(r)' = Begun(r) /\ Begun(r) \subseteq 1..0
    BY <1>1, BegunSoFar DEF Recorded
  <1>3. Abstract!Reach(r, 0)
    BY <1>1, <1>2, AdvanceReaches
  <1>4. requests \in Seq(ApprovalRequest)
    BY DEF TInv, TypeOK
  <1>5. \A t \in Runs : Granted(t)' = Granted(t)
    BY <1>1, <1>4, AdvanceRequests, GrantedKept
  <1>6. ViewGranted' = ViewGranted
    BY <1>5 DEF ViewGranted
  <1>7. ViewPhase[r] = "new"
    BY <1>1 DEF ViewPhase, Phase
  <1> QED
    BY <1>3, <1>6, <1>7 DEF Abstract!Start, ViewPhase, ViewGranted

LEMMA HandleReturnsImplements ==
    ASSUME TInv, RInv, NEW r \in Runs, HandleReturns(r)
    PROVE  Abstract!Finish(r)
  <1>1. state[r] = "RUNNING" /\ cursor[r] \in Nat
    BY DEF HandleReturns, TInv, TypeOK
  <1>2. PICK i \in Nat : i = cursor[r] + 1 /\ \E h : Advance(r, i, requests, h)
    BY <1>1 DEF HandleReturns
  <1>3. PICK h : Advance(r, i, requests, h)
    BY <1>2
  <1>4. /\ AddResult(r, FALSE, handle[r].simulate, handle[r].approved)
        /\ handle[r].simulate \in BOOLEAN /\ handle[r].approved \in BOOLEAN
    BY DEF HandleReturns, TInv, TypeOK, Handle
  <1>5. /\ Recorded(r)' = Recorded(r) \cup {cursor[r] + 1}
        /\ \A t \in Runs \ {r} : results'[t] = results[t]
    BY <1>4, RecordedMore
  <1>6. Recorded(r)' = Begun(r) /\ Begun(r) \subseteq 1..i
    BY <1>1, <1>2, <1>5, BegunSoFar
  <1>7. Abstract!Reach(r, i)
    BY <1>3, <1>5, <1>6, AdvanceReaches
  <1>8. requests \in Seq(ApprovalRequest)
    BY DEF TInv, TypeOK
  <1>9. \A t \in Runs : Granted(t)' = Granted(t)
    BY <1>3, <1>8, AdvanceRequests, GrantedKept
  <1>10. ViewGranted' = ViewGranted /\ ViewPhase[r] = "working"
    BY <1>1, <1>9 DEF ViewGranted, ViewPhase, Phase
  <1> QED
    BY <1>2, <1>7, <1>10 DEF Abstract!Finish, ViewPhase, ViewGranted

LEMMA HandleRaisesImplements ==
    ASSUME TInv, RInv, NEW r \in Runs, HandleRaises(r)
    PROVE  Abstract!Fail(r)
  <1>1. /\ state[r] = "RUNNING" /\ state' = [state EXCEPT ![r] = "FAILED"]
        /\ UNCHANGED <<cursor, results, requests>>
    BY DEF HandleRaises
  <1>2. /\ state'[r] = "FAILED"
        /\ \A t \in Runs \ {r} : state'[t] = state[t] /\ cursor'[t] = cursor[t]
    BY <1>1 DEF TInv, TypeOK
  <1>3. Phase(r) = "working" /\ Phase(r)' = "failed" /\ Begun(r)' = Begun(r)
    BY <1>1, <1>2 DEF Phase, Begun, Recorded
  <1>4. /\ ViewPhase' = [ViewPhase EXCEPT ![r] = Phase(r)']
        /\ ViewBegun' = [ViewBegun EXCEPT ![r] = Begun(r)']
    BY <1>1, <1>2, ViewChange
  <1>5. /\ ViewPhase' = [ViewPhase EXCEPT ![r] = "failed"]
        /\ ViewBegun' = ViewBegun
        /\ ViewPhase[r] = "working"
    BY <1>3, <1>4 DEF ViewPhase, ViewBegun
  <1>6. ViewGranted' = ViewGranted
    BY <1>1 DEF ViewGranted, Granted
  <1> QED
    BY <1>1, <1>5, <1>6 DEF Abstract!Fail, ViewPhase, ViewBegun, ViewGranted

LEMMA ApproveImplements ==
    ASSUME TInv, WaitingRunsAreListed, RInv, NEW q \in DOMAIN requests, Approve(q)
    PROVE  \E r \in Runs : Abstract!Grant(r)
  <1>1. PICK r \in Runs : r = requests[q].run
    BY RequestRun
  <1>2. /\ pending[r] = q /\ state[r] = "AWAITING_APPROVAL" /\ cursor[r] \in Nat
        /\ requests[q] = [run |-> r, step |-> cursor[r] + 1, state |-> "PENDING"]
        /\ requests[q].state = "PENDING"
    BY <1>1, PendingRequest DEF Approve, TInv, TypeOK
  <1>3. PICK asked : asked = Resolved(q, "APPROVED")
    OBVIOUS
  <1>4. /\ DOMAIN asked = DOMAIN requests
        /\ \A p \in DOMAIN requests \ {q} : asked[p] = requests[p]
        /\ asked[q] = [run |-> r, step |-> cursor[r] + 1, state |-> "APPROVED"]
        /\ asked \in Seq(ApprovalRequest)
    <2>1. asked \in Seq(ApprovalRequest)
      BY <1>3, ResolvedType DEF TInv
    <2>2. requests \in Seq(ApprovalRequest)
      BY DEF TInv, TypeOK
    <2> QED
      BY <1>2, <1>3, <2>1, <2>2 DEF Resolved
  <1>5. Begun(r) = Recorded(r) /\ Recorded(r) \subseteq 1..cursor[r]
    BY <1>2, BegunSoFar
  <1>6. ViewPhase[r] = "asked"
    BY <1>2 DEF ViewPhase, Phase
  <1>7. CASE /\ HardBlocked(StepAt(r, cursor[r]))
             /\ AddResult(r, TRUE, TRUE, TRUE)
             /\ Advance(r, cursor[r] + 1, Resolved(q, "APPROVED"), health)
    <2>1. PICK i \in Nat : i = cursor[r] + 1 /\ Advance(r, i, asked, health)
      BY <1>2, <1>3, <1>7
    <2>2. /\ Recorded(r)' = Recorded(r)
          /\ \A t \in Runs \ {r} : results'[t] = results[t]
      BY <1>7, RecordedMore
    <2>3. Recorded(r)' = Begun(r) /\ Begun(r) \subseteq 1..i
      BY <1>2, <1>5, <2>1, <2>2
    <2>4. Abstract!Reach(r, i)
      BY <2>1, <2>2, <2>3, AdvanceReaches
    <2>5. /\ \A p \in DOMAIN asked : p \in DOMAIN requests' /\ requests'[p] = asked[p]
          /\ \A p \in DOMAIN requests' : requests'[p].state = "APPROVED" =>
                 p \in DOMAIN asked /\ requests'[p] = asked[p]
      BY <1>4, <2>1, AdvanceRequests
    <2>6. /\ \A p \in DOMAIN requests \ {q} : requests[p].state = "APPROVED" =>
                 p \in DOMAIN requests' /\ requests'[p] = requests[p]
          /\ q \in DOMAIN requests'
          /\ requests'[q] = [run |-> r, step |-> cursor[r] + 1, state |-> "APPROVED"]
          /\ \A p \in DOMAIN requests' : requests'[p].state = "APPROVED" =>
                 p = q \/ (p \in DOMAIN requests /\ requests'[p] = requests[p])
      BY <1>4, <2>5
    <2>7. ViewGranted' = [ViewGranted EXCEPT ![r] = @ \cup {cursor[r] + 1}]
      BY <1>1, <1>2, <2>6, GrantedMore
    <2> QED
      BY <1>6, <1>7, <2>1, <2>4, <2>7
         DEF Abstract!Grant, Abstract!HardBlocked, HardBlocked, Abstract!StepAt, StepAt,
             ViewPhase, ViewGranted
  <1>8. CASE /\ ~HardBlocked(StepAt(r, cursor[r]))
             /\ Dispatch(r, cursor[r], TRUE, health)
             /\ requests' = Resolved(q, "APPROVED")
             /\ UNCHANGED <<cursor, results>>
    <2>1. /\ state'[r] = "RUNNING" /\ cursor'[r] = cursor[r]
          /\ \A t \in Runs \ {r} : state'[t] = state[t] /\ cursor'[t] = cursor[t]
      BY <1>8 DEF Dispatch, TInv, TypeOK
    <2>2. /\ Phase(r)' = "working"
          /\ Begun(r)' = Begun(r) \cup {cursor[r] + 1}
          /\ cursor[r] + 1 \notin Begun(r)
      BY <1>2, <1>5, <1>8, <2>1 DEF Phase, Begun, Recorded
    <2>3. /\ ViewPhase' = [ViewPhase EXCEPT ![r] = Phase(r)']
          /\ ViewBegun' = [ViewBegun EXCEPT ![r] = Begun(r)']
      BY <1>8, <2>1, ViewChange
    <2>4. /\ ViewPhase' = [ViewPhase EXCEPT ![r] = "working"]
          /\ ViewBegun' = [ViewBegun EXCEPT ![r] = @ \cup {cursor[r] + 1}]
          /\ cursor[r] + 1 \notin ViewBegun[r]
      BY <2>2, <2>3 DEF ViewBegun
    <2>5. requests' = asked
      BY <1>3, <1>8
    <2>6. /\ \A p \in DOMAIN requests \ {q} : requests[p].state = "APPROVED" =>
                 p \in DOMAIN requests' /\ requests'[p] = requests[p]
          /\ q \in DOMAIN requests'
          /\ requests'[q] = [run |-> r, step |-> cursor[r] + 1, state |-> "APPROVED"]
          /\ \A p \in DOMAIN requests' : requests'[p].state = "APPROVED" =>
                 p = q \/ (p \in DOMAIN requests /\ requests'[p] = requests[p])
      BY <1>4, <2>5
    <2>7. ViewGranted' = [ViewGranted EXCEPT ![r] = @ \cup {cursor[r] + 1}]
      BY <1>1, <1>2, <2>6, GrantedMore
    <2> QED
      BY <1>6, <1>8, <2>4, <2>7
         DEF Abstract!Grant, Abstract!Begin, Abstract!HardBlocked, HardBlocked,
             Abstract!StepAt, StepAt, ViewPhase, ViewBegun, ViewGranted
  <1> QED
    BY <1>1, <1>2, <1>7, <1>8 DEF Approve

LEMMA RejectImplements ==
    ASSUME TInv, WaitingRunsAreListed, RInv, NEW q \in DOMAIN requests, Reject(q)
    PROVE  \E r \in Runs : Abstract!Refuse(r)
  <1>1. PICK r \in Runs : r = requests[q].run
    BY RequestRun
  <1>2. /\ pending[r] = q /\ state[r] = "AWAITING_APPROVAL"
        /\ requests[q].state = "PENDING"
    BY <1>1, PendingRequest DEF Reject
  <1>3. /\ state' = [state EXCEPT ![r] = "REJECTED"]
        /\ requests' = Resolved(q, "REJECTED")
        /\ UNCHANGED <<cursor, results>>
    BY <1>1, <1>2 DEF Reject
  <1>4. /\ state'[r] = "REJECTED"
        /\ \A t \in Runs \ {r} : state'[t] = state[t] /\ cursor'[t] = cursor[t]
    BY <1>3 DEF TInv, TypeOK
  <1>5. Phase(r) = "asked" /\ Phase(r)' = "refused" /\ Begun(r)' = Begun(r)
    BY <1>2, <1>3, <1>4 DEF Phase, Begun, Recorded
  <1>6. /\ ViewPhase' = [ViewPhase EXCEPT ![r] = Phase(r)']
        /\ ViewBegun' = [ViewBegun EXCEPT ![r] = Begun(r)']
    BY <1>3, <1>4, ViewChange
  <1>7. /\ ViewPhase' = [ViewPhase EXCEPT ![r] = "refused"]
        /\ ViewBegun' = ViewBegun
        /\ ViewPhase[r] = "asked"
    BY <1>5, <1>6 DEF ViewPhase, ViewBegun
  <1>8. /\ DOMAIN requests' = DOMAIN requests
        /\ \A p \in DOMAIN requests \ {q} : requests'[p] = requests[p]
        /\ requests'[q].state = "REJECTED"
    <2>1. requests \in Seq(ApprovalRequest) /\ requests[q] \in ApprovalRequest
      BY DEF TInv, TypeOK
    <2> QED
      BY <1>3, <2>1 DEF Resolved, ApprovalRequest
  <1>9. \A t \in Runs : Granted(t)' = Granted(t)
    BY <1>2, <1>8, GrantedKept
  <1>10. ViewGranted' = ViewGranted
    BY <1>9 DEF ViewGranted
  <1> QED
    BY <1>3, <1>7, <1>10 DEF Abstract!Refuse, ViewPhase, ViewBegun, ViewGranted

LEMMA InitImplements == Init => Abstract!Init
  <1> SUFFICES ASSUME Init PROVE Abstract!Init
    OBVIOUS
  <1>1. ASSUME NEW r \in Runs
        PROVE  Phase(r) = "new" /\ Begun(r) = {} /\ Granted(r) = {}
    BY DEF Init, Phase, Begun, Recorded, Granted
  <1> QED
    BY <1>1 DEF Init, Abstract!Init

LEMMA NextImplements ==
    ASSUME TInv, WaitingRunsAreListed, RInv, [Next]_vars
    PROVE  [Abstract!Next]_(Abstract!vars)
  <1>1. ASSUME NEW r \in Runs, Start(r) PROVE Abstract!Next
    BY <1>1, StartImplements DEF Abstract!Next
  <1>2. ASSUME NEW r \in Runs, HandleReturns(r) PROVE Abstract!Next
    BY <1>2, HandleReturnsImplements DEF Abstract!Next
  <1>3. ASSUME NEW r \in Runs, HandleRaises(r) PROVE Abstract!Next
    BY <1>3, HandleRaisesImplements DEF Abstract!Next
  <1>4. ASSUME NEW q \in DOMAIN requests, Approve(q) PROVE Abstract!Next
    BY <1>4, ApproveImplements DEF Abstract!Next
  <1>5. ASSUME NEW q \in DOMAIN requests, Reject(q) PROVE Abstract!Next
    BY <1>5, RejectImplements DEF Abstract!Next
  <1>6. CASE UNCHANGED vars
    BY <1>6 DEF vars, runVars, Abstract!vars, Phase, Begun, Recorded, Granted
  <1> QED
    BY <1>1, <1>2, <1>3, <1>4, <1>5, <1>6 DEF Next

\* The engine, with its approval requests, its breakers and its records,
\* implements GatedRuns: steps in order, each begun at most once, a gated one
\* after its own approval only, a hard-blocked one never.
THEOREM EngineRefinement == Spec => Refinement
  <1>1. Init => TInv /\ WaitingRunsAreListed /\ RInv
    BY InitTInv, InitRecord DEF Init, WaitingRunsAreListed
  <1>2. TInv /\ WaitingRunsAreListed /\ RInv /\ [Next]_vars
            => TInv' /\ WaitingRunsAreListed' /\ RInv'
    BY NextTInv, NextWaiting, NextRecord
  <1>3. TInv /\ WaitingRunsAreListed /\ RInv /\ [Next]_vars => [Abstract!Next]_(Abstract!vars)
    BY NextImplements
  <1> QED
    BY <1>1, <1>2, <1>3, InitImplements, PTL DEF Spec, Refinement, Abstract!Spec

-----------------------------------------------------------------------------
(* What the promise of GatedRuns means for the agents.                     *)

\* A step to begin that is granted or needs no grant, and is not hard-blocked,
\* keeps the promise.
LEMMA BegunIsGranted ==
    ASSUME NEW r \in Runs, NEW i \in Nat, OnlyGrantedStepsBegin, Abstract!Begin(r, i),
           ~HardBlocked(StepAt(r, i)),
           RequiresHumanGate(StepAt(r, i)) => i + 1 \in Granted(r)',
           \A t \in Runs : Granted(t) \subseteq Granted(t)'
    PROVE  OnlyGrantedStepsBegin'
  <1>1. ViewBegun' = [ViewBegun EXCEPT ![r] = @ \cup {i + 1}]
    BY DEF Abstract!Begin, ViewBegun
  <1>2. \A t \in Runs : Begun(t)' = IF t = r THEN Begun(t) \cup {i + 1} ELSE Begun(t)
    BY <1>1 DEF ViewBegun
  <1>3. ASSUME NEW t \in Runs, NEW k \in Begun(t)'
        PROVE  /\ RequiresHumanGate(StepAt(t, k - 1)) => k \in Granted(t)'
               /\ ~HardBlocked(StepAt(t, k - 1))
    <2>1. CASE k \in Begun(t)
      BY <2>1 DEF OnlyGrantedStepsBegin, Abstract!OnlyGrantedStepsBegin, HardBlocked,
                  Abstract!HardBlocked, StepAt, Abstract!StepAt, RequiresHumanGate,
                  Abstract!RequiresHumanGate
    <2>2. CASE t = r /\ k = i + 1
      BY <2>2, (i + 1) - 1 = i
    <2> QED
      BY <1>2, <1>3, <2>1, <2>2
  <1> QED
    BY <1>3 DEF OnlyGrantedStepsBegin, Abstract!OnlyGrantedStepsBegin, HardBlocked,
                Abstract!HardBlocked, StepAt, Abstract!StepAt, RequiresHumanGate,
                Abstract!RequiresHumanGate

\* Nothing begun and nothing revoked keeps the promise.
LEMMA NothingBegun ==
    ASSUME OnlyGrantedStepsBegin,
           \A t \in Runs : Begun(t)' = Begun(t) /\ Granted(t) \subseteq Granted(t)'
    PROVE  OnlyGrantedStepsBegin'
  BY DEF OnlyGrantedStepsBegin, Abstract!OnlyGrantedStepsBegin, HardBlocked,
         Abstract!HardBlocked, StepAt, Abstract!StepAt, RequiresHumanGate,
         Abstract!RequiresHumanGate

\* Coming to a step keeps the promise: one that needs a grant is not begun.
LEMMA ReachKeeps ==
    ASSUME NEW r \in Runs, NEW i \in Nat, OnlyGrantedStepsBegin, Abstract!Reach(r, i),
           \A t \in Runs : Granted(t) \subseteq Granted(t)'
    PROVE  OnlyGrantedStepsBegin'
  <1>1. CASE ViewBegun' = ViewBegun
    <2>1. \A t \in Runs : Begun(t)' = Begun(t)
      BY <1>1 DEF ViewBegun
    <2> QED
      BY <2>1, NothingBegun
  <1>2. CASE ~RequiresHumanGate(StepAt(r, i)) /\ Abstract!Begin(r, i)
    <2>1. ~HardBlocked(StepAt(r, i))
      BY <1>2 DEF HardBlocked, RequiresHumanGate
    <2> QED
      BY <1>2, <2>1, BegunIsGranted
  <1> QED
    BY <1>1, <1>2 DEF Abstract!Reach, Abstract!RequiresHumanGate, RequiresHumanGate,
                      Abstract!StepAt, StepAt, ViewBegun

LEMMA PromiseKept ==
    ASSUME TInv, OnlyGrantedStepsBegin, [Abstract!Next]_(Abstract!vars)
    PROVE  OnlyGrantedStepsBegin'
  <1>1. \A r \in Runs : cursor[r] \in Nat /\ cursor[r] + 1 \in Nat
    BY DEF TInv, TypeOK
  <1>2. ASSUME NEW r \in Runs, Abstract!Start(r) \/ Abstract!Finish(r)
        PROVE  OnlyGrantedStepsBegin'
    <2>1. ViewGranted' = ViewGranted
      BY <1>2 DEF Abstract!Start, Abstract!Finish, ViewGranted
    <2>2. \A t \in Runs : Granted(t) \subseteq Granted(t)'
      BY <2>1 DEF ViewGranted
    <2>3. PICK i \in Nat : Abstract!Reach(r, i)
      BY <1>1, <1>2 DEF Abstract!Start, Abstract!Finish
    <2> QED
      BY <2>2, <2>3, ReachKeeps
  <1>3. ASSUME NEW r \in Runs, Abstract!Grant(r)
        PROVE  OnlyGrantedStepsBegin'
    <2>1. ViewGranted' = [ViewGranted EXCEPT ![r] = @ \cup {cursor[r] + 1}]
      BY <1>3 DEF Abstract!Grant, ViewGranted
    <2>2. /\ \A t \in Runs : Granted(t) \subseteq Granted(t)'
          /\ cursor[r] + 1 \in Granted(r)'
      BY <2>1 DEF ViewGranted
    <2>3. CASE Abstract!Reach(r, cursor[r] + 1)
      BY <1>1, <2>2, <2>3, ReachKeeps
    <2>4. CASE ~HardBlocked(StepAt(r, cursor[r])) /\ Abstract!Begin(r, cursor[r])
      BY <1>1, <2>2, <2>4, BegunIsGranted
    <2> QED
      BY <1>3, <2>3, <2>4 DEF Abstract!Grant, Abstract!HardBlocked, HardBlocked,
                              Abstract!StepAt, StepAt
  <1>4. ASSUME \/ \E r \in Runs : Abstract!Fail(r) \/ Abstract!Refuse(r)
               \/ UNCHANGED Abstract!vars
        PROVE  OnlyGrantedStepsBegin'
    <2>1. ViewBegun' = ViewBegun /\ ViewGranted' = ViewGranted
      BY <1>4 DEF Abstract!Fail, Abstract!Refuse, Abstract!vars, ViewBegun, ViewGranted
    <2>2. \A t \in Runs : Begun(t)' = Begun(t) /\ Granted(t) \subseteq Granted(t)'
      BY <2>1 DEF ViewBegun, ViewGranted
    <2> QED
      BY <2>2, NothingBegun
  <1> QED
    BY <1>2, <1>3, <1>4 DEF Abstract!Next

\* No step of a gated module reaches an agent without an approval of that step
\* of that run, and no step of a hard-blocked module ever does.
THEOREM EngineOnlyGrantedStepsBegin == Spec => []OnlyGrantedStepsBegin
  <1>1. Init => TInv /\ WaitingRunsAreListed /\ RInv
    BY InitTInv, InitRecord DEF Init, WaitingRunsAreListed
  <1>2. Init => OnlyGrantedStepsBegin
    <2> SUFFICES ASSUME Init PROVE \A r \in Runs : Begun(r) = {}
      BY DEF OnlyGrantedStepsBegin, Abstract!OnlyGrantedStepsBegin
    <2> QED
      BY DEF Init, Begun, Recorded
  <1>3. TInv /\ WaitingRunsAreListed /\ RInv /\ OnlyGrantedStepsBegin /\ [Next]_vars
            => TInv' /\ WaitingRunsAreListed' /\ RInv' /\ OnlyGrantedStepsBegin'
    BY NextTInv, NextWaiting, NextRecord, NextImplements, PromiseKept
  <1> QED
    BY <1>1, <1>2, <1>3, PTL DEF Spec

-----------------------------------------------------------------------------
(* Breakers and real calls.                                                *)

\* What a handle that begins is asked for.
LEMMA AdvanceSimulates ==
    ASSUME TInv, NEW r \in Runs, NEW i \in Nat, NEW asked, NEW h, Advance(r, i, asked, h)
    PROVE  /\ cursor'[r] = i
           /\ state'[r] = "RUNNING" =>
                 ~handle'[r].simulate <=> MayExecuteEffects(StepAt(r, i), h)
           /\ state'[r] # "RUNNING" => handle'[r] = handle[r]
           /\ \A t \in Runs \ {r} : /\ state'[t] = state[t] /\ cursor'[t] = cursor[t]
                                    /\ handle'[t] = handle[t]
  <1> USE DEF TInv, TypeOK
  <1>1. /\ cursor'[r] = i
        /\ \A t \in Runs \ {r} : /\ state'[t] = state[t] /\ cursor'[t] = cursor[t]
                                 /\ handle'[t] = handle[t]
    BY DEF Advance, Complete, Ask, Proceed, Dispatch
  <1>2. CASE Complete(r, i, asked) \/ Ask(r, i, asked)
    <2>1. state'[r] # "RUNNING" /\ handle'[r] = handle[r]
      BY <1>2 DEF Complete, Ask
    <2> QED
      BY <1>1, <2>1
  <1>3. CASE Proceed(r, i, asked, h)
    <2>1. state'[r] = "RUNNING" /\ handle'[r].simulate = ~MayExecuteEffects(StepAt(r, i), h)
      BY <1>3 DEF Proceed, Dispatch
    <2> QED
      BY <1>1, <2>1
  <1> QED
    BY <1>2, <1>3 DEF Advance

\* A breaker that tells the history decides by the history.
LEMMA BreakerDecides ==
    ASSUME NEW m \in Modules, NEW h, h = health', BreakerMatchesHistory'
    PROVE  MayExecuteEffects(m, h) <=> Status[m] = "LIVE" /\ ~OnAStreak(outcomes'[m])
  BY DEF BreakerMatchesHistory, MayExecuteEffects, OnAStreak

\* A run whose state, cursor and handle stay has begun nothing.
LEMMA UntouchedRun ==
    ASSUME NEW r \in Runs, state'[r] = state[r], cursor'[r] = cursor[r],
           handle'[r] = handle[r]
    PROVE  CallMatchesHistory(r)
  BY DEF CallMatchesHistory, Begins

LEMMA AdvanceCalls ==
    ASSUME TInv, TInv', BreakerMatchesHistory', NEW r \in Runs, NEW i \in Nat, NEW asked,
           NEW h, h = health', Advance(r, i, asked, h),
           state[r] # "RUNNING" \/ i # cursor[r],
           NEW t \in Runs
    PROVE  CallMatchesHistory(t)
  <1>1. /\ cursor'[r] = i
        /\ state'[r] = "RUNNING" =>
              ~handle'[r].simulate <=> MayExecuteEffects(StepAt(r, i), h)
        /\ state'[r] # "RUNNING" => handle'[r] = handle[r]
        /\ \A u \in Runs \ {r} : /\ state'[u] = state[u] /\ cursor'[u] = cursor[u]
                                 /\ handle'[u] = handle[u]
    BY AdvanceSimulates
  <1>2. CASE t # r
    BY <1>1, <1>2, UntouchedRun
  <1>3. CASE t = r /\ state'[r] = "RUNNING"
    <2>1. i < Len(Plan[r])
      BY <1>1, <1>3 DEF TInv, CursorInPlan
    <2>2. StepAt(r, i) \in Modules
      BY <2>1, StepIsModule
    <2>3. MayExecuteEffects(StepAt(r, i), h)
             <=> Status[StepAt(r, i)] = "LIVE" /\ ~OnAStreak(outcomes'[StepAt(r, i)])
      BY <2>2, BreakerDecides
    <2> QED
      BY <1>1, <1>3, <2>3 DEF CallMatchesHistory, Begins
  <1>4. CASE t = r /\ state'[r] # "RUNNING"
    BY <1>1, <1>4 DEF CallMatchesHistory, Begins
  <1> QED
    BY <1>2, <1>3, <1>4

LEMMA NextCalls ==
    ASSUME TInv, TInv', WaitingRunsAreListed, BreakerMatchesHistory', [Next]_vars,
           NEW t \in Runs
    PROVE  CallMatchesHistory(t)
  <1>1. ASSUME NEW r \in Runs, Start(r) PROVE CallMatchesHistory(t)
    <2>1. PICK h : h = health' /\ Advance(r, 0, requests, h)
      BY <1>1 DEF Start
    <2>2. state[r] # "RUNNING"
      BY <1>1 DEF Start
    <2> QED
      BY <2>1, <2>2, AdvanceCalls
  <1>2. ASSUME NEW r \in Runs, HandleReturns(r) PROVE CallMatchesHistory(t)
    <2>1. PICK h : h = health' /\ Advance(r, cursor[r] + 1, requests, h)
      BY <1>2 DEF HandleReturns
    <2>2. cursor[r] + 1 \in Nat /\ cursor[r] + 1 # cursor[r]
      BY DEF TInv, TypeOK
    <2> QED
      BY <2>1, <2>2, AdvanceCalls
  <1>3. ASSUME NEW r \in Runs, HandleRaises(r) PROVE CallMatchesHistory(t)
    <2>1. /\ state' = [state EXCEPT ![r] = "FAILED"]
          /\ UNCHANGED <<cursor, handle>>
      BY <1>3 DEF HandleRaises
    <2> QED
      BY <2>1 DEF CallMatchesHistory, Begins, TInv, TypeOK
  <1>4. ASSUME NEW q \in DOMAIN requests, Approve(q) PROVE CallMatchesHistory(t)
    <2>1. PICK r \in Runs : r = requests[q].run
      BY RequestRun
    <2>2. /\ pending[r] = q /\ state[r] = "AWAITING_APPROVAL" /\ cursor[r] \in Nat
          /\ cursor[r] < Len(Plan[r]) /\ health' = health
      BY <1>4, <2>1, PendingRequest DEF Approve, TInv, TypeOK, CursorInPlan
    <2>3. CASE Advance(r, cursor[r] + 1, Resolved(q, "APPROVED"), health)
      <3>1. PICK h, i, asked : h = health' /\ i = cursor[r] + 1 /\ Advance(r, i, asked, h)
        BY <2>2, <2>3
      <3>2. i \in Nat /\ state[r] # "RUNNING"
        BY <2>2, <3>1
      <3> QED
        BY <3>1, <3>2, AdvanceCalls
    <2>4. CASE Dispatch(r, cursor[r], TRUE, health) /\ UNCHANGED cursor
      <3>1. /\ state'[r] = "RUNNING"
            /\ handle'[r].simulate = ~MayExecuteEffects(StepAt(r, cursor[r]), health)
            /\ \A u \in Runs \ {r} : state'[u] = state[u] /\ handle'[u] = handle[u]
        BY <2>4 DEF Dispatch, TInv, TypeOK
      <3>2. StepAt(r, cursor[r]) \in Modules
        BY <2>2, StepIsModule
      <3>3. MayExecuteEffects(StepAt(r, cursor[r]), health)
               <=> /\ Status[StepAt(r, cursor[r])] = "LIVE"
                   /\ ~OnAStreak(outcomes'[StepAt(r, cursor[r])])
        BY <2>2, <3>2, BreakerDecides
      <3>4. CASE t = r
        BY <2>2, <2>4, <3>1, <3>3, <3>4 DEF CallMatchesHistory, Begins
      <3>5. CASE t # r
        BY <2>4, <3>1, <3>5, UntouchedRun
      <3> QED
        BY <3>4, <3>5
    <2> QED
      BY <1>4, <2>1, <2>2, <2>3, <2>4 DEF Approve
  <1>5. ASSUME NEW q \in DOMAIN requests, Reject(q) PROVE CallMatchesHistory(t)
    <2>1. PICK r \in Runs : r = requests[q].run
      BY RequestRun
    <2>2. pending[r] = q
      BY <1>5, <2>1, PendingRequest DEF Reject
    <2>3. state' = [state EXCEPT ![r] = "REJECTED"] /\ UNCHANGED <<cursor, handle>>
      BY <1>5, <2>1, <2>2 DEF Reject
    <2> QED
      BY <2>3 DEF CallMatchesHistory, Begins, TInv, TypeOK
  <1>6. CASE UNCHANGED vars
    BY <1>6, UntouchedRun DEF vars, runVars
  <1> QED
    BY <1>1, <1>2, <1>3, <1>4, <1>5, <1>6 DEF Next

\* A handle is begun for real exactly when its module is LIVE and the answers
\* that have arrived by then do not end in a streak of failures.
THEOREM EngineRealCalls == Spec => RealCallsNeedAClosedBreaker
  <1>1. TInv /\ TInv' /\ WaitingRunsAreListed /\ BreakerMatchesHistory' /\ [Next]_vars
           => [\A r \in Runs : CallMatchesHistory(r)]_vars
    BY NextCalls
  <1>2. Init => TInv /\ WaitingRunsAreListed
    BY InitTInv DEF Init, WaitingRunsAreListed
  <1>3. TInv /\ WaitingRunsAreListed /\ [Next]_vars => TInv' /\ WaitingRunsAreListed'
    BY NextTInv, NextWaiting
  <1> QED
    BY <1>1, <1>2, <1>3, EngineBreakerMatchesHistory, PTL
       DEF Spec, RealCallsNeedAClosedBreaker
=============================================================================
