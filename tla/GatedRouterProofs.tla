------------------------- MODULE GatedRouterProofs -------------------------
(***************************************************************************)
(* Theorems about audit_logs and the gated router, for any number of       *)
(* gateway connections, requests and workflows.                            *)
(*                                                                         *)
(* Every step of GatedRouter does one of six things to the table's state   *)
(* (RouterLogCases); the facts about the chain are proved from these.      *)
(* TailInv bounds what a transaction has read, and makes TypeOK inductive; *)
(* SerialInv is the order that a log without overlapping transactions has. *)
(***************************************************************************)
EXTENDS GatedRouter, SequenceTheorems, TLAPS

\* What a step may do to the log.
BeginStep == \E w \in Writers : Begin(w)
LockStep == \E w \in Writers :
    /\ txn[w].stage = "begun"
    /\ txn' = [txn EXCEPT ![w].stage = "locked"]
    /\ UNCHANGED <<rows, clock, overlapped>>
ReadStep == \E w \in Writers, stage \in {"begun", "locked"} : ReadTail(w, stage)
CommitStep ==
    \E w \in Writers, subject \in Subjects, says \in Events, stage \in {"idle", "closed"} :
    \E hash \in {GatewayHash(w), RouterHash} :
    /\ Commit(w, hash, subject, says, stage)
    /\ says = "mcp_call" => hash = GatewayHash(w)
AbortStep == \E w \in Writers, stage \in {"idle", "closed"} : Abort(w, stage)

LogStep ==
    \/ BeginStep \/ LockStep \/ ReadStep \/ CommitStep \/ AbortStep
    \/ UNCHANGED logVars

\* A transaction has read a row of the table, or none.
TailInv == \A w \in Writers : txn[w].prev \in 0..Len(rows)

LogInv == LogTypeOK /\ TailInv

-----------------------------------------------------------------------------
(* Type correctness.                                                       *)

\* What appending a row does to the log.
LEMMA AppendToLog ==
  ASSUME NEW S, NEW s \in Seq(S), NEW r \in S
  PROVE  LET t == Append(s, r)
         IN  /\ t \in Seq(S)
             /\ Len(t) = Len(s) + 1 /\ Len(s) \in Nat
             /\ DOMAIN t = 1..Len(s) + 1 /\ DOMAIN s = 1..Len(s)
             /\ t[Len(s) + 1] = r
             /\ \A i \in 1..Len(s) : t[i] = s[i]
OBVIOUS

\* A gateway row's hash is a set of row numbers.
LEMMA GatewayHashType ==
  ASSUME LogInv, NEW w \in Writers
  PROVE  GatewayHash(w) \in SUBSET Nat
<1>1. rows \in Seq(Row) /\ Len(rows) \in Nat /\ txn[w].prev \in 0..Len(rows)
  BY DEF LogInv, LogTypeOK, TailInv
<1>2. \A i \in 1..Len(rows) : rows[i].hash \in SUBSET Nat
  <2>1. \A i \in 1..Len(rows) : rows[i] \in Row
    BY <1>1
  <2> QED BY <2>1 DEF Row
<1>3. HashOf(txn[w].prev) \in SUBSET Nat
  BY <1>1, <1>2 DEF HashOf
<1> QED BY <1>1, <1>3 DEF GatewayHash

\* What a commit leaves: one more row, the rest of the log as it was.
LEMMA CommitEffect ==
  ASSUME LogInv, NEW w \in Writers, NEW hash, NEW subject \in Subjects,
         NEW says \in Events, NEW stage \in {"idle", "closed"},
         Commit(w, hash, subject, says, stage),
         hash = GatewayHash(w) \/ hash = RouterHash
  PROVE  LET row == [ts |-> txn[w].ts, prev |-> txn[w].prev,
                     hash |-> hash, subject |-> subject, says |-> says]
         IN  /\ row \in Row /\ rows' = Append(rows, row)
             /\ rows' \in Seq(Row)
             /\ Len(rows') = Len(rows) + 1 /\ Len(rows) \in Nat
             /\ DOMAIN rows' = 1..Len(rows) + 1 /\ DOMAIN rows = 1..Len(rows)
             /\ rows'[Len(rows) + 1] = row
             /\ \A i \in 1..Len(rows) : rows'[i] = rows[i]
<1> DEFINE row == [ts |-> txn[w].ts, prev |-> txn[w].prev,
                   hash |-> hash, subject |-> subject, says |-> says]
<1>1. rows \in Seq(Row) /\ txn[w].ts \in Nat /\ txn[w].prev \in Nat /\ Len(rows) \in Nat
  BY DEF LogInv, LogTypeOK
<1>2. hash \in SUBSET Nat
  BY <1>1, GatewayHashType DEF RouterHash
<1>3. row \in Row
  BY <1>1, <1>2 DEF Row
<1>4. rows' = Append(rows, row)
  BY DEF Commit
<1> HIDE DEF row
<1>5. /\ rows' \in Seq(Row)
      /\ Len(rows') = Len(rows) + 1
      /\ DOMAIN rows' = 1..Len(rows) + 1 /\ DOMAIN rows = 1..Len(rows)
      /\ rows'[Len(rows) + 1] = row
      /\ \A i \in 1..Len(rows) : rows'[i] = rows[i]
  BY <1>1, <1>3, <1>4, AppendToLog
<1> QED BY <1>1, <1>3, <1>4, <1>5 DEF row

\* The parts of the new row.
LEMMA CommitRow ==
  ASSUME LogInv, NEW w \in Writers, NEW hash, NEW subject \in Subjects,
         NEW says \in Events, NEW stage \in {"idle", "closed"},
         Commit(w, hash, subject, says, stage),
         hash = GatewayHash(w) \/ hash = RouterHash
  PROVE  /\ DOMAIN rows' = 1..Len(rows) + 1 /\ DOMAIN rows = 1..Len(rows)
         /\ rows'[Len(rows) + 1].ts = txn[w].ts
         /\ rows'[Len(rows) + 1].subject = subject
         /\ rows'[Len(rows) + 1].says = says
         /\ \A i \in 1..Len(rows) : rows'[i] = rows[i]
<1> DEFINE row == [ts |-> txn[w].ts, prev |-> txn[w].prev,
                   hash |-> hash, subject |-> subject, says |-> says]
<1>1. /\ DOMAIN rows' = 1..Len(rows) + 1 /\ DOMAIN rows = 1..Len(rows)
      /\ rows'[Len(rows) + 1] = row
      /\ \A i \in 1..Len(rows) : rows'[i] = rows[i]
  BY CommitEffect
<1> QED BY <1>1

\* What a step that moves a transaction to another stage leaves of it.
LEMMA StageChange ==
  ASSUME LogInv, NEW w \in Writers, NEW stage \in Stages,
         txn' = [txn EXCEPT ![w].stage = stage]
  PROVE  /\ txn' \in [Writers -> [stage: Stages, ts: Nat, prev: Nat]]
         /\ txn'[w] = [stage |-> stage, ts |-> txn[w].ts, prev |-> txn[w].prev]
         /\ \A v \in Writers \ {w} : txn'[v] = txn[v]
<1> DEFINE new == [stage |-> stage, ts |-> txn[w].ts, prev |-> txn[w].prev]
<1>1. txn \in [Writers -> [stage: Stages, ts: Nat, prev: Nat]]
  BY DEF LogInv, LogTypeOK
<1>2. txn[w] \in [stage: Stages, ts: Nat, prev: Nat]
  BY <1>1
<1>3. new \in [stage: Stages, ts: Nat, prev: Nat]
  BY <1>2 DEF Stages
<1>4. txn' = [txn EXCEPT ![w] = new]
  <2>1. [txn[w] EXCEPT !.stage = stage] = new
    BY <1>2
  <2>2. txn' = [txn EXCEPT ![w] = [txn[w] EXCEPT !.stage = stage]]
    BY <1>1
  <2> QED BY <2>1, <2>2
<1> HIDE DEF new
<1>5. /\ txn' \in [Writers -> [stage: Stages, ts: Nat, prev: Nat]]
      /\ txn'[w] = new
      /\ \A v \in Writers \ {w} : txn'[v] = txn[v]
  BY <1>1, <1>3, <1>4
<1> QED BY <1>5 DEF new

\* What reading the tail leaves of a transaction.
LEMMA ReadChange ==
  ASSUME LogInv, NEW w \in Writers, NEW i \in Nat,
         txn' = [txn EXCEPT ![w] = [stage |-> "read", ts |-> @.ts, prev |-> i]]
  PROVE  /\ txn' \in [Writers -> [stage: Stages, ts: Nat, prev: Nat]]
         /\ txn'[w] = [stage |-> "read", ts |-> txn[w].ts, prev |-> i]
         /\ \A v \in Writers \ {w} : txn'[v] = txn[v]
<1> DEFINE new == [stage |-> "read", ts |-> txn[w].ts, prev |-> i]
<1>1. txn \in [Writers -> [stage: Stages, ts: Nat, prev: Nat]]
  BY DEF LogInv, LogTypeOK
<1>2. txn[w] \in [stage: Stages, ts: Nat, prev: Nat]
  BY <1>1
<1>3. new \in [stage: Stages, ts: Nat, prev: Nat]
  BY <1>2 DEF Stages
<1>4. txn' = [txn EXCEPT ![w] = new]
  BY <1>1
<1> HIDE DEF new
<1>5. /\ txn' \in [Writers -> [stage: Stages, ts: Nat, prev: Nat]]
      /\ txn'[w] = new
      /\ \A v \in Writers \ {w} : txn'[v] = txn[v]
  BY <1>1, <1>3, <1>4
<1> QED BY <1>5 DEF new

\* The types of the log, and what transactions have read, are kept.
LEMMA LogInvStep ==
  ASSUME LogInv, LogStep
  PROVE  LogInv'
<1> DEFINE Txn == [stage: Stages, ts: Nat, prev: Nat]
<1>0. /\ rows \in Seq(Row) /\ Len(rows) \in Nat /\ clock \in 0..MaxRows /\ MaxRows \in Nat
      /\ txn \in [Writers -> Txn] /\ overlapped \in BOOLEAN
      /\ \A w \in Writers : txn[w].prev \in 0..Len(rows)
  BY AuditLogAssumption DEF LogInv, LogTypeOK, TailInv
<1>1. CASE BeginStep
  <2>1. PICK w \in Writers : Begin(w)
    BY <1>1 DEF BeginStep
  <2>2. clock' \in 0..MaxRows /\ rows' = rows /\ overlapped' \in BOOLEAN
    BY <1>0, <2>1 DEF Begin
  <2>3. txn' = [txn EXCEPT ![w] = [stage |-> "begun", ts |-> clock + 1, prev |-> 0]]
    BY <2>1 DEF Begin
  <2>4. txn' \in [Writers -> Txn] /\ \A v \in Writers : txn'[v].prev \in 0..Len(rows)
    BY <1>0, <2>3 DEF Stages
  <2> QED BY <1>0, <2>2, <2>4 DEF LogInv, LogTypeOK, TailInv
<1>2. CASE LockStep \/ AbortStep
  <2>1. PICK w \in Writers, stage \in {"locked", "idle", "closed"} :
           txn' = [txn EXCEPT ![w].stage = stage] /\ UNCHANGED <<rows, clock, overlapped>>
    BY <1>2 DEF LockStep, AbortStep, Abort
  <2>2. txn' \in [Writers -> Txn] /\ \A v \in Writers : txn'[v].prev \in 0..Len(rows)
    <3>1. txn[w].prev \in Nat /\ stage \in Stages
      BY <1>0, <2>1 DEF Stages
    <3>2. txn' \in [Writers -> Txn]
          /\ txn'[w] = [stage |-> stage, ts |-> txn[w].ts, prev |-> txn[w].prev]
          /\ \A v \in Writers \ {w} : txn'[v] = txn[v]
      BY <2>1, <3>1, StageChange
    <3> QED BY <1>0, <3>2
  <2> QED BY <1>0, <2>1, <2>2 DEF LogInv, LogTypeOK, TailInv
<1>3. CASE ReadStep
  <2>1. PICK w \in Writers, stage \in {"begun", "locked"} : ReadTail(w, stage)
    BY <1>3 DEF ReadStep
  <2>2. PICK i \in 0..Len(rows) :
           txn' = [txn EXCEPT ![w] = [stage |-> "read", ts |-> @.ts, prev |-> i]]
    BY <2>1 DEF ReadTail
  <2>3. txn' \in [Writers -> Txn] /\ \A v \in Writers : txn'[v].prev \in 0..Len(rows)
    <3>1. i \in Nat
      BY <1>0
    <3>2. txn' \in [Writers -> Txn]
          /\ txn'[w] = [stage |-> "read", ts |-> txn[w].ts, prev |-> i]
          /\ \A v \in Writers \ {w} : txn'[v] = txn[v]
      BY <2>2, <3>1, ReadChange
    <3> QED BY <1>0, <3>2
  <2> QED BY <1>0, <2>1, <2>3 DEF ReadTail, LogInv, LogTypeOK, TailInv
<1>4. CASE CommitStep
  <2>1. PICK w \in Writers, subject \in Subjects, says \in Events, stage \in {"idle", "closed"} :
           \E hash \in {GatewayHash(w), RouterHash} : Commit(w, hash, subject, says, stage)
    BY <1>4 DEF CommitStep
  <2>2. rows' \in Seq(Row) /\ Len(rows') = Len(rows) + 1
    BY <2>1, CommitEffect
  <2>3. txn' = [txn EXCEPT ![w].stage = stage] /\ UNCHANGED <<clock, overlapped>>
    BY <2>1 DEF Commit
  <2>4. txn' \in [Writers -> Txn] /\ \A v \in Writers : txn'[v].prev \in 0..Len(rows')
    <3>1. txn[w].prev \in Nat /\ stage \in Stages
      BY <1>0, <2>1 DEF Stages
    <3>2. txn' \in [Writers -> Txn]
          /\ txn'[w] = [stage |-> stage, ts |-> txn[w].ts, prev |-> txn[w].prev]
          /\ \A v \in Writers \ {w} : txn'[v] = txn[v]
      BY <2>3, <3>1, StageChange
    <3>3. 0..Len(rows) \subseteq 0..Len(rows')
      BY <1>0, <2>2
    <3>4. ASSUME NEW v \in Writers PROVE txn'[v].prev = txn[v].prev
      BY <3>2
    <3> QED BY <1>0, <3>2, <3>3, <3>4
  <2> QED BY <1>0, <2>2, <2>3, <2>4 DEF LogInv, LogTypeOK, TailInv
<1>5. CASE UNCHANGED logVars
  BY <1>5 DEF logVars, LogInv, LogTypeOK, TailInv
<1> QED BY <1>1, <1>2, <1>3, <1>4, <1>5 DEF LogStep

\* A request holds a row lock only on a workflow that exists.
LockInv == \A r \in Requests :
    txn[r].stage \in {"locked", "read"} => req[r].workflow \in Existing

\* What a step of the router or of the gateway does to the log.
LEMMA RouterLogCases ==
  ASSUME TypeOK, LockInv, [Next]_vars
  PROVE  LogStep
<1>1. ASSUME NEW b \in Beacons, BeaconStep(b) PROVE LogStep
  <2>1. b \in Writers /\ NoWorkflow \in Subjects
    BY GatedRouterAssumption
  <2>2. CASE BeaconCommit(b, NoWorkflow)
    <3>1. Commit(b, GatewayHash(b), NoWorkflow, "mcp_call", "idle")
      BY <2>2 DEF BeaconCommit
    <3>2. CommitStep
      BY <2>1, <3>1, AuditLogAssumption DEF CommitStep
    <3> QED BY <3>2 DEF LogStep
  <2> QED BY <1>1, <2>1, <2>2
       DEF BeaconStep, BeaconBegin, BeaconRead, BeaconAbort,
           LogStep, BeginStep, ReadStep, AbortStep
<1>2. ASSUME NEW r \in Requests, RouterStep(r) PROVE LogStep
  <2>1. r \in Writers /\ req[r].workflow \in Subjects
    BY GatedRouterAssumption DEF TypeOK, Request
  <2>2. CASE RouterCommit(r)
    <3>1. req[r].workflow \in Existing
      BY <2>2 DEF RouterCommit, Commit, LockInv
    <3>2. Updated(r).status \in {"executed", "pending_human_review"}
      <4>1. wf[req[r].workflow] \in [status: Statuses, approved: BOOLEAN]
        BY <3>1 DEF TypeOK
      <4> QED BY <4>1 DEF Updated
    <3>3. Updated(r).status \in Events /\ Updated(r).status # "mcp_call"
      BY <3>2, GatedRouterAssumption DEF Statuses
    <3>4. Commit(r, RouterHash, req[r].workflow, Updated(r).status, "closed")
      BY <2>2 DEF RouterCommit
    <3> QED BY <2>1, <3>3, <3>4 DEF LogStep, CommitStep
  <2>3. CASE Refuse(r) \/ Update(r)
    BY <2>1, <2>3 DEF Refuse, Update, LogStep, LockStep
  <2> QED BY <1>2, <2>1, <2>2, <2>3
       DEF RouterStep, RouterBegin, NotFound, RouterRead, RouterAbort,
           LogStep, BeginStep, ReadStep, AbortStep
<1>3. CASE UNCHANGED vars
  BY <1>3 DEF vars, LogStep
<1> QED BY <1>1, <1>2, <1>3 DEF Next
\* TypeOK, TailInv and LockInv are inductive together.
RouterInv == TypeOK /\ TailInv /\ LockInv

\* A workflow's row stays in its type when a request is committed.
LEMMA UpdatedType ==
  ASSUME TypeOK, NEW r \in Requests, req[r].workflow \in Existing
  PROVE  Updated(r) \in [status: Statuses, approved: BOOLEAN]
<1>1. wf[req[r].workflow] \in [status: Statuses, approved: BOOLEAN]
  BY DEF TypeOK
<1> QED BY <1>1 DEF Updated, Statuses

\* RouterInv is inductive.
LEMMA RouterInvStep ==
  ASSUME RouterInv, [Next]_vars
  PROVE  RouterInv'
<1>1. LogInv'
  BY RouterLogCases, LogInvStep DEF RouterInv, LogInv, TypeOK
<1>2. req' = req
  BY DEF Next, BeaconStep, RouterStep, Refuse, RouterBegin, NotFound, Update, RouterRead,
         RouterCommit, RouterAbort, vars
<1>3. answer' \in [Requests -> Answers]
  <2>1. answer' = answer \/ \E r \in Requests, a \in Answers : answer' = [answer EXCEPT ![r] = a]
    BY DEF Next, BeaconStep, RouterStep, Refuse, RouterBegin, NotFound, Update, RouterRead,
           RouterCommit, RouterAbort, vars, Answers
  <2> QED BY <2>1 DEF RouterInv, TypeOK
<1>4. wf' \in [Existing -> [status: Statuses, approved: BOOLEAN]]
  <2>1. \/ wf' = wf
        \/ \E r \in Requests : /\ RouterCommit(r)
                              /\ wf' = [wf EXCEPT ![req[r].workflow] = Updated(r)]
    BY DEF Next, BeaconStep, RouterStep, Refuse, RouterBegin, NotFound, Update, RouterRead,
           RouterCommit, RouterAbort, vars
  <2>2. ASSUME NEW r \in Requests, RouterCommit(r),
               wf' = [wf EXCEPT ![req[r].workflow] = Updated(r)]
        PROVE  wf' \in [Existing -> [status: Statuses, approved: BOOLEAN]]
    <3>1. req[r].workflow \in Existing
      BY <2>2 DEF RouterCommit, Commit, RouterInv, LockInv
    <3>2. Updated(r) \in [status: Statuses, approved: BOOLEAN]
      BY <3>1, UpdatedType DEF RouterInv
    <3> QED BY <2>2, <3>2 DEF RouterInv, TypeOK
  <2> QED BY <2>1, <2>2 DEF RouterInv, TypeOK
<1>5. ASSUME NEW r \in Requests, txn'[r].stage \in {"locked", "read"}
      PROVE  req[r].workflow \in Existing
  <2> DEFINE Kept == txn[r].stage \in {"locked", "read"} \/ Update(r)
  <2>0. txn \in [Writers -> [stage: Stages, ts: Nat, prev: Nat]] /\ r \in Writers
        /\ LogInv
    BY GatedRouterAssumption DEF RouterInv, TypeOK, LogTypeOK, LogInv
  <2>1. ASSUME NEW q \in Requests, RouterStep(q) PROVE Kept
    <3>0. q \in Writers
      BY GatedRouterAssumption
    <3>1. CASE Refuse(q)
      BY <1>5, <3>1 DEF Refuse, logVars
    <3>2. CASE RouterBegin(q)
      BY <1>5, <2>0, <3>0, <3>2 DEF RouterBegin, Begin
    <3>3. CASE NotFound(q) \/ RouterAbort(q)
      BY <1>5, <2>0, <3>0, <3>3 DEF NotFound, RouterAbort, Abort
    <3>4. CASE Update(q)
      BY <1>5, <2>0, <3>0, <3>4 DEF Update
    <3>5. CASE RouterRead(q)
      BY <1>5, <2>0, <3>0, <3>5 DEF RouterRead, ReadTail
    <3>6. CASE RouterCommit(q)
      BY <1>5, <2>0, <3>0, <3>6 DEF RouterCommit, Commit
    <3> QED BY <2>1, <3>1, <3>2, <3>3, <3>4, <3>5, <3>6 DEF RouterStep
  <2>2. ASSUME NEW b \in Beacons, BeaconStep(b) PROVE Kept
    <3>1. b \in Writers /\ b # r
      BY GatedRouterAssumption
    <3>2. txn'[r] = txn[r]
      BY <2>0, <2>2, <3>1
         DEF BeaconStep, BeaconBegin, BeaconRead, BeaconCommit, BeaconAbort,
             Begin, ReadTail, Commit, Abort
    <3> QED BY <1>5, <3>2
  <2>3. ASSUME UNCHANGED vars PROVE Kept
    BY <1>5, <2>3 DEF vars, logVars
  <2> QED BY <2>1, <2>2, <2>3 DEF Next, Update, RouterInv, LockInv
<1> QED BY <1>1, <1>2, <1>3, <1>4, <1>5 DEF RouterInv, TypeOK, LogInv, LockInv

\* It holds in every state: types, what was read, and what is locked.
LEMMA RouterInvHolds == Spec => []RouterInv
<1>1. Init => RouterInv
  <2> SUFFICES ASSUME Init PROVE RouterInv
    OBVIOUS
  <2>1. LogTypeOK /\ TailInv
    <3>1. <<>> \in Seq(Row) /\ Len(<<>>) = 0
      OBVIOUS
    <3>2. rows = <<>> /\ clock = 0 /\ overlapped = FALSE
      BY DEF Init, LogInit
    <3>3. txn = [w \in Writers |-> [stage |-> "idle", ts |-> 0, prev |-> 0]]
      BY DEF Init, LogInit
    <3>4. txn \in [Writers -> [stage: Stages, ts: Nat, prev: Nat]]
      BY <3>3 DEF Stages
    <3>5. \A w \in Writers : txn[w].prev = 0
      BY <3>3
    <3>6. clock \in 0..MaxRows /\ overlapped \in BOOLEAN
      <4>1. MaxRows \in Nat /\ clock = 0
        BY <3>2, AuditLogAssumption
      <4>2. clock \in 0..MaxRows
        BY <4>1
      <4>3. overlapped \in BOOLEAN
        BY <3>2, Zenon
      <4> QED BY <4>2, <4>3
    <3>7. rows \in Seq(Row) /\ Len(rows) = 0
      BY <3>1, <3>2, Zenon
    <3>8. \A w \in Writers : txn[w].prev \in 0..Len(rows)
      <4>1. 0 \in 0..Len(rows)
        BY <3>7
      <4> QED BY <3>5, <4>1
    <3> QED BY <3>4, <3>6, <3>7, <3>8 DEF LogTypeOK, TailInv
  <2>2. req \in [Requests -> RequestInputs] /\ answer \in [Requests -> Answers]
        /\ wf \in [Existing -> [status: Statuses, approved: BOOLEAN]]
    BY GatedRouterAssumption DEF Init, Answers
  <2>3. LockInv
    BY GatedRouterAssumption DEF Init, LogInit, LockInv
  <2> QED BY <2>1, <2>2, <2>3 DEF RouterInv, TypeOK
<1>2. RouterInv /\ [Next]_vars => RouterInv'
  BY RouterInvStep
<1> QED BY <1>1, <1>2, PTL DEF Spec

\* Every variable of the router and of the log stays within its type.
THEOREM RouterTypeCorrect == Spec => []TypeOK
<1>1. RouterInv => TypeOK
  BY DEF RouterInv
<1> QED BY <1>1, RouterInvHolds, PTL
-----------------------------------------------------------------------------
(* The chain.                                                              *)

\* PredecessorIsEarlier is kept by whatever happens to the log.
LEMMA PredecessorStep ==
  ASSUME LogInv, PredecessorIsEarlier, LogStep
  PROVE  PredecessorIsEarlier'
<1>1. rows \in Seq(Row) /\ Len(rows) \in Nat /\ DOMAIN rows = 1..Len(rows)
      /\ \A w \in Writers : txn[w].prev \in 0..Len(rows)
  BY DEF LogInv, LogTypeOK, TailInv
<1>2. CASE CommitStep
  <2>1. PICK w \in Writers, subject \in Subjects, says \in Events, stage \in {"idle", "closed"} :
           \E hash \in {GatewayHash(w), RouterHash} : Commit(w, hash, subject, says, stage)
    BY <1>2 DEF CommitStep
  <2>2. /\ DOMAIN rows' = 1..Len(rows) + 1
        /\ rows'[Len(rows) + 1].prev = txn[w].prev
        /\ \A i \in 1..Len(rows) : rows'[i] = rows[i]
    <3>1. PICK hash \in {GatewayHash(w), RouterHash} : Commit(w, hash, subject, says, stage)
      BY <2>1
    <3>2. /\ DOMAIN rows' = 1..Len(rows) + 1
          /\ rows'[Len(rows) + 1] = [ts |-> txn[w].ts, prev |-> txn[w].prev,
                                     hash |-> hash, subject |-> subject, says |-> says]
          /\ \A i \in 1..Len(rows) : rows'[i] = rows[i]
      BY <3>1, CommitEffect
    <3> QED BY <3>2
  <2> QED BY <1>1, <2>2 DEF PredecessorIsEarlier
<1>3. CASE ~CommitStep
  <2>1. rows' = rows
    BY <1>3 DEF LogStep, BeginStep, Begin, LockStep, ReadStep, ReadTail, AbortStep, Abort, logVars
  <2> QED BY <2>1 DEF PredecessorIsEarlier
<1> QED BY <1>2, <1>3

\* Every row names an earlier row, or none, whatever transactions overlap:
\* previous_hash never leads round in a circle.
THEOREM RouterPredecessorIsEarlier == Spec => []PredecessorIsEarlier
<1>1. Init => PredecessorIsEarlier
  BY DEF Init, LogInit, PredecessorIsEarlier
<1>2. RouterInv /\ PredecessorIsEarlier /\ [Next]_vars => PredecessorIsEarlier'
  BY RouterLogCases, PredecessorStep DEF RouterInv, LogInv, TypeOK
<1> QED BY <1>1, <1>2, RouterInvHolds, PTL DEF Spec

\* The rows and the open transactions of a log in which none have overlapped:
\* one transaction is open at a time, and it is younger than every row.
SerialInv ==
    /\ \A i \in DOMAIN rows : rows[i].ts <= clock
    /\ \A w \in Writers : txn[w].stage \in Open => txn[w].ts <= clock
    /\ ~overlapped =>
          /\ \A v, w \in Writers : txn[v].stage \in Open /\ txn[w].stage \in Open => v = w
          /\ \A w \in Writers, i \in DOMAIN rows :
                txn[w].stage \in Open => rows[i].ts < txn[w].ts
          /\ \A i, j \in DOMAIN rows : i < j => rows[i].ts < rows[j].ts
          /\ \A w \in Writers : txn[w].stage = "read" => txn[w].prev = Len(rows)
    /\ SerialChainIsLinear
\* SerialInv is kept by whatever happens to the log.
LEMMA SerialStep ==
  ASSUME LogInv, SerialInv, LogStep
  PROVE  SerialInv'
<1>0. /\ rows \in Seq(Row) /\ Len(rows) \in Nat /\ DOMAIN rows = 1..Len(rows)
      /\ clock \in Nat
      /\ txn \in [Writers -> [stage: Stages, ts: Nat, prev: Nat]]
      /\ \A i \in 1..Len(rows) : rows[i].ts \in Nat
      /\ \A w \in Writers : txn[w].prev \in 0..Len(rows) /\ txn[w].ts \in Nat
  <2>1. \A i \in 1..Len(rows) : rows[i] \in Row
    BY DEF LogInv, LogTypeOK
  <2> QED BY <2>1, AuditLogAssumption DEF LogInv, LogTypeOK, TailInv, Row
<1>1. CASE BeginStep
  <2>1. PICK w \in Writers : Begin(w)
    BY <1>1 DEF BeginStep
  <2>2. /\ rows' = rows /\ clock' = clock + 1
        /\ overlapped' = (overlapped \/ \E v \in Writers : txn[v].stage \in Open)
    BY <2>1 DEF Begin
  <2>3. /\ txn'[w].ts = clock + 1 /\ txn'[w].stage = "begun"
        /\ \A v \in Writers \ {w} : txn'[v] = txn[v]
    BY <1>0, <2>1 DEF Begin
  <2>4. SerialChainIsLinear'
    BY <2>2 DEF SerialInv, SerialChainIsLinear
  <2>5. /\ \A i \in DOMAIN rows' : rows'[i].ts <= clock'
        /\ \A v \in Writers : txn'[v].stage \in Open => txn'[v].ts <= clock'
    BY <1>0, <2>2, <2>3 DEF SerialInv
  <2>6. ASSUME ~overlapped'
        PROVE  /\ ~overlapped
               /\ \A v \in Writers : txn'[v].stage \in Open => v = w
               /\ \A v \in Writers : txn'[v].stage # "read"
    <3>1. ~overlapped /\ \A v \in Writers : txn[v].stage \notin Open
      BY <2>2, <2>6
    <3>2. \A v \in Writers : txn[v].stage # "read"
      BY <3>1 DEF Open
    <3> QED BY <2>3, <3>1, <3>2
  <2>7. \A i \in DOMAIN rows : rows[i].ts < clock + 1
    BY <1>0 DEF SerialInv
  <2> QED BY <2>2, <2>3, <2>4, <2>5, <2>6, <2>7 DEF SerialInv
<1>2. ASSUME NEW w \in Writers, NEW stage \in {"locked", "idle", "closed"},
             txn' = [txn EXCEPT ![w].stage = stage],
             stage = "locked" => txn[w].stage = "begun",
             UNCHANGED <<rows, clock, overlapped>>
      PROVE  SerialInv'
  <2>1. stage \in Stages
    BY <1>2 DEF Stages
  <2>2. /\ txn'[w] = [stage |-> stage, ts |-> txn[w].ts, prev |-> txn[w].prev]
        /\ \A v \in Writers \ {w} : txn'[v] = txn[v]
    BY <1>2, <2>1, StageChange
  <2>3. SerialChainIsLinear'
    BY <1>2 DEF SerialInv, SerialChainIsLinear
  <2>4. \A v \in Writers :
           /\ txn'[v].stage \in Open => txn[v].stage \in Open
           /\ txn'[v].stage = "read" => txn[v].stage = "read" /\ txn'[v].prev = txn[v].prev
           /\ txn'[v].ts = txn[v].ts
    BY <1>2, <2>2 DEF Open
  <2> QED BY <1>0, <1>2, <2>3, <2>4 DEF SerialInv
<1>3. CASE ReadStep
  <2>1. PICK w \in Writers, stage \in {"begun", "locked"} : ReadTail(w, stage)
    BY <1>3 DEF ReadStep
  <2>2. PICK i \in 0..Len(rows) :
           IsTail(i) /\ txn' = [txn EXCEPT ![w] = [stage |-> "read", ts |-> @.ts, prev |-> i]]
    BY <2>1 DEF ReadTail
  <2>3. UNCHANGED <<rows, clock, overlapped>> /\ txn[w].stage \in Open
    BY <2>1 DEF ReadTail, Open
  <2>4. /\ txn'[w].stage = "read" /\ txn'[w].ts = txn[w].ts /\ txn'[w].prev = i
        /\ \A v \in Writers \ {w} : txn'[v] = txn[v]
    BY <1>0, <2>2, ReadChange
  <2>5. ASSUME ~overlapped PROVE i = Len(rows)
    <3>1. CASE rows = <<>>
      BY <2>2, <3>1, EmptySeq DEF IsTail
    <3>2. CASE rows # <<>>
      <4>1. i \in 1..Len(rows) /\ Len(rows) \in 1..Len(rows)
            /\ \A j \in 1..Len(rows) : rows[j].ts <= rows[i].ts
        BY <1>0, <2>2, <3>2, EmptySeq DEF IsTail
      <4>2. i < Len(rows) => rows[i].ts < rows[Len(rows)].ts
        BY <2>5, <4>1 DEF SerialInv
      <4>3. rows[Len(rows)].ts <= rows[i].ts /\ rows[i].ts \in Nat /\ rows[Len(rows)].ts \in Nat
        BY <1>0, <4>1
      <4> QED BY <1>0, <4>1, <4>2, <4>3
    <3> QED BY <3>1, <3>2
  <2>6. SerialChainIsLinear'
    BY <2>3 DEF SerialInv, SerialChainIsLinear
  <2>7. \A v \in Writers :
           /\ txn'[v].stage \in Open => txn[v].stage \in Open
           /\ txn'[v].ts = txn[v].ts
    BY <2>3, <2>4
  <2> QED BY <1>0, <2>3, <2>4, <2>5, <2>6, <2>7 DEF SerialInv
<1>4. CASE CommitStep
  <2>1. PICK w \in Writers, subject \in Subjects, says \in Events, stage \in {"idle", "closed"} :
           \E hash \in {GatewayHash(w), RouterHash} :
              /\ Commit(w, hash, subject, says, stage)
              /\ says = "mcp_call" => hash = GatewayHash(w)
    BY <1>4 DEF CommitStep
  <2>2. PICK hash \in {GatewayHash(w), RouterHash} :
              /\ Commit(w, hash, subject, says, stage)
              /\ says = "mcp_call" => hash = GatewayHash(w)
    BY <2>1
  <2> DEFINE n == Len(rows) + 1
  <2>3. /\ DOMAIN rows' = 1..n /\ Len(rows') = n
        /\ rows'[n] = [ts |-> txn[w].ts, prev |-> txn[w].prev,
                       hash |-> hash, subject |-> subject, says |-> says]
        /\ \A i \in 1..Len(rows) : rows'[i] = rows[i]
    <3> HIDE DEF n
    <3>1. /\ DOMAIN rows' = 1..Len(rows) + 1 /\ Len(rows') = Len(rows) + 1
          /\ rows'[Len(rows) + 1] = [ts |-> txn[w].ts, prev |-> txn[w].prev,
                                     hash |-> hash, subject |-> subject, says |-> says]
          /\ \A i \in 1..Len(rows) : rows'[i] = rows[i]
      BY <2>2, CommitEffect
    <3> QED BY <3>1 DEF n
  <2>4. /\ txn[w].stage = "read" /\ UNCHANGED <<clock, overlapped>>
        /\ txn' = [txn EXCEPT ![w].stage = stage] /\ stage \in Stages
    BY <2>2 DEF Commit, Stages
  <2>5. /\ txn'[w] = [stage |-> stage, ts |-> txn[w].ts, prev |-> txn[w].prev]
        /\ \A v \in Writers \ {w} : txn'[v] = txn[v]
    BY <2>4, StageChange
  <2>6. \A v \in Writers : txn'[v].stage \in Open =>
           v # w /\ txn'[v] = txn[v] /\ overlapped
    BY <2>4, <2>5 DEF SerialInv, Open
  <2>7. /\ \A i \in 1..n : rows'[i].ts <= clock
        /\ \A v \in Writers : txn'[v].stage \in Open => txn'[v].ts <= clock
    BY <1>0, <2>3, <2>4, <2>6 DEF SerialInv, Open
  <2>8. ~overlapped => \A i, j \in 1..n : i < j => rows'[i].ts < rows'[j].ts
    BY <1>0, <2>3, <2>4 DEF SerialInv, Open
  <2>9. SerialChainIsLinear'
    <3> SUFFICES ASSUME ~overlapped, NEW i \in 1..n
                 PROVE  /\ rows'[i].prev = i - 1
                        /\ (\A j \in 1..i : rows'[j].says = "mcp_call") => rows'[i].hash = 1..i
      BY <2>3, <2>4 DEF SerialChainIsLinear
    <3>1. txn[w].prev = Len(rows)
      BY <2>4 DEF SerialInv
    <3>2. CASE i \in 1..Len(rows)
      <4>1. rows'[i] = rows[i] /\ \A j \in 1..i : rows'[j] = rows[j]
        BY <1>0, <2>3, <3>2
      <4>2. /\ rows[i].prev = i - 1
            /\ (\A j \in 1..i : rows[j].says = "mcp_call") => rows[i].hash = 1..i
        BY <1>0, <3>2 DEF SerialInv, SerialChainIsLinear
      <4> QED BY <4>1, <4>2
    <3>3. CASE i = n
      <4>1. rows'[n].prev = n - 1
        BY <1>0, <2>3, <3>1
      <4>2. ASSUME \A j \in 1..n : rows'[j].says = "mcp_call" PROVE rows'[n].hash = 1..n
        <5>1. says = "mcp_call"
          BY <1>0, <2>3, <4>2
        <5>2. rows'[n].hash = HashOf(Len(rows)) \cup {n}
          BY <2>2, <2>3, <3>1, <5>1 DEF GatewayHash
        <5>3. CASE Len(rows) = 0
          BY <5>2, <5>3 DEF HashOf
        <5>4. CASE Len(rows) # 0
          <6>1. \A j \in 1..Len(rows) : rows[j].says = "mcp_call"
            BY <1>0, <2>3, <4>2
          <6>2. rows[Len(rows)].hash = 1..Len(rows)
            BY <1>0, <5>4, <6>1 DEF SerialInv, SerialChainIsLinear
          <6> QED BY <1>0, <5>2, <5>4, <6>2 DEF HashOf
        <5> QED BY <5>3, <5>4
      <4> QED BY <3>3, <4>1, <4>2
    <3>4. i \in 1..Len(rows) \/ i = n
      BY <1>0
    <3> QED BY <3>2, <3>3, <3>4
  <2> QED BY <2>3, <2>4, <2>6, <2>7, <2>8, <2>9 DEF SerialInv, Open
<1>5. CASE UNCHANGED logVars
  BY <1>5 DEF logVars, SerialInv, SerialChainIsLinear
<1> QED BY <1>1, <1>2, <1>3, <1>4, <1>5 DEF LogStep, LockStep, AbortStep, Abort

\* While no two transactions have been open together, the rows form one chain
\* in the order of their commits, and a gateway row commits to all before it.
THEOREM RouterSerialChain == Spec => []SerialChainIsLinear
<1>1. Init => SerialInv
  BY DEF Init, LogInit, SerialInv, SerialChainIsLinear, Open
<1>2. RouterInv /\ SerialInv /\ [Next]_vars => SerialInv'
  BY RouterLogCases, SerialStep DEF RouterInv, LogInv, TypeOK
<1>3. SerialInv => SerialChainIsLinear
  BY DEF SerialInv
<1> QED BY <1>1, <1>2, <1>3, RouterInvHolds, PTL DEF Spec
-----------------------------------------------------------------------------
(* The workflows and the log.                                              *)

\* The rows of a workflow, if it has any, have a newest one.
NewestInv == \A w \in Existing :
    RowsOf(w) # {} => \E m \in RowsOf(w) : \A j \in RowsOf(w) : j <= m

\* The greatest element of a set of numbers is the one that Newest chooses.
LEMMA NewestIs ==
  ASSUME NEW S \in SUBSET Nat, NEW m \in S, \A j \in S : j <= m
  PROVE  Newest(S) = m
<1>1. \A i \in S : (\A j \in S : j <= i) => i = m
  OBVIOUS
<1> QED BY <1>1 DEF Newest

\* A row of another subject leaves what the log says of a workflow.
LEMMA OtherSubject ==
  ASSUME LogInv, NewestInv, StatusMatchesLedger, NEW w \in Existing,
         wf'[w] = wf[w],
         DOMAIN rows' \in {DOMAIN rows, 1..Len(rows) + 1},
         \A i \in DOMAIN rows : rows'[i] = rows[i],
         \A i \in DOMAIN rows' \ DOMAIN rows : rows'[i].subject # w
  PROVE  /\ RowsOf(w)' = RowsOf(w)
         /\ RowsOf(w) # {} => Newest(RowsOf(w)) \in RowsOf(w)
         /\ IF RowsOf(w)' = {}
            THEN wf'[w].status \in InitialStatus /\ ~wf'[w].approved
            ELSE /\ wf'[w].status = rows'[Newest(RowsOf(w)')].says
                 /\ wf'[w].approved <=> \E i \in RowsOf(w)' : rows'[i].says = "executed"
<1>1. rows \in Seq(Row) /\ Len(rows) \in Nat /\ DOMAIN rows = 1..Len(rows)
  BY DEF LogInv, LogTypeOK
<1>2. RowsOf(w)' = RowsOf(w)
  BY <1>1 DEF RowsOf
<1>3. RowsOf(w) \subseteq DOMAIN rows /\ RowsOf(w) \in SUBSET Nat
  BY <1>1 DEF RowsOf
<1>4. RowsOf(w) # {} => Newest(RowsOf(w)) \in RowsOf(w)
  BY <1>3, NewestIs DEF NewestInv
<1>5. \A i \in RowsOf(w) : rows'[i] = rows[i]
  BY <1>3
<1>6. IF RowsOf(w) = {}
      THEN wf[w].status \in InitialStatus /\ ~wf[w].approved
      ELSE /\ wf[w].status = rows[Newest(RowsOf(w))].says
           /\ wf[w].approved <=> \E i \in RowsOf(w) : rows[i].says = "executed"
  BY DEF StatusMatchesLedger
<1>7. CASE RowsOf(w) = {}
  BY <1>2, <1>6, <1>7
<1>8. CASE RowsOf(w) # {}
  <2>1. rows'[Newest(RowsOf(w))].says = rows[Newest(RowsOf(w))].says
    BY <1>4, <1>5, <1>8
  <2>2. (\E i \in RowsOf(w) : rows'[i].says = "executed")
           <=> (\E i \in RowsOf(w) : rows[i].says = "executed")
    BY <1>5
  <2> QED BY <1>2, <1>4, <1>6, <1>8, <2>1, <2>2
<1> QED BY <1>2, <1>4, <1>7, <1>8

\* A commit of the router changes a workflow and the log together.
LEMMA RouterCommitMatches ==
  ASSUME RouterInv, NewestInv, StatusMatchesLedger, NEW r \in Requests, RouterCommit(r),
         NEW w, w = req[r].workflow
  PROVE  NewestInv' /\ StatusMatchesLedger'
<1> DEFINE n == Len(rows) + 1
<1>1. LogInv /\ r \in Writers /\ w \in Subjects /\ w \in Existing
  BY GatedRouterAssumption
     DEF RouterInv, TypeOK, LogInv, Request, RouterCommit, Commit, LockInv
<1>2. rows \in Seq(Row) /\ Len(rows) \in Nat /\ DOMAIN rows = 1..Len(rows)
  BY <1>1 DEF LogInv, LogTypeOK
<1>3. /\ Commit(r, RouterHash, w, Updated(r).status, "closed")
      /\ wf' = [wf EXCEPT ![w] = Updated(r)]
  BY DEF RouterCommit
<1>4. /\ wf[w] \in [status: Statuses, approved: BOOLEAN]
      /\ wf \in [Existing -> [status: Statuses, approved: BOOLEAN]]
  BY <1>1 DEF RouterInv, TypeOK
<1>5. /\ Updated(r).status = IF req[r].signed THEN "executed" ELSE "pending_human_review"
      /\ Updated(r).approved = IF req[r].signed THEN TRUE ELSE wf[w].approved
  BY <1>4 DEF Updated
<1>6. Updated(r).status \in Events
  BY <1>5, GatedRouterAssumption DEF Statuses
<1>7. /\ DOMAIN rows' = 1..Len(rows) + 1
      /\ rows'[Len(rows) + 1].subject = w
      /\ rows'[Len(rows) + 1].says = Updated(r).status
      /\ \A i \in 1..Len(rows) : rows'[i] = rows[i]
  <2> DEFINE row == [ts |-> txn[r].ts, prev |-> txn[r].prev,
                     hash |-> RouterHash, subject |-> w, says |-> Updated(r).status]
  <2>1. /\ DOMAIN rows' = 1..Len(rows) + 1
        /\ rows'[Len(rows) + 1] = row
        /\ \A i \in 1..Len(rows) : rows'[i] = rows[i]
    BY <1>1, <1>3, <1>6, CommitEffect
  <2> QED BY <2>1
<1>8. \A v \in Existing \ {w} : wf'[v] = wf[v]
  BY <1>3, <1>4
<1>9. wf'[w] = Updated(r)
  BY <1>1, <1>3, <1>4
<1>10. \A v \in Existing \ {w} :
          /\ RowsOf(v)' = RowsOf(v)
          /\ IF RowsOf(v)' = {}
             THEN wf'[v].status \in InitialStatus /\ ~wf'[v].approved
             ELSE /\ wf'[v].status = rows'[Newest(RowsOf(v)')].says
                  /\ wf'[v].approved <=> \E i \in RowsOf(v)' : rows'[i].says = "executed"
  BY <1>1, <1>2, <1>7, <1>8, OtherSubject
<1>11. RowsOf(w)' = RowsOf(w) \cup {n} /\ RowsOf(w) \subseteq 1..Len(rows)
  BY <1>2, <1>7 DEF RowsOf
<1>12. n \in RowsOf(w)' /\ \A j \in RowsOf(w)' : j <= n
  BY <1>2, <1>11
<1>13. Newest(RowsOf(w)') = n
  <2>1. RowsOf(w)' \in SUBSET Nat
    BY <1>2, <1>11
  <2> QED BY <1>12, <2>1, NewestIs
<1>14. wf'[w].status = rows'[n].says
  BY <1>7, <1>9
<1>15. wf'[w].approved <=> \E i \in RowsOf(w)' : rows'[i].says = "executed"
  <2>1. wf[w].approved <=> \E i \in RowsOf(w) : rows[i].says = "executed"
    BY <1>1 DEF StatusMatchesLedger
  <2>2. (\E i \in RowsOf(w)' : rows'[i].says = "executed")
           <=> (rows'[n].says = "executed" \/ \E i \in RowsOf(w) : rows[i].says = "executed")
    BY <1>7, <1>11
  <2>3. CASE req[r].signed
    BY <1>5, <1>7, <1>9, <2>2, <2>3
  <2>4. CASE ~req[r].signed
    BY <1>5, <1>7, <1>9, <2>1, <2>2, <2>4
  <2> QED BY <2>3, <2>4
<1>16. NewestInv'
  <2> SUFFICES ASSUME NEW v \in Existing, RowsOf(v)' # {}
               PROVE  \E m \in RowsOf(v)' : \A j \in RowsOf(v)' : j <= m
    BY DEF NewestInv
  <2>1. CASE v = w
    BY <1>12, <2>1
  <2>2. CASE v # w
    BY <1>10, <2>2 DEF NewestInv
  <2> QED BY <2>1, <2>2
<1>17. StatusMatchesLedger'
  <2> SUFFICES ASSUME NEW v \in Existing
               PROVE  IF RowsOf(v)' = {}
                      THEN wf'[v].status \in InitialStatus /\ ~wf'[v].approved
                      ELSE /\ wf'[v].status = rows'[Newest(RowsOf(v)')].says
                           /\ wf'[v].approved <=>
                                 \E i \in RowsOf(v)' : rows'[i].says = "executed"
    BY DEF StatusMatchesLedger
  <2>1. CASE v = w
    BY <1>12, <1>13, <1>14, <1>15, <2>1
  <2>2. CASE v # w
    BY <1>10, <2>2
  <2> QED BY <2>1, <2>2
<1> QED BY <1>16, <1>17

\* No other step changes a workflow or adds a row about one.
LEMMA OtherStepMatches ==
  ASSUME RouterInv, NewestInv, StatusMatchesLedger, [Next]_vars,
         \A r \in Requests : ~RouterCommit(r)
  PROVE  NewestInv' /\ StatusMatchesLedger'
<1>1. LogInv /\ rows \in Seq(Row) /\ Len(rows) \in Nat /\ DOMAIN rows = 1..Len(rows)
  BY DEF RouterInv, TypeOK, LogInv, LogTypeOK
<1>2. wf' = wf
  BY DEF Next, BeaconStep, RouterStep, Refuse, RouterBegin, NotFound, Update, RouterRead,
         RouterAbort, vars
<1>3. /\ DOMAIN rows' \in {DOMAIN rows, 1..Len(rows) + 1}
      /\ \A i \in DOMAIN rows : rows'[i] = rows[i]
      /\ \A i \in DOMAIN rows' \ DOMAIN rows : rows'[i].subject = NoWorkflow
  <2>1. ASSUME NEW b \in Beacons, BeaconCommit(b, NoWorkflow)
        PROVE  /\ DOMAIN rows' \in {DOMAIN rows, 1..Len(rows) + 1}
               /\ \A i \in DOMAIN rows : rows'[i] = rows[i]
               /\ \A i \in DOMAIN rows' \ DOMAIN rows : rows'[i].subject = NoWorkflow
    <3>1. b \in Writers /\ NoWorkflow \in Subjects /\ "mcp_call" \in Events
      BY GatedRouterAssumption
    <3>2. Commit(b, GatewayHash(b), NoWorkflow, "mcp_call", "idle")
      BY <2>1 DEF BeaconCommit
    <3>3. /\ DOMAIN rows' = 1..Len(rows) + 1
          /\ rows'[Len(rows) + 1] =
                [ts |-> txn[b].ts, prev |-> txn[b].prev, hash |-> GatewayHash(b),
                 subject |-> NoWorkflow, says |-> "mcp_call"]
          /\ \A i \in 1..Len(rows) : rows'[i] = rows[i]
      BY <1>1, <3>1, <3>2, CommitEffect
    <3> QED BY <1>1, <3>3
  <2>2. CASE \A b \in Beacons : ~BeaconCommit(b, NoWorkflow)
    <3>1. rows' = rows
      BY <2>2 DEF Next, BeaconStep, BeaconBegin, BeaconRead, BeaconAbort, RouterStep, Refuse,
             RouterBegin, NotFound, Update, RouterRead, RouterAbort,
             Begin, ReadTail, Abort, vars, logVars
    <3> QED BY <1>1, <3>1
  <2> QED BY <2>1, <2>2
<1>4. ASSUME NEW w \in Existing
      PROVE  /\ RowsOf(w)' = RowsOf(w)
             /\ IF RowsOf(w)' = {}
                THEN wf'[w].status \in InitialStatus /\ ~wf'[w].approved
                ELSE /\ wf'[w].status = rows'[Newest(RowsOf(w)')].says
                     /\ wf'[w].approved <=> \E i \in RowsOf(w)' : rows'[i].says = "executed"
  <2>1. w # NoWorkflow
    BY GatedRouterAssumption
  <2> QED BY <1>1, <1>2, <1>3, <2>1, OtherSubject
<1>5. NewestInv'
  BY <1>4 DEF NewestInv
<1>6. StatusMatchesLedger'
  BY <1>4 DEF StatusMatchesLedger
<1> QED BY <1>5, <1>6

\* The status of a workflow is what its newest row says, and it is approved
\* exactly if some row says that it was executed.
THEOREM RouterStatusMatchesLedger == Spec => []StatusMatchesLedger
<1>1. Init => NewestInv /\ StatusMatchesLedger
  <2> SUFFICES ASSUME Init PROVE NewestInv /\ StatusMatchesLedger
    OBVIOUS
  <2>1. rows = <<>> /\ \A w : RowsOf(w) = {}
    BY DEF Init, LogInit, RowsOf
  <2>2. \A w \in Existing : wf[w].status \in InitialStatus /\ ~wf[w].approved
    BY DEF Init
  <2> QED BY <2>1, <2>2 DEF NewestInv, StatusMatchesLedger
<1>2. RouterInv /\ NewestInv /\ StatusMatchesLedger /\ [Next]_vars
        => NewestInv' /\ StatusMatchesLedger'
  BY RouterCommitMatches, OtherStepMatches
<1> QED BY <1>1, <1>2, RouterInvHolds, PTL DEF Spec
-----------------------------------------------------------------------------
(* Answers and the log.                                                    *)

\* A time stamp belongs to one transaction, and a transaction that is open
\* has no row yet.
StampInv ==
    /\ \A i \in DOMAIN rows : rows[i].ts \in 1..clock
    /\ \A w \in Writers :
          /\ txn[w].ts <= clock
          /\ txn[w].stage \in Open =>
                txn[w].ts > 0 /\ \A i \in DOMAIN rows : rows[i].ts # txn[w].ts
    /\ \A v, w \in Writers : txn[v].ts = txn[w].ts => v = w \/ txn[v].ts = 0

\* A request that is refused never begins; one that got another answer has
\* ended its transaction.
StageInv ==
    \A r \in Requests :
        /\ answer[r] = "forbidden" => txn[r].stage = "idle"
        /\ answer[r] \notin {"none", "forbidden"} => txn[r].stage = "closed"
        /\ txn[r].stage = "idle" => txn[r].ts = 0

\* The arithmetic types of the log.
LEMMA LogNumbers ==
  ASSUME LogInv
  PROVE  /\ rows \in Seq(Row) /\ Len(rows) \in Nat /\ DOMAIN rows = 1..Len(rows)
         /\ clock \in Nat
         /\ txn \in [Writers -> [stage: Stages, ts: Nat, prev: Nat]]
         /\ \A i \in 1..Len(rows) : rows[i].ts \in Nat
         /\ \A w \in Writers : txn[w].ts \in Nat
<1>1. \A i \in 1..Len(rows) : rows[i] \in Row
  BY DEF LogInv, LogTypeOK
<1> QED BY <1>1, AuditLogAssumption DEF LogInv, LogTypeOK, Row

\* StampInv is kept by whatever happens to the log.
LEMMA StampStep ==
  ASSUME LogInv, StampInv, LogStep
  PROVE  StampInv'
<1>1. CASE BeginStep
  <2>1. PICK w \in Writers : Begin(w)
    BY <1>1 DEF BeginStep
  <2>2. rows' = rows /\ clock' = clock + 1
    BY <2>1 DEF Begin
  <2>3. /\ txn'[w].ts = clock + 1 /\ \A v \in Writers \ {w} : txn'[v] = txn[v]
    BY <2>1, LogNumbers DEF Begin
  <2>4. \A i \in DOMAIN rows : rows[i].ts \in 1..clock
    BY DEF StampInv
  <2>5. \A i \in DOMAIN rows : rows[i].ts \in 1..clock + 1 /\ rows[i].ts # clock + 1
    BY <2>4, LogNumbers
  <2>6. \A v \in Writers \ {w} : txn'[v].ts <= clock /\ txn'[v].ts # clock + 1
    BY <2>3, LogNumbers DEF StampInv
  <2>7. ASSUME NEW v \in Writers
        PROVE  /\ txn'[v].ts <= clock'
               /\ txn'[v].stage \in Open =>
                     txn'[v].ts > 0 /\ \A i \in DOMAIN rows' : rows'[i].ts # txn'[v].ts
    <3>1. CASE v = w
      BY <2>2, <2>3, <2>5, <3>1, LogNumbers
    <3>2. CASE v # w
      BY <2>2, <2>3, <2>6, <3>2, LogNumbers DEF StampInv
    <3> QED BY <3>1, <3>2
  <2>8. ASSUME NEW u \in Writers, NEW v \in Writers, txn'[u].ts = txn'[v].ts
        PROVE  u = v \/ txn'[u].ts = 0
    BY <2>3, <2>6, <2>8 DEF StampInv
  <2> QED BY <2>2, <2>5, <2>7, <2>8 DEF StampInv
<1>2. CASE LockStep \/ ReadStep \/ AbortStep \/ UNCHANGED logVars
  <2>1. rows' = rows /\ clock' = clock
    BY <1>2 DEF LockStep, ReadStep, ReadTail, AbortStep, Abort, logVars
  <2>2. \A v \in Writers : /\ txn'[v].ts = txn[v].ts
                           /\ txn'[v].stage \in Open => txn[v].stage \in Open
    <3>1. CASE LockStep \/ AbortStep
      <4>1. PICK w \in Writers, stage \in {"locked", "idle", "closed"} :
               txn' = [txn EXCEPT ![w].stage = stage] /\ txn[w].stage \in Open
        BY <3>1 DEF LockStep, AbortStep, Abort, Open
      <4>2. stage \in Stages
        BY DEF Stages
      <4> QED BY <4>1, <4>2, StageChange
    <3>2. CASE ReadStep
      <4>1. PICK w \in Writers, stage \in {"begun", "locked"} : ReadTail(w, stage)
        BY <3>2 DEF ReadStep
      <4>2. PICK i \in 0..Len(rows) :
               txn' = [txn EXCEPT ![w] = [stage |-> "read", ts |-> @.ts, prev |-> i]]
        BY <4>1 DEF ReadTail
      <4>3. i \in Nat /\ txn[w].stage \in Open
        BY <4>1, LogNumbers DEF ReadTail, Open
      <4> QED BY <4>2, <4>3, ReadChange
    <3>3. CASE UNCHANGED logVars
      BY <3>3 DEF logVars
    <3> QED BY <1>2, <3>1, <3>2, <3>3
  <2> QED BY <2>1, <2>2 DEF StampInv
<1>3. CASE CommitStep
  <2>1. PICK w \in Writers, subject \in Subjects, says \in Events, stage \in {"idle", "closed"} :
           \E hash \in {GatewayHash(w), RouterHash} : Commit(w, hash, subject, says, stage)
    BY <1>3 DEF CommitStep
  <2>2. /\ DOMAIN rows' = 1..Len(rows) + 1
        /\ rows'[Len(rows) + 1].ts = txn[w].ts
        /\ \A i \in 1..Len(rows) : rows'[i] = rows[i]
    <3>1. PICK hash \in {GatewayHash(w), RouterHash} : Commit(w, hash, subject, says, stage)
      BY <2>1
    <3>2. /\ DOMAIN rows' = 1..Len(rows) + 1
          /\ rows'[Len(rows) + 1] = [ts |-> txn[w].ts, prev |-> txn[w].prev,
                                     hash |-> hash, subject |-> subject, says |-> says]
          /\ \A i \in 1..Len(rows) : rows'[i] = rows[i]
      BY <3>1, CommitEffect
    <3> QED BY <3>2
  <2>3. clock' = clock /\ txn[w].stage = "read"
        /\ txn'[w].ts = txn[w].ts /\ txn'[w].stage \notin Open
        /\ \A v \in Writers \ {w} : txn'[v] = txn[v]
    <3>1. txn' = [txn EXCEPT ![w].stage = stage] /\ stage \in Stages
          /\ clock' = clock /\ txn[w].stage = "read"
      BY <2>1 DEF Commit, Stages
    <3>2. /\ txn'[w] = [stage |-> stage, ts |-> txn[w].ts, prev |-> txn[w].prev]
          /\ \A v \in Writers \ {w} : txn'[v] = txn[v]
      BY <3>1, StageChange
    <3> QED BY <3>1, <3>2 DEF Open
  <2>4. txn[w].ts \in 1..clock
    BY <2>3, LogNumbers DEF StampInv, Open
  <2>5. \A i \in DOMAIN rows' : rows'[i].ts \in 1..clock'
    BY <2>2, <2>3, <2>4, LogNumbers DEF StampInv
  <2>6. ASSUME NEW v \in Writers, txn'[v].stage \in Open
        PROVE  \A i \in DOMAIN rows' : rows'[i].ts # txn'[v].ts
    <3>1. v # w /\ txn'[v] = txn[v] /\ txn[v].stage \in Open
      BY <2>3, <2>6
    <3>2. txn[v].ts # txn[w].ts
      BY <2>4, <3>1, LogNumbers DEF StampInv
    <3> QED BY <2>2, <3>1, <3>2, LogNumbers DEF StampInv
  <2>7. \A v \in Writers : txn'[v].ts = txn[v].ts
                           /\ (txn'[v].stage \in Open => txn[v].stage \in Open)
    BY <2>3
  <2> QED BY <2>3, <2>5, <2>6, <2>7 DEF StampInv
<1> QED BY <1>1, <1>2, <1>3 DEF LogStep

\* What another writer's step leaves of a request.
LEMMA OtherRequest ==
  ASSUME RouterInv, NEW w \in Writers, NEW r \in Requests, r # w,
         (w \in Beacons /\ BeaconStep(w)) \/ (w \in Requests /\ RouterStep(w))
  PROVE  txn'[r] = txn[r] /\ answer'[r] = answer[r] /\ req' = req
<1>1. /\ txn \in [Writers -> [stage: Stages, ts: Nat, prev: Nat]]
      /\ answer \in [Requests -> Answers] /\ r \in Writers
  BY GatedRouterAssumption DEF RouterInv, TypeOK, LogTypeOK
<1>2. CASE w \in Beacons /\ BeaconStep(w)
  BY <1>1, <1>2 DEF BeaconStep, BeaconBegin, BeaconRead, BeaconCommit, BeaconAbort,
                    Begin, ReadTail, Commit, Abort
<1>3. CASE w \in Requests /\ (Refuse(w) \/ RouterBegin(w) \/ NotFound(w) \/ Update(w))
  BY <1>1, <1>3 DEF Refuse, RouterBegin, NotFound, Update, Begin, Abort, logVars
<1>4. CASE w \in Requests /\ (RouterRead(w) \/ RouterCommit(w) \/ RouterAbort(w))
  BY <1>1, <1>4 DEF RouterRead, RouterCommit, RouterAbort, ReadTail, Commit, Abort
<1> QED BY <1>2, <1>3, <1>4 DEF RouterStep

\* What a request's own step leaves of its transaction and its answer.
LEMMA OwnRequest ==
  ASSUME RouterInv, NEW r \in Requests, RouterStep(r)
  PROVE  /\ req' = req
         /\ Refuse(r) => txn'[r] = txn[r] /\ answer'[r] = "forbidden"
         /\ RouterBegin(r) => txn'[r].stage = "begun" /\ answer'[r] = "none"
         /\ NotFound(r) => /\ txn'[r].stage = "closed" /\ txn'[r].ts = txn[r].ts
                          /\ answer'[r] = "notfound"
         /\ Update(r) \/ RouterRead(r) =>
               txn'[r].stage \in {"locked", "read"} /\ answer'[r] = answer[r]
         /\ RouterAbort(r) => txn'[r].stage = "closed" /\ answer'[r] = "error"
         /\ RouterCommit(r) =>
               /\ txn'[r].stage = "closed" /\ txn'[r].ts = txn[r].ts
               /\ answer'[r] \in {IF req[r].signed THEN "executed" ELSE "parked", "error"}
<1>1. /\ txn \in [Writers -> [stage: Stages, ts: Nat, prev: Nat]] /\ LogInv
      /\ answer \in [Requests -> Answers] /\ r \in Writers /\ "closed" \in Stages
  BY GatedRouterAssumption DEF RouterInv, TypeOK, LogTypeOK, LogInv, Stages
<1>2. req' = req
  BY DEF RouterStep, Refuse, RouterBegin, NotFound, Update, RouterRead, RouterCommit, RouterAbort
<1>3. Refuse(r) => txn'[r] = txn[r] /\ answer'[r] = "forbidden"
  BY <1>1 DEF Refuse, logVars
<1>4. RouterBegin(r) => txn'[r].stage = "begun" /\ answer'[r] = "none"
  BY <1>1 DEF RouterBegin, Begin
<1>5. NotFound(r) \/ RouterAbort(r) => txn'[r].stage = "closed" /\ txn'[r].ts = txn[r].ts
  <2>1. NotFound(r) \/ RouterAbort(r) => txn' = [txn EXCEPT ![r].stage = "closed"]
    BY DEF NotFound, RouterAbort, Abort
  <2> QED BY <1>1, <2>1, StageChange
<1>6. (NotFound(r) => answer'[r] = "notfound") /\ (RouterAbort(r) => answer'[r] = "error")
  BY <1>1 DEF NotFound, RouterAbort
<1>7. Update(r) \/ RouterRead(r) =>
         txn'[r].stage \in {"locked", "read"} /\ answer'[r] = answer[r]
  BY <1>1 DEF Update, RouterRead, ReadTail
<1>8. ASSUME RouterCommit(r)
      PROVE  /\ txn'[r].stage = "closed" /\ txn'[r].ts = txn[r].ts
             /\ answer'[r] \in {IF req[r].signed THEN "executed" ELSE "parked", "error"}
  <2>1. txn' = [txn EXCEPT ![r].stage = "closed"]
    BY <1>8 DEF RouterCommit, Commit
  <2>2. PICK a \in {IF req[r].signed THEN "executed" ELSE "parked", "error"} :
           answer' = [answer EXCEPT ![r] = a]
    BY <1>8 DEF RouterCommit
  <2> QED BY <1>1, <2>1, <2>2, StageChange
<1> QED BY <1>2, <1>3, <1>4, <1>5, <1>6, <1>7, <1>8

\* A request that has an answer takes no further step.
LEMMA StageStep ==
  ASSUME RouterInv, StageInv, [Next]_vars
  PROVE  StageInv'
<1> SUFFICES ASSUME NEW r \in Requests
             PROVE  /\ answer'[r] = "forbidden" => txn'[r].stage = "idle"
                    /\ answer'[r] \notin {"none", "forbidden"} => txn'[r].stage = "closed"
                    /\ txn'[r].stage = "idle" => txn'[r].ts = 0
  BY DEF StageInv
<1>1. ASSUME NEW w \in Writers, w # r,
             (w \in Beacons /\ BeaconStep(w)) \/ (w \in Requests /\ RouterStep(w))
      PROVE  txn'[r] = txn[r] /\ answer'[r] = answer[r]
  BY <1>1, OtherRequest
<1>2. CASE RouterStep(r)
  <2>1. CASE Refuse(r)
    BY <1>2, <2>1, OwnRequest DEF StageInv, Refuse
  <2>2. CASE RouterBegin(r) \/ NotFound(r) \/ RouterAbort(r)
    BY <1>2, <2>2, OwnRequest
  <2>3. CASE Update(r) \/ RouterRead(r)
    <3>1. txn[r].stage \in {"begun", "locked"}
      BY <2>3 DEF Update, RouterRead, ReadTail
    <3>2. answer[r] = "none"
      BY <3>1 DEF StageInv
    <3> QED BY <1>2, <2>3, <3>2, OwnRequest
  <2>4. CASE RouterCommit(r)
    BY <1>2, <2>4, OwnRequest
  <2> QED BY <1>2, <2>1, <2>2, <2>3, <2>4 DEF RouterStep
<1>3. CASE UNCHANGED vars
  BY <1>3 DEF StageInv, vars, logVars
<1> QED BY <1>1, <1>2, <1>3, GatedRouterAssumption DEF Next, StageInv

\* The row a commit appends is the row of that transaction, and says what its
\* request was told.
LEMMA RouterAppends ==
  ASSUME RouterInv, NEW r \in Requests, RouterCommit(r)
  PROVE  /\ DOMAIN rows' = 1..Len(rows) + 1
         /\ rows'[Len(rows) + 1].ts = txn[r].ts
         /\ rows'[Len(rows) + 1].subject = req[r].workflow
         /\ rows'[Len(rows) + 1].says =
                IF req[r].signed THEN "executed" ELSE "pending_human_review"
<1>1. LogInv /\ r \in Writers /\ req[r].workflow \in Subjects /\ req[r].workflow \in Existing
  BY GatedRouterAssumption
     DEF RouterInv, TypeOK, LogInv, Request, RouterCommit, Commit, LockInv
<1>2. Commit(r, RouterHash, req[r].workflow, Updated(r).status, "closed")
  BY DEF RouterCommit
<1>3. Updated(r).status = IF req[r].signed THEN "executed" ELSE "pending_human_review"
  <2>1. wf[req[r].workflow] \in [status: Statuses, approved: BOOLEAN]
    BY <1>1 DEF RouterInv, TypeOK
  <2> QED BY <2>1 DEF Updated
<1>4. Updated(r).status \in Events
  BY <1>3, GatedRouterAssumption DEF Statuses
<1>5. /\ DOMAIN rows' = 1..Len(rows) + 1
      /\ rows'[Len(rows) + 1].ts = txn[r].ts
      /\ rows'[Len(rows) + 1].subject = req[r].workflow
      /\ rows'[Len(rows) + 1].says = Updated(r).status
  BY <1>1, <1>2, <1>4, CommitRow, Zenon
<1> QED BY <1>3, <1>5

\* The rows of a request's own transaction.
OwnRows(r) == {i \in DOMAIN rows : rows[i].ts = txn[r].ts}

\* A row of another transaction is not among a request's own.
LEMMA OwnRowsStay ==
  ASSUME RouterInv, StampInv, [Next]_vars, NEW r \in Requests,
         txn'[r].ts = txn[r].ts, ~RouterCommit(r)
  PROVE  OwnRows(r)' = OwnRows(r) /\ \A i \in DOMAIN rows : rows'[i] = rows[i]
<1>1. LogInv /\ r \in Writers
  BY GatedRouterAssumption DEF RouterInv, TypeOK, LogInv
<1>2. ASSUME NEW w \in Writers, NEW hash \in {GatewayHash(w), RouterHash},
             NEW subject \in Subjects, NEW says \in Events, NEW stage \in {"idle", "closed"},
             Commit(w, hash, subject, says, stage), w # r
      PROVE  OwnRows(r)' = OwnRows(r) /\ \A i \in DOMAIN rows : rows'[i] = rows[i]
  <2>1. /\ DOMAIN rows' = 1..Len(rows) + 1 /\ DOMAIN rows = 1..Len(rows)
        /\ rows'[Len(rows) + 1].ts = txn[w].ts
        /\ \A i \in 1..Len(rows) : rows'[i] = rows[i]
    <3>1. hash = GatewayHash(w) \/ hash = RouterHash
      OBVIOUS
    <3> QED BY <1>1, <1>2, <3>1, CommitRow, Zenon
  <2>2. txn[w].ts # txn[r].ts
    <3>1. txn[w].ts > 0
      BY <1>2 DEF StampInv, Commit, Open
    <3> QED BY <1>1, <1>2, <3>1, LogNumbers DEF StampInv
  <2>3. rows'[Len(rows) + 1].ts # txn[r].ts /\ Len(rows) \in Nat
    BY <1>1, <2>1, <2>2, LogNumbers
  <2>4. OwnRows(r)' = {i \in DOMAIN rows' : rows'[i].ts = txn[r].ts}
    BY DEF OwnRows
  <2> HIDE <1>2
  <2>5. 1..Len(rows) + 1 = (1..Len(rows)) \cup {Len(rows) + 1}
    BY <2>3
  <2> QED BY <2>1, <2>3, <2>4, <2>5 DEF OwnRows
<1>3. ASSUME rows' = rows
      PROVE  OwnRows(r)' = OwnRows(r) /\ \A i \in DOMAIN rows : rows'[i] = rows[i]
  BY <1>3 DEF OwnRows
<1>4. ASSUME NEW b \in Beacons, BeaconStep(b)
      PROVE  OwnRows(r)' = OwnRows(r) /\ \A i \in DOMAIN rows : rows'[i] = rows[i]
  <2>1. b \in Writers /\ b # r /\ NoWorkflow \in Subjects /\ "mcp_call" \in Events
    BY GatedRouterAssumption
  <2>2. CASE BeaconCommit(b, NoWorkflow)
    BY <1>2, <2>1, <2>2 DEF BeaconCommit
  <2>3. CASE ~BeaconCommit(b, NoWorkflow)
    BY <1>3, <1>4, <2>3 DEF BeaconStep, BeaconBegin, BeaconRead, BeaconAbort, Begin, ReadTail, Abort
  <2> QED BY <2>2, <2>3
<1>5. ASSUME NEW q \in Requests, RouterStep(q)
      PROVE  OwnRows(r)' = OwnRows(r) /\ \A i \in DOMAIN rows : rows'[i] = rows[i]
  <2>1. CASE RouterCommit(q)
    <3>1. q # r /\ q \in Writers /\ req[q].workflow \in Subjects /\ req[q].workflow \in Existing
      BY <2>1, GatedRouterAssumption
         DEF RouterInv, TypeOK, Request, RouterCommit, Commit, LockInv
    <3>2. Updated(q).status \in Events
      <4>1. wf[req[q].workflow] \in [status: Statuses, approved: BOOLEAN]
        BY <3>1 DEF RouterInv, TypeOK
      <4> QED BY <4>1, GatedRouterAssumption DEF Updated, Statuses
    <3> QED BY <1>2, <2>1, <3>1, <3>2 DEF RouterCommit
  <2>2. CASE ~RouterCommit(q)
    BY <1>3, <1>5, <2>2 DEF RouterStep, Refuse, RouterBegin, NotFound, Update, RouterRead,
                            RouterAbort, Begin, ReadTail, Abort, logVars
  <2> QED BY <2>1, <2>2
<1> QED BY <1>3, <1>4, <1>5 DEF Next, vars, logVars

\* What AnswersAreAnchored says of one request.
Anchored(r) ==
    /\ answer[r] \in {"executed", "parked"} =>
          \E i \in OwnRows(r) : /\ rows[i].subject = req[r].workflow
                                /\ rows[i].says = IF answer[r] = "executed"
                                                  THEN "executed"
                                                  ELSE "pending_human_review"
    /\ answer[r] \in {"forbidden", "notfound"} => OwnRows(r) = {}

\* A request's own step leaves its answer anchored.
LEMMA OwnStepAnchors ==
  ASSUME RouterInv, StampInv, StageInv, [Next]_vars,
         NEW r \in Requests, RouterStep(r), Anchored(r)
  PROVE  Anchored(r)'
<1>0. r \in Writers /\ LogInv
  BY GatedRouterAssumption DEF RouterInv, TypeOK, LogInv
<1>1. CASE RouterCommit(r)
  <2> DEFINE n == Len(rows) + 1
  <2>1. /\ n \in DOMAIN rows' /\ rows'[n].ts = txn'[r].ts
        /\ rows'[n].subject = req'[r].workflow
        /\ rows'[n].says = IF req[r].signed THEN "executed" ELSE "pending_human_review"
    BY <1>0, <1>1, RouterAppends, OwnRequest, LogNumbers
  <2>2. answer'[r] \in {IF req[r].signed THEN "executed" ELSE "parked", "error"}
    BY <1>1, OwnRequest
  <2> HIDE DEF n
  <2>3. n \in OwnRows(r)'
    BY <2>1 DEF OwnRows
  <2> QED BY <2>1, <2>2, <2>3 DEF Anchored
<1>2. CASE Refuse(r)
  <2>1. txn'[r] = txn[r] /\ answer'[r] = "forbidden" /\ txn[r].ts = 0 /\ rows' = rows
    BY <1>2, OwnRequest DEF Refuse, StageInv, logVars
  <2>2. OwnRows(r)' = {}
    BY <1>0, <2>1, LogNumbers DEF OwnRows, StampInv
  <2> QED BY <2>1, <2>2 DEF Anchored
<1>3. CASE NotFound(r)
  <2>1. /\ txn[r].stage \in Open /\ txn'[r].ts = txn[r].ts
        /\ answer'[r] = "notfound" /\ rows' = rows
    BY <1>3, OwnRequest DEF NotFound, Abort
  <2>2. OwnRows(r)' = {}
    BY <1>0, <2>1 DEF OwnRows, StampInv
  <2> QED BY <2>1, <2>2 DEF Anchored
<1>4. CASE RouterBegin(r) \/ RouterAbort(r)
  BY <1>4, OwnRequest DEF Anchored
<1>5. CASE Update(r) \/ RouterRead(r)
  <2>1. txn[r].stage \in {"begun", "locked"}
    BY <1>5 DEF Update, RouterRead, ReadTail
  <2>2. answer[r] = "none"
    BY <2>1 DEF StageInv
  <2> QED BY <1>5, <2>2, OwnRequest DEF Anchored
<1> QED BY <1>1, <1>2, <1>3, <1>4, <1>5 DEF RouterStep

\* So do the steps of others, which commit rows of their own transactions.
LEMMA OtherStepAnchors ==
  ASSUME RouterInv, StampInv, [Next]_vars, NEW r \in Requests, Anchored(r),
         txn'[r] = txn[r], answer'[r] = answer[r], req' = req
  PROVE  Anchored(r)'
<1>1. CASE RouterCommit(r)
  <2>1. txn[r].stage = "read" /\ txn'[r].stage = "closed"
    BY <1>1, OwnRequest DEF RouterCommit, Commit, RouterStep
  <2> QED BY <2>1
<1>2. CASE ~RouterCommit(r)
  <2>1. OwnRows(r)' = OwnRows(r) /\ \A i \in DOMAIN rows : rows'[i] = rows[i]
    BY <1>2, OwnRowsStay
  <2>2. OwnRows(r) \subseteq DOMAIN rows
    BY DEF OwnRows
  <2> QED BY <2>1, <2>2 DEF Anchored
<1> QED BY <1>1, <1>2

\* A caller told that its action was executed or parked has the row of its own
\* transaction in the log, saying just that; one that was refused, or named no
\* workflow, has none: whatever other transactions overlap, fail or are lost.
THEOREM RouterAnswersAreAnchored == Spec => []AnswersAreAnchored
<1> DEFINE Inv == StampInv /\ StageInv /\ \A r \in Requests : Anchored(r)
<1>1. Init => Inv
  <2> SUFFICES ASSUME Init PROVE Inv
    OBVIOUS
  <2>1. /\ rows = <<>> /\ clock = 0 /\ DOMAIN rows = {}
        /\ \A w \in Writers : txn[w].stage = "idle" /\ txn[w].ts = 0
        /\ \A r \in Requests : answer[r] = "none"
    BY DEF Init, LogInit
  <2>2. \A r \in Requests : Anchored(r)
    BY <2>1 DEF Anchored
  <2>3. StampInv
    BY <2>1 DEF StampInv, Open
  <2> QED BY <2>1, <2>2, <2>3, GatedRouterAssumption DEF StageInv
<1>2. RouterInv /\ Inv /\ [Next]_vars => Inv'
  <2> SUFFICES ASSUME RouterInv, Inv, [Next]_vars PROVE Inv'
    OBVIOUS
  <2>1. StampInv'
    BY RouterLogCases, StampStep DEF RouterInv, LogInv, TypeOK
  <2>2. StageInv'
    BY StageStep
  <2>3. ASSUME NEW r \in Requests PROVE Anchored(r)'
    <3>1. CASE RouterStep(r)
      BY <3>1, OwnStepAnchors
    <3>2. ASSUME NEW w \in Writers, w # r,
                 (w \in Beacons /\ BeaconStep(w)) \/ (w \in Requests /\ RouterStep(w))
          PROVE  Anchored(r)'
      BY <3>2, OtherRequest, OtherStepAnchors
    <3>3. CASE UNCHANGED vars
      BY <3>3, OtherStepAnchors DEF vars, logVars
    <3> QED BY <3>1, <3>2, <3>3, GatedRouterAssumption DEF Next
  <2> QED BY <2>1, <2>2, <2>3
<1>3. Inv => AnswersAreAnchored
  BY DEF Anchored, OwnRows, AnswersAreAnchored
<1> QED BY <1>1, <1>2, <1>3, RouterInvHolds, PTL DEF Spec

=============================================================================
