------------------------- MODULE VerificationProofs -------------------------
(***************************************************************************)
(* Theorems about the verification service, for any number of requests,    *)
(* providers and roles, any thresholds and any clock.                      *)
(*                                                                         *)
(* DecisionInv is what makes a decision stable: once a request was         *)
(* gathered no answer can change what the decision was made of.  LockInv   *)
(* is what FOR UPDATE buys: the state a transition was judged by is the    *)
(* state of the row until it commits.  ChainInv adds the committed changes *)
(* and the audit rows.                                                     *)
(***************************************************************************)
EXTENDS Verification, SequenceTheorems, TLAPS

\* A transition that runs knows its row, which exists, and what it asks.
AskingInv ==
    \A t \in Transitions :
        /\ stage[t] \in {"select", "update", "audit"} =>
              asked[t] \in Request /\ truth[asked[t].subject] \in TruthStates
        /\ stage[t] \in {"update", "audit"} => from[t] \in TruthStates

TypeInv == TypeOK /\ AskingInv

VerifyStep(r) == Ask(r) \/ AppendDecision(r) \/ Create(r)
AnswerStep(r, p) == Answers(r, p) \/ Puzzles(r, p) \/ Fails(r, p)
TransitionStep(t) ==
    Begin(t) \/ Select(t) \/ Refuse(t) \/ Update(t) \/ AppendTransition(t)

-----------------------------------------------------------------------------
(* Type correctness.                                                       *)

\* A decision is one of the three.
LEMMA DecisionType ==
  ASSUME NEW r \in Verifies
  PROVE  Decision(r) \in Decisions /\ TruthOf(Decision(r)) \in TruthStates
BY DEF Decision, Decisions, TruthOf, TruthStates

\* The transitions are to truth states.
LEMMA TargetType ==
  ASSUME TypeInv, NEW t \in Transitions, stage[t] \in {"select", "update", "audit"}
  PROVE  /\ asked[t] \in Request
         /\ Subject(t) \in Verifies
         /\ Target(t) \in TruthStates
         /\ truth[Subject(t)] \in TruthStates
BY DEF TypeInv, AskingInv, Request, Subject, Target

\* A verify request is no transition, and neither is Nobody.
LEMMA Disjoint ==
  /\ Verifies \subseteq Requests
  /\ Transitions \subseteq Requests
  /\ \A r \in Verifies, t \in Transitions : r # t
BY VerificationAssumption DEF Requests

LEMMA BreakerType ==
  ASSUME TypeInv, NEW p \in Providers
  PROVE  /\ Reset(breaker[p]) \in [fails: Nat, openedAt: 0 .. MaxTime]
         /\ RecordSuccess(breaker[p]) \in [fails: Nat, openedAt: 0 .. MaxTime]
         /\ RecordFailure(breaker[p]) \in [fails: Nat, openedAt: 0 .. MaxTime]
<1>1. breaker[p] \in [fails: Nat, openedAt: 0 .. MaxTime] /\ now \in 1 .. MaxTime /\ MaxTime \in Nat
  BY VerificationAssumption DEF TypeInv, TypeOK
<1>2. breaker[p].fails \in Nat /\ breaker[p].openedAt \in 0 .. MaxTime /\ now \in 0 .. MaxTime
  BY <1>1
<1>3. Reset(breaker[p]) \in [fails: Nat, openedAt: 0 .. MaxTime]
  BY <1>1, <1>2 DEF Reset
<1>4. RecordFailure(breaker[p]) \in [fails: Nat, openedAt: 0 .. MaxTime]
  BY <1>1, <1>2 DEF RecordFailure
<1> QED BY <1>1, <1>2, <1>3, <1>4 DEF RecordSuccess

LEMMA TypeVerify ==
  ASSUME TypeInv, NEW r \in Verifies, VerifyStep(r)
  PROVE  TypeInv'
<1>1. CASE Ask(r)
  <2>1. breaker' \in [Providers -> [fails: Nat, openedAt: 0 .. MaxTime]]
    BY <1>1, BreakerType DEF Ask
  <2> DEFINE asks == [p \in Providers |-> IF breaker'[p].openedAt = 0 /\ p \in Configured
                               THEN "asked" ELSE "MISSING"]
  <2>2. asks \in [Providers -> Decisions \union {"idle", "asked", "MISSING"}]
    OBVIOUS
  <2>3. source' = [source EXCEPT ![r] = asks]
    BY <1>1 DEF Ask
  <2> HIDE DEF asks
  <2>4. source' \in [Verifies -> [Providers -> Decisions \union {"idle", "asked", "MISSING"}]]
    BY <2>2, <2>3 DEF TypeInv, TypeOK
  <2>5. TypeOK'
    BY <1>1, <2>1, <2>4, Disjoint DEF Ask, TypeInv, TypeOK, To
  <2>6. AskingInv'
    BY <1>1, Disjoint DEF Ask, TypeInv, AskingInv, TypeOK, To
  <2> QED BY <2>5, <2>6 DEF TypeInv
<1>2. CASE AppendDecision(r)
  <2>1. [subject |-> r, decision |-> Decision(r)] \in DecisionRow
    BY DecisionType DEF DecisionRow
  <2>2. TypeOK'
    BY <1>2, <2>1, Disjoint DEF AppendDecision, LogDecision, TypeInv, TypeOK, To, Ended
  <2>3. AskingInv'
    BY <1>2, Disjoint DEF AppendDecision, TypeInv, AskingInv, TypeOK, To
  <2> QED BY <2>2, <2>3 DEF TypeInv
<1>3. CASE Create(r)
  <2>0. truth' \in [Verifies -> TruthStates \union {"none"}]
    BY <1>3, DecisionType DEF Create, TypeInv, TypeOK
  <2>1. TypeOK'
    BY <1>3, <2>0, Disjoint DEF Create, TypeInv, TypeOK, To, Ended
  <2>2. \A q \in Verifies : truth[q] \in TruthStates => truth'[q] \in TruthStates
    BY <1>3, DecisionType DEF Create, TypeInv, TypeOK
  <2>3. AskingInv'
    BY <1>3, <2>2, Disjoint DEF Create, TypeInv, AskingInv, TypeOK, To, Request
  <2> QED BY <2>1, <2>3 DEF TypeInv
<1> QED BY <1>1, <1>2, <1>3 DEF VerifyStep

LEMMA TypeAnswer ==
  ASSUME TypeInv, NEW r \in Verifies, NEW p \in Providers, AnswerStep(r, p)
  PROVE  TypeInv'
<1>1. PICK result \in Decisions \union {"MISSING"} : source' = [source EXCEPT ![r][p] = result]
  BY DEF AnswerStep, Answers, Puzzles, Fails
<1>2. source' \in [Verifies -> [Providers -> Decisions \union {"idle", "asked", "MISSING"}]]
  BY <1>1 DEF TypeInv, TypeOK
<1>3. PICK b \in [fails: Nat, openedAt: 0 .. MaxTime] : breaker' = [breaker EXCEPT ![p] = b]
  BY BreakerType DEF AnswerStep, Answers, Puzzles, Fails
<1>4. breaker' \in [Providers -> [fails: Nat, openedAt: 0 .. MaxTime]]
  BY <1>3 DEF TypeInv, TypeOK
<1>5. stage' = stage \/ stage' = [stage EXCEPT ![r] = "failed"]
  BY DEF AnswerStep, Answers, Puzzles, Fails, To
<1>6. UNCHANGED <<now, truth, holder, asked, from, log, path>>
  BY DEF AnswerStep, Answers, Puzzles, Fails
<1>7. TypeOK'
  BY <1>2, <1>4, <1>5, <1>6, Disjoint DEF TypeInv, TypeOK, Ended
<1>8. AskingInv'
  BY <1>5, <1>6, Disjoint DEF TypeInv, AskingInv, TypeOK
<1> QED BY <1>7, <1>8 DEF TypeInv

LEMMA TypeTransition ==
  ASSUME TypeInv, NEW t \in Transitions, TransitionStep(t)
  PROVE  TypeInv'
<1> USE DEF TypeInv
<1>1. CASE Begin(t)
  <2>1. PICK request \in Request : truth[request.subject] # "none" /\ asked' = [asked EXCEPT ![t] = request]
    BY <1>1 DEF Begin
  <2>2. request.subject \in Verifies /\ truth[request.subject] \in TruthStates
    BY <2>1 DEF Request, TypeOK
  <2>3. TypeOK'
    BY <1>1, <2>1, Disjoint DEF Begin, TypeOK, To
  <2>4. AskingInv'
    BY <1>1, <2>1, <2>2, Disjoint DEF Begin, TypeOK, To, AskingInv
  <2> QED BY <2>3, <2>4
<1>2. CASE Select(t)
  <2>1. TypeOK' /\ AskingInv'
    BY <1>2, TargetType, Disjoint DEF Select, TypeOK, AskingInv, To, Subject
  <2> QED BY <2>1
<1>3. CASE Refuse(t)
  <2>1. TypeOK'
    BY <1>3, Disjoint DEF Refuse, TypeOK, To, Ends, Ended
  <2>2. AskingInv'
    BY <1>3, Disjoint DEF Refuse, TypeOK, AskingInv, To, Ends
  <2> QED BY <2>1, <2>2
<1>4. CASE Update(t)
  <2>1. ChangeOf(t) \in Change
    BY <1>4, TargetType DEF Update, ChangeOf, Change, AskingInv
  <2>2. path' \in [Verifies -> Seq(Change)]
    <3>1. path[Subject(t)] \in Seq(Change) /\ Append(path[Subject(t)], ChangeOf(t)) \in Seq(Change)
      BY <1>4, <2>1, TargetType DEF Update, TypeOK
    <3> QED BY <1>4, <3>1, TargetType DEF Update, TypeOK
  <2>0. Target(t) \in TruthStates
    BY <1>4, TargetType DEF Update
  <2>3. truth' \in [Verifies -> TruthStates \union {"none"}]
    BY <1>4, <2>0 DEF Update, TypeOK
  <2>4. \A q \in Verifies : truth[q] \in TruthStates => truth'[q] \in TruthStates
    BY <1>4, <2>0 DEF Update, TypeOK
  <2>5. TypeOK'
    BY <1>4, <2>2, <2>3, TargetType, Disjoint DEF Update, TypeOK, To, Ends, Ended
  <2>6. AskingInv'
    BY <1>4, <2>4, Disjoint DEF Update, TypeOK, AskingInv, To, Ends, Ended, Request
  <2> QED BY <2>5, <2>6
<1>5. CASE AppendTransition(t)
  <2>1. ChangeOf(t) \in Change
    BY <1>5, TargetType DEF AppendTransition, ChangeOf, Change, AskingInv
  <2>2. TypeOK'
    BY <1>5, <2>1, Disjoint DEF AppendTransition, TypeOK, To, Ends, Ended
  <2>3. AskingInv'
    <3>1. PICK end \in Ended : stage' = [stage EXCEPT ![t] = end]
      BY <1>5 DEF AppendTransition, Ends, To, Ended
    <3>2. /\ asked' = [asked EXCEPT ![t] = NoRequest]
          /\ from' = [from EXCEPT ![t] = "none"]
          /\ truth' = truth
      BY <1>5 DEF AppendTransition, Ends
    <3> QED BY <3>1, <3>2, Disjoint DEF TypeOK, AskingInv, Ended
  <2> QED BY <2>2, <2>3
<1> QED BY <1>1, <1>2, <1>3, <1>4, <1>5 DEF TransitionStep

LEMMA TypeInitially == Init => TypeInv
<1> SUFFICES ASSUME Init PROVE TypeInv
  OBVIOUS
<1>1. TypeOK
  <2>1. 0 \in 0 .. MaxTime /\ 1 \in 1 .. MaxTime
    BY VerificationAssumption
  <2>2. \A p \in Providers : breaker[p] \in [fails: Nat, openedAt: 0 .. MaxTime]
    BY <2>1 DEF Init
  <2>3. breaker \in [Providers -> [fails: Nat, openedAt: 0 .. MaxTime]]
    BY <2>2 DEF Init
  <2> QED BY <2>1, <2>3 DEF Init, TypeOK
<1>2. AskingInv
  BY Disjoint DEF Init, AskingInv
<1> QED BY <1>1, <1>2 DEF TypeInv

LEMMA TypeStep == TypeInv /\ [Next]_vars => TypeInv'
<1> SUFFICES ASSUME TypeInv, [Next]_vars PROVE TypeInv'
  OBVIOUS
<1>1. CASE \E r \in Verifies : VerifyStep(r)
  BY <1>1, TypeVerify
<1>2. CASE \E r \in Verifies, p \in Providers : AnswerStep(r, p)
  BY <1>2, TypeAnswer
<1>3. CASE \E t \in Transitions : TransitionStep(t)
  BY <1>3, TypeTransition
<1>4. CASE Tick
  BY <1>4, VerificationAssumption DEF Tick, TypeInv, TypeOK, AskingInv
<1>5. CASE UNCHANGED vars
  BY <1>5 DEF vars, TypeInv, TypeOK, AskingInv
<1> QED BY <1>1, <1>2, <1>3, <1>4, <1>5 DEF Next, VerifyStep, AnswerStep, TransitionStep

\* Every variable of the service keeps its type.
THEOREM VerificationTypeCorrect == Spec => []TypeOK
<1>1. TypeInv => TypeOK
  BY DEF TypeInv
<1> QED BY TypeInitially, TypeStep, <1>1, PTL DEF Spec

-----------------------------------------------------------------------------
(* Decisions.                                                              *)

RowOf(r) == [subject |-> r, decision |-> Decision(r)]

\* Every provider has answered, or will not be asked.
Settled(r) == \A p \in Providers : source[r][p] \notin {"idle", "asked"}

DecisionInv ==
    /\ \A r \in Verifies :
          /\ \A p \in Providers : stage[r] = "idle" <=> source[r][p] = "idle"
          /\ stage[r] \in {"create", "answered"} \/ truth[r] # "none" => RowOf(r) \in log
          /\ stage[r] = "create" \/ truth[r] # "none" => "MISSING" \notin Results(r)
          /\ stage[r] \in {"idle", "gather", "create"} => truth[r] = "none"
    /\ \A row \in log \cap DecisionRow :
          /\ stage[row.subject] # "idle"
          /\ Settled(row.subject)
          /\ row.decision = Decision(row.subject)

LEMMA RowType ==
  ASSUME NEW r \in Verifies
  PROVE  RowOf(r) \in DecisionRow /\ RowOf(r).subject = r /\ RowOf(r).decision = Decision(r)
BY DecisionType DEF RowOf, DecisionRow

\* A row tells of a decision or of a transition.
LEMMA RowKinds == Change \cap DecisionRow = {}
<1> SUFFICES ASSUME NEW x \in Change, x \in DecisionRow PROVE FALSE
  OBVIOUS
<1>1. DOMAIN x = {"by", "subject", "from", "to"}
  BY DEF Change
<1>2. DOMAIN x = {"subject", "decision"}
  BY DEF DecisionRow
<1> QED BY <1>1, <1>2

\* A decision is a function of the providers' results.
LEMMA SameResults ==
  ASSUME NEW r \in Verifies, source'[r] = source[r]
  PROVE  Results(r)' = Results(r) /\ Decision(r)' = Decision(r) /\ RowOf(r)' = RowOf(r)
BY DEF Results, Decision, RowOf

\* No step touches the results of a request whose decision is in the log.
LEMMA DecidedIsStable ==
  ASSUME TypeInv, DecisionInv, [Next]_vars, NEW r \in Verifies,
         RowOf(r) \in log \/ \E row \in log \cap DecisionRow : row.subject = r
  PROVE  source'[r] = source[r]
<1>1. stage[r] # "idle" /\ Settled(r)
  BY RowType DEF DecisionInv
<1>2. CASE \E q \in Verifies : VerifyStep(q)
  BY <1>1, <1>2 DEF VerifyStep, Ask, AppendDecision, Create, TypeInv, TypeOK
<1>3. CASE \E q \in Verifies, p \in Providers : AnswerStep(q, p)
  <2>1. PICK q \in Verifies, p \in Providers : AnswerStep(q, p)
    BY <1>3
  <2>2. q # r
    BY <1>1, <2>1 DEF AnswerStep, Answers, Puzzles, Fails, Settled
  <2> QED BY <2>1, <2>2 DEF AnswerStep, Answers, Puzzles, Fails, TypeInv, TypeOK
<1>4. CASE \E t \in Transitions : TransitionStep(t)
  BY <1>4 DEF TransitionStep, Begin, Select, Refuse, Update, AppendTransition
<1>5. CASE Tick \/ UNCHANGED vars
  BY <1>5 DEF Tick, vars
<1> QED BY <1>2, <1>3, <1>4, <1>5 DEF Next, VerifyStep, AnswerStep, TransitionStep

LEMMA DecisionVerify ==
  ASSUME TypeInv, DecisionInv, NEW r \in Verifies, VerifyStep(r),
         \A q \in Verifies : RowOf(q) \in log => source'[q] = source[q],
         \A row \in log \cap DecisionRow : source'[row.subject] = source[row.subject]
  PROVE  DecisionInv'
<1>1. CASE Ask(r)
  <2>1. \A p \in Providers : source'[r][p] # "idle"
    BY <1>1 DEF Ask, TypeInv, TypeOK
  <2>2. RowOf(r) \notin log /\ \A row \in log \cap DecisionRow : row.subject # r
    BY <1>1, RowType DEF Ask, DecisionInv
  <2>3. /\ \A q \in Verifies \ {r} : source'[q] = source[q] /\ stage'[q] = stage[q]
        /\ stage'[r] = "gather" /\ truth' = truth /\ log' = log
    BY <1>1, Disjoint DEF Ask, To, TypeInv, TypeOK
  <2>4. \A q \in Verifies \ {r} :
           Results(q)' = Results(q) /\ Decision(q)' = Decision(q) /\ RowOf(q)' = RowOf(q)
    BY <2>3, SameResults
  <2>5. truth[r] = "none"
    BY <1>1 DEF Ask, DecisionInv
  <2> QED BY <2>1, <2>2, <2>3, <2>4, <2>5 DEF DecisionInv, DecisionRow, Settled
<1>2. CASE AppendDecision(r)
  <2>1. /\ source' = source /\ truth' = truth
        /\ \A q \in Verifies \ {r} : stage'[q] = stage[q]
        /\ stage'[r] \in {"answered", "create", "failed"} /\ stage[r] = "gather"
        /\ log' = log \union {RowOf(r)} \/ log' = log
        /\ stage'[r] \in {"answered", "create"} => log' = log \union {RowOf(r)}
        /\ stage'[r] = "create" => "MISSING" \notin Results(r)
    <3>1. source' = source /\ truth' = truth /\ stage[r] = "gather"
      BY <1>2 DEF AppendDecision, Gathered
    <3>2. PICK s \in {"answered", "create", "failed"} : stage' = [stage EXCEPT ![r] = s]
      BY <1>2 DEF AppendDecision, To
    <3>3. stage'[r] = s /\ \A q \in Verifies \ {r} : stage'[q] = stage[q]
      BY <3>2, Disjoint DEF TypeInv, TypeOK
    <3>4. log' = log \union {RowOf(r)} \/ log' = log
      BY <1>2 DEF AppendDecision, LogDecision, RowOf
    <3>5. CASE LogDecision(r) /\ To(r, IF "MISSING" \in Results(r) THEN "answered" ELSE "create")
      BY <3>1, <3>2, <3>3, <3>4, <3>5, Disjoint DEF LogDecision, RowOf, To, TypeInv, TypeOK
    <3>6. CASE To(r, "failed")
      BY <3>1, <3>3, <3>4, <3>6, Disjoint DEF To, TypeInv, TypeOK
    <3> QED BY <1>2, <3>5, <3>6 DEF AppendDecision
  <2>2. \A q \in Verifies :
           Results(q)' = Results(q) /\ Decision(q)' = Decision(q) /\ RowOf(q)' = RowOf(q)
    BY <2>1, SameResults
  <2>3. Settled(r)
    BY <1>2 DEF AppendDecision, Gathered, Settled, DecisionInv
  <2>4. truth[r] = "none"
    BY <2>1 DEF DecisionInv
  <2>5. \A q \in Verifies : Settled(q)' = Settled(q)
    BY <2>1 DEF Settled
  <2>6. \A row \in log' \cap DecisionRow :
           /\ stage'[row.subject] # "idle"
           /\ Settled(row.subject)'
           /\ row.decision = Decision(row.subject)'
    <3>1. SUFFICES ASSUME NEW row \in log' \cap DecisionRow
                   PROVE  /\ stage'[row.subject] # "idle"
                          /\ Settled(row.subject)'
                          /\ row.decision = Decision(row.subject)'
      OBVIOUS
    <3>2. row.subject \in Verifies
      BY DEF DecisionRow
    <3>3. CASE row = RowOf(r)
      BY <2>1, <2>2, <2>3, <2>5, <3>3, RowType
    <3>4. CASE row \in log
      BY <2>1, <2>2, <2>5, <3>2, <3>4 DEF DecisionInv
    <3> QED BY <2>1, <3>3, <3>4
  <2>7. \A q \in Verifies :
          /\ \A p \in Providers : stage'[q] = "idle" <=> source'[q][p] = "idle"
          /\ stage'[q] \in {"create", "answered"} \/ truth'[q] # "none" => RowOf(q) \in log'
          /\ stage'[q] = "create" \/ truth'[q] # "none" => "MISSING" \notin Results(q)
          /\ stage'[q] \in {"idle", "gather", "create"} => truth'[q] = "none"
    BY <2>1, <2>4 DEF DecisionInv
  <2> QED BY <2>2, <2>6, <2>7 DEF DecisionInv
<1>3. CASE Create(r)
  <2>1. /\ source' = source /\ log' = log
        /\ \A q \in Verifies \ {r} : stage'[q] = stage[q] /\ truth'[q] = truth[q]
        /\ stage'[r] \in {"answered", "failed"} /\ stage[r] = "create"
    BY <1>3, Disjoint DEF Create, To, TypeInv, TypeOK
  <2>2. \A q \in Verifies :
           Results(q)' = Results(q) /\ Decision(q)' = Decision(q) /\ RowOf(q)' = RowOf(q)
    BY <2>1, SameResults
  <2>3. \A q \in Verifies : Settled(q)' = Settled(q)
    BY <2>1 DEF Settled
  <2>4. \A row \in log \cap DecisionRow : stage'[row.subject] # "idle"
    BY <2>1 DEF DecisionInv, DecisionRow
  <2> QED BY <2>1, <2>2, <2>3, <2>4 DEF DecisionInv, DecisionRow
<1> QED BY <1>1, <1>2, <1>3 DEF VerifyStep

LEMMA DecisionAnswer ==
  ASSUME TypeInv, DecisionInv, NEW r \in Verifies, NEW p \in Providers, AnswerStep(r, p)
  PROVE  DecisionInv'
<1>1. PICK result \in Decisions \union {"MISSING"} : source' = [source EXCEPT ![r][p] = result]
  BY DEF AnswerStep, Answers, Puzzles, Fails
<1>2. /\ source[r][p] = "asked" /\ truth' = truth /\ log' = log
      /\ stage'[r] \in {stage[r], "failed"}
      /\ \A q \in Verifies \ {r} : stage'[q] = stage[q]
  BY Disjoint DEF AnswerStep, Answers, Puzzles, Fails, To, TypeInv, TypeOK
<1>3. \A q \in Verifies \ {r} : source'[q] = source[q]
  BY <1>1 DEF TypeInv, TypeOK
<1>4. \A q \in Verifies \ {r} :
         /\ Results(q)' = Results(q) /\ Decision(q)' = Decision(q) /\ RowOf(q)' = RowOf(q)
         /\ Settled(q)' = Settled(q)
  BY <1>3, SameResults DEF Settled
<1>5. \A row \in log \cap DecisionRow : row.subject # r
  BY <1>2 DEF DecisionInv, Settled
<1>6. RowOf(r) \notin log
  BY <1>5, RowType
<1>7. stage[r] \notin {"create", "answered"} /\ truth[r] = "none"
  BY <1>6 DEF DecisionInv
<1>8. stage[r] # "idle" /\ stage'[r] # "idle"
  BY <1>2 DEF DecisionInv
<1>9. \A i \in Providers : source'[r][i] # "idle"
  BY <1>1, <1>8 DEF DecisionInv, TypeInv, TypeOK, Decisions
<1>10. \A row \in log' \cap DecisionRow :
           /\ stage'[row.subject] # "idle"
           /\ Settled(row.subject)'
           /\ row.decision = Decision(row.subject)'
  BY <1>2, <1>4, <1>5 DEF DecisionInv, DecisionRow
<1> QED BY <1>2, <1>3, <1>4, <1>7, <1>8, <1>9, <1>10 DEF DecisionInv

LEMMA DecisionTransition ==
  ASSUME TypeInv, DecisionInv, NEW t \in Transitions, TransitionStep(t)
  PROVE  DecisionInv'
<1>1. source' = source
  BY DEF TransitionStep, Begin, Select, Refuse, Update, AppendTransition
<1>2. \A q \in Verifies :
         /\ Results(q)' = Results(q) /\ Decision(q)' = Decision(q) /\ RowOf(q)' = RowOf(q)
         /\ Settled(q)' = Settled(q)
  BY <1>1, SameResults DEF Settled
<1>3. PICK s : stage' = [stage EXCEPT ![t] = s]
  BY DEF TransitionStep, Begin, Select, Refuse, Update, AppendTransition, To, Ends
<1>4. \A q \in Verifies : stage'[q] = stage[q]
  BY <1>3, Disjoint DEF TypeInv, TypeOK
<1>5. log \subseteq log' /\ log' \cap DecisionRow = log \cap DecisionRow
  <2>1. CASE AppendTransition(t)
    <3>1. ChangeOf(t) \in Change
      BY <2>1, TargetType DEF AppendTransition, ChangeOf, Change, TypeInv, AskingInv
    <3> QED BY <2>1, <3>1, RowKinds DEF AppendTransition
  <2>2. CASE ~AppendTransition(t)
    BY <2>2 DEF TransitionStep, Begin, Select, Refuse, Update
  <2> QED BY <2>1, <2>2
<1>6. \A q \in Verifies : truth'[q] # "none" <=> truth[q] # "none"
  <2>1. CASE Update(t)
    <3>1. Target(t) \in TruthStates /\ Subject(t) \in Verifies /\ truth[Subject(t)] \in TruthStates
      BY <2>1, TargetType DEF Update
    <3> QED BY <2>1, <3>1 DEF Update, TypeInv, TypeOK, TruthStates
  <2>2. CASE ~Update(t)
    BY <2>2 DEF TransitionStep, Begin, Select, Refuse, AppendTransition
  <2> QED BY <2>1, <2>2
<1> QED BY <1>1, <1>2, <1>4, <1>5, <1>6 DEF DecisionInv, DecisionRow

LEMMA DecisionStep == TypeInv /\ DecisionInv /\ [Next]_vars => DecisionInv'
<1> SUFFICES ASSUME TypeInv, DecisionInv, [Next]_vars PROVE DecisionInv'
  OBVIOUS
<1>1. CASE \E r \in Verifies : VerifyStep(r)
  <2>1. \A q \in Verifies : RowOf(q) \in log => source'[q] = source[q]
    BY DecidedIsStable
  <2>2. \A row \in log \cap DecisionRow : source'[row.subject] = source[row.subject]
    BY DecidedIsStable DEF DecisionRow
  <2> QED BY <1>1, <2>1, <2>2, DecisionVerify
<1>2. CASE \E r \in Verifies, p \in Providers : AnswerStep(r, p)
  BY <1>2, DecisionAnswer
<1>3. CASE \E t \in Transitions : TransitionStep(t)
  BY <1>3, DecisionTransition
<1>4. CASE Tick \/ UNCHANGED vars
  <2>1. /\ stage' = stage /\ source' = source /\ truth' = truth /\ log' = log
    BY <1>4 DEF Tick, vars
  <2>2. \A q \in Verifies :
           /\ Results(q)' = Results(q) /\ Decision(q)' = Decision(q) /\ RowOf(q)' = RowOf(q)
           /\ Settled(q)' = Settled(q)
    BY <2>1, SameResults DEF Settled
  <2> QED BY <2>1, <2>2 DEF DecisionInv, DecisionRow
<1> QED BY <1>1, <1>2, <1>3, <1>4 DEF Next, VerifyStep, AnswerStep, TransitionStep

LEMMA DecisionInitially == Init => DecisionInv
BY Disjoint DEF Init, DecisionInv

LEMMA DecisionAlways == Spec => [](TypeInv /\ DecisionInv)
BY TypeInitially, TypeStep, DecisionInitially, DecisionStep, PTL DEF Spec

\* No verification and no answer without its row in the log, whichever
\* statement raises.
THEOREM VerificationNoLogNoGo == Spec => []NoLogNoGo
<1>1. TypeInv /\ DecisionInv => NoLogNoGo
  BY DEF DecisionInv, NoLogNoGo, RowOf
<1> QED BY <1>1, DecisionAlways, PTL

\* A PASS has three passed checks behind it, a HOLD no missing or blocking one
\* and a verification no missing one, whatever the breakers do.
THEOREM VerificationFailClosed == Spec => []FailClosed
<1>1. TypeInv /\ DecisionInv => FailClosed
  <2> SUFFICES ASSUME TypeInv, DecisionInv PROVE FailClosed
    OBVIOUS
  <2>1. ASSUME NEW row \in log \cap DecisionRow
        PROVE  /\ row.decision = "PASS" => Results(row.subject) = {"PASS"}
               /\ row.decision = "HOLD" => Results(row.subject) \subseteq {"PASS", "HOLD"}
    <3>1. row.subject \in Verifies
      BY DEF DecisionRow
    <3>2. \A p \in Providers : source[row.subject][p] \in {"PASS", "HOLD", "BLOCK", "MISSING"}
      BY <3>1 DEF DecisionInv, Settled, TypeInv, TypeOK, Decisions
    <3>3. row.decision = Decision(row.subject)
      BY DEF DecisionInv
    <3>4. Results(row.subject) \subseteq {"PASS", "HOLD", "BLOCK", "MISSING"}
      BY <3>2 DEF Results
    <3>5. Results(row.subject) # {}
      BY VerificationAssumption DEF Results
    <3>6. /\ row.decision \in {"PASS", "HOLD"} =>
                {"MISSING", "BLOCK"} \cap Results(row.subject) = {}
          /\ row.decision = "PASS" => "HOLD" \notin Results(row.subject)
      BY <3>3 DEF Decision
    <3> QED BY <3>4, <3>5, <3>6
  <2> QED BY <2>1 DEF FailClosed, DecisionInv
<1> QED BY <1>1, DecisionAlways, PTL

-----------------------------------------------------------------------------
(* Truth states.                                                           *)

LockInv ==
    \A t \in Transitions :
        stage[t] = "update" =>
            /\ holder[Subject(t)] = t
            /\ truth[Subject(t)] = from[t]
            /\ MayTransition(from[t], t)

LEMMA LockStep == TypeInv /\ DecisionInv /\ LockInv /\ [Next]_vars => LockInv'
<1> SUFFICES ASSUME TypeInv, DecisionInv, LockInv, [Next]_vars,
                    NEW t \in Transitions, stage'[t] = "update"
             PROVE  /\ holder'[Subject(t)'] = t
                    /\ truth'[Subject(t)'] = from'[t]
                    /\ MayTransition(from[t], t)'
  BY DEF LockInv
<1> DEFINE Kept == /\ asked'[t] = asked[t] /\ from'[t] = from[t]
                   /\ stage[t] = "update"
                   /\ holder'[Subject(t)] = holder[Subject(t)]
                   /\ truth'[Subject(t)] = truth[Subject(t)]
<1>1. Kept => /\ holder'[Subject(t)'] = t
              /\ truth'[Subject(t)'] = from'[t]
              /\ MayTransition(from[t], t)'
  BY DEF LockInv, Subject, Target, MayTransition
<1>2. CASE \E r \in Verifies : VerifyStep(r)
  <2>1. PICK r \in Verifies : VerifyStep(r)
    BY <1>2
  <2>2. stage'[t] = stage[t] /\ asked' = asked /\ from' = from /\ holder' = holder
    BY <2>1, Disjoint DEF VerifyStep, Ask, AppendDecision, Create, To, TypeInv, TypeOK
  <2>3. truth[Subject(t)] \in TruthStates /\ Subject(t) \in Verifies
    BY <2>2, TargetType
  <2>4. truth'[Subject(t)] = truth[Subject(t)]
    <3>1. CASE Create(r)
      <4>1. truth[r] = "none"
        BY <3>1 DEF Create, DecisionInv
      <4> QED BY <2>3, <3>1, <4>1 DEF Create, TypeInv, TypeOK, TruthStates
    <3> QED BY <2>1, <3>1 DEF VerifyStep, Ask, AppendDecision
  <2> QED BY <1>1, <2>2, <2>4
<1>3. CASE \E r \in Verifies, p \in Providers : AnswerStep(r, p)
  <2>1. PICK r \in Verifies, p \in Providers : AnswerStep(r, p)
    BY <1>3
  <2>2. stage'[t] = stage[t] /\ asked' = asked /\ from' = from /\ holder' = holder /\ truth' = truth
    BY <2>1, Disjoint DEF AnswerStep, Answers, Puzzles, Fails, To, TypeInv, TypeOK
  <2> QED BY <1>1, <2>2
<1>4. CASE \E u \in Transitions : TransitionStep(u)
  <2>1. PICK u \in Transitions : TransitionStep(u)
    BY <1>4
  <2>2. CASE u = t
    <3>1. Select(t)
      BY <2>1, <2>2, Disjoint DEF TransitionStep, Begin, Refuse, Update, AppendTransition, Ends,
                                 To, TypeInv, TypeOK
    <3>2. asked' = asked /\ from'[t] = truth[Subject(t)] /\ truth' = truth
      BY <3>1 DEF Select, TypeInv, TypeOK
    <3>3. Subject(t) \in Verifies
      BY <3>1, TargetType DEF Select
    <3>4. holder'[Subject(t)] = t
      BY <3>1, <3>3 DEF Select, TypeInv, TypeOK
    <3>5. Subject(t)' = Subject(t) /\ Target(t)' = Target(t)
      BY <3>2 DEF Subject, Target
    <3>6. MayTransition(from[t], t)'
      BY <3>1, <3>2, <3>5 DEF Select, MayTransition
    <3> QED BY <3>2, <3>4, <3>5, <3>6
  <2>3. CASE u # t
    <3>1. stage'[t] = stage[t] /\ asked'[t] = asked[t] /\ from'[t] = from[t]
      BY <2>1, <2>3, Disjoint DEF TransitionStep, Begin, Select, Refuse, Update, AppendTransition,
                                 Ends, To, TypeInv, TypeOK
    <3>2. holder[Subject(t)] = t /\ Subject(t) \in Verifies
      BY <3>1, TargetType DEF LockInv
    <3>3. CASE Select(u)
      <4>1. Subject(u) # Subject(t)
        BY <3>2, <3>3, VerificationAssumption DEF Select
      <4> QED BY <1>1, <3>1, <3>3, <4>1 DEF Select, TypeInv, TypeOK
    <3>4. CASE Update(u)
      <4>1. Subject(u) # Subject(t)
        BY <2>3, <3>2, <3>4 DEF Update, LockInv
      <4> QED BY <1>1, <3>1, <3>2, <3>4, <4>1 DEF Update, TypeInv, TypeOK
    <3>5. CASE Begin(u) \/ Refuse(u) \/ AppendTransition(u)
      BY <1>1, <3>1, <3>5 DEF Begin, Refuse, AppendTransition
    <3> QED BY <2>1, <3>3, <3>4, <3>5 DEF TransitionStep
  <2> QED BY <2>2, <2>3
<1>5. CASE Tick \/ UNCHANGED vars
  BY <1>1, <1>5 DEF Tick, vars
<1> QED BY <1>2, <1>3, <1>4, <1>5 DEF Next, VerifyStep, AnswerStep, TransitionStep

LEMMA LockAlways == Spec => [](TypeInv /\ DecisionInv /\ LockInv)
<1>1. Init => LockInv
  BY Disjoint DEF Init, LockInv
<1> QED BY <1>1, DecisionAlways, LockStep, PTL DEF Spec

\* What a step may do to truth.
LEMMA TruthStep ==
  ASSUME TypeInv, DecisionInv, LockInv, [Next]_vars, NEW r \in Verifies, truth'[r] # truth[r]
  PROVE  \/ truth[r] = "none"
         \/ truth'[r] \in Allowed[truth[r]]
<1>1. CASE \E q \in Verifies : VerifyStep(q)
  BY <1>1 DEF VerifyStep, Ask, AppendDecision, Create, TypeInv, TypeOK, DecisionInv
<1>2. CASE \E q \in Verifies, p \in Providers : AnswerStep(q, p)
  BY <1>2 DEF AnswerStep, Answers, Puzzles, Fails
<1>3. CASE \E t \in Transitions : TransitionStep(t)
  <2>1. PICK t \in Transitions : Update(t)
    BY <1>3 DEF TransitionStep, Begin, Select, Refuse, AppendTransition
  <2>2. r = Subject(t) /\ truth'[r] = Target(t)
    BY <2>1 DEF Update, TypeInv, TypeOK
  <2> QED BY <2>1, <2>2 DEF Update, LockInv, MayTransition
<1>4. CASE Tick \/ UNCHANGED vars
  BY <1>4 DEF Tick, vars
<1> QED BY <1>1, <1>2, <1>3, <1>4 DEF Next, VerifyStep, AnswerStep, TransitionStep

\* Truth states change along the allowed transitions only, however requests
\* overlap.
THEOREM VerificationTransitions == Spec => TransitionsAreAllowed
<1>1. TypeInv /\ DecisionInv /\ LockInv /\ [Next]_vars =>
        [\A r \in Verifies :
          truth[r] \notin {"none", truth'[r]} => truth'[r] \in Allowed[truth[r]]]_vars
  BY TruthStep
<1> QED BY <1>1, LockAlways, PTL DEF Spec, TransitionsAreAllowed

-----------------------------------------------------------------------------
(* Audit rows of transitions.                                              *)

ToldIn(change, r) == \E k \in DOMAIN path[r] : path[r][k] = change

\* The changes of r lead from what it was created as to what it is.
IsChain(r) ==
    \A k \in DOMAIN path[r] :
        /\ path[r][k].from = IF k = 1 THEN TruthOf(Decision(r)) ELSE path[r][k - 1].to
        /\ k = Len(path[r]) => truth[r] = path[r][k].to

ChainInv ==
    /\ \A row \in log \cap Change : ToldIn(row, row.subject)
    /\ \A t \in Transitions : stage[t] = "audit" => ToldIn(ChangeOf(t), Subject(t))
    /\ \A r \in Verifies :
          /\ truth[r] = "none" => path[r] = <<>>
          /\ truth[r] # "none" /\ path[r] = <<>> => truth[r] = TruthOf(Decision(r))
          /\ IsChain(r)

\* An update that is committed, whether or not its request gets to know.
Commits(t) ==
    /\ Update(t)
    /\ truth' = [truth EXCEPT ![Subject(t)] = Target(t)]
    /\ path' = [path EXCEPT ![Subject(t)] = Append(@, ChangeOf(t))]

\* Appending the change of a transition that holds the lock keeps the chain.
LEMMA ChainGrows ==
  ASSUME TypeInv, DecisionInv, LockInv, ChainInv, NEW t \in Transitions, NEW r \in Verifies,
         stage[t] = "update", r = Subject(t),
         truth'[r] = Target(t), path'[r] = Append(path[r], ChangeOf(t)),
         source'[r] = source[r]
  PROVE  /\ IsChain(r)'
         /\ path'[r] # <<>>
         /\ \E k \in DOMAIN path'[r] : path'[r][k] = ChangeOf(t)
         /\ \A change : ToldIn(change, r) => \E k \in DOMAIN path'[r] : path'[r][k] = change
<1>1. ChangeOf(t) \in Change /\ ChangeOf(t).from = from[t] /\ ChangeOf(t).to = Target(t)
  BY TargetType DEF ChangeOf, Change, TypeInv, AskingInv
<1>2. from[t] = truth[r] /\ truth[r] # "none"
  BY TargetType DEF LockInv, TruthStates
<1>3. path[r] \in Seq(Change)
  BY DEF TypeInv, TypeOK
<1> DEFINE n == Len(path[r])
<1>4. /\ n \in Nat /\ Len(path'[r]) = n + 1
      /\ DOMAIN path[r] = 1 .. n /\ DOMAIN path'[r] = 1 .. n + 1
      /\ path'[r][n + 1] = ChangeOf(t)
      /\ \A k \in 1 .. n : path'[r][k] = path[r][k]
  BY <1>1, <1>3
<1>5. Decision(r)' = Decision(r)
  BY SameResults
<1>6. path'[r][n + 1].from = IF n + 1 = 1 THEN TruthOf(Decision(r)) ELSE path'[r][n].to
  <2>1. CASE n = 0
    <3>1. path[r] = <<>>
      BY <1>3, <2>1
    <3> QED BY <1>1, <1>2, <1>4, <2>1, <3>1 DEF ChainInv
  <2>2. CASE n # 0
    <3>1. n \in DOMAIN path[r] /\ path'[r][n] = path[r][n]
      BY <1>4, <2>2
    <3>2. truth[r] = path[r][n].to
      BY <3>1 DEF ChainInv, IsChain
    <3> QED BY <1>1, <1>2, <1>4, <2>2, <3>1, <3>2
  <2> QED BY <2>1, <2>2
<1>7. ASSUME NEW k \in 1 .. n
      PROVE  path'[r][k].from = IF k = 1 THEN TruthOf(Decision(r)) ELSE path'[r][k - 1].to
  <2>1. path[r][k].from = IF k = 1 THEN TruthOf(Decision(r)) ELSE path[r][k - 1].to
    BY <1>4 DEF ChainInv, IsChain
  <2>2. k = 1 \/ k - 1 \in 1 .. n
    BY <1>4
  <2> QED BY <1>4, <2>1, <2>2
<1>8. truth'[r] = path'[r][n + 1].to
  BY <1>1, <1>4
<1>9. IsChain(r)'
  <2> SUFFICES ASSUME NEW k \in DOMAIN path'[r]
               PROVE  /\ path'[r][k].from = IF k = 1 THEN TruthOf(Decision(r)') ELSE path'[r][k - 1].to
                      /\ k = Len(path'[r]) => truth'[r] = path'[r][k].to
    BY DEF IsChain, TruthOf
  <2>1. CASE k \in 1 .. n
    BY <1>4, <1>5, <1>7, <2>1
  <2>2. CASE k = n + 1
    BY <1>4, <1>5, <1>6, <1>8, <2>2
  <2> QED BY <1>4, <2>1, <2>2
<1>10. \A change : ToldIn(change, r) => \E k \in DOMAIN path'[r] : path'[r][k] = change
  BY <1>4 DEF ToldIn
<1> QED BY <1>4, <1>9, <1>10

\* The chain of a verification that nothing happens to.
LEMMA ChainStays ==
  ASSUME ChainInv, NEW r \in Verifies,
         source'[r] = source[r] \/ truth[r] = "none",
         truth'[r] = truth[r], path'[r] = path[r]
  PROVE  /\ truth'[r] = "none" => path'[r] = <<>>
         /\ truth'[r] # "none" /\ path'[r] = <<>> => truth'[r] = TruthOf(Decision(r)')
         /\ IsChain(r)'
<1>1. CASE source'[r] = source[r]
  <2>1. Decision(r)' = Decision(r)
    BY <1>1, SameResults
  <2> QED BY <2>1 DEF ChainInv, IsChain, TruthOf
<1>2. CASE truth[r] = "none"
  BY <1>2 DEF ChainInv, IsChain
<1> QED BY <1>1, <1>2

LEMMA ChainStep == TypeInv /\ DecisionInv /\ LockInv /\ ChainInv /\ [Next]_vars => ChainInv'
<1> SUFFICES ASSUME TypeInv, DecisionInv, LockInv, ChainInv, [Next]_vars PROVE ChainInv'
  OBVIOUS
<1> DEFINE Good(r) == /\ truth'[r] = "none" => path'[r] = <<>>
                      /\ truth'[r] # "none" /\ path'[r] = <<>> => truth'[r] = TruthOf(Decision(r)')
                      /\ IsChain(r)'
<1>0. \A r \in Verifies : source'[r] = source[r] \/ truth[r] = "none"
  BY DecidedIsStable DEF DecisionInv
<1>1. ASSUME \A r \in Verifies : Good(r),
             \A row \in log' \cap Change : ToldIn(row, row.subject)',
             \A t \in Transitions : stage'[t] = "audit" => ToldIn(ChangeOf(t), Subject(t))'
      PROVE  ChainInv'
  BY <1>1 DEF ChainInv, TruthOf
<1>2. CASE \E r \in Verifies : VerifyStep(r)
  <2>1. PICK r \in Verifies : VerifyStep(r)
    BY <1>2
  <2>2. /\ path' = path /\ asked' = asked /\ from' = from
        /\ \A t \in Transitions : stage'[t] = stage[t]
        /\ \A q \in Verifies \ {r} : truth'[q] = truth[q]
    BY <2>1, Disjoint DEF VerifyStep, Ask, AppendDecision, Create, To, TypeInv, TypeOK
  <2>3. log' \cap Change = log \cap Change
    BY <2>1, RowType, RowKinds DEF VerifyStep, Ask, AppendDecision, LogDecision, RowOf, Create
  <2>4. \A q \in Verifies \ {r} : Good(q)
    BY <1>0, <2>2, ChainStays
  <2>5. Good(r)
    <3>1. CASE truth'[r] = truth[r]
      BY <1>0, <2>2, <3>1, ChainStays
    <3>2. CASE truth'[r] # truth[r]
      <4>1. Create(r)
        BY <2>1, <3>2 DEF VerifyStep, Ask, AppendDecision
      <4>2. /\ truth[r] = "none" /\ source' = source
            /\ truth'[r] = TruthOf(Decision(r))
        BY <3>2, <4>1 DEF Create, DecisionInv, TypeInv, TypeOK
      <4>3. path[r] = <<>> /\ path'[r] = <<>>
        BY <2>2, <4>2 DEF ChainInv
      <4>4. Decision(r)' = Decision(r)
        BY <4>2, SameResults
      <4> QED BY <3>2, <4>2, <4>3, <4>4 DEF IsChain
    <3> QED BY <3>1, <3>2
  <2>6. \A row \in log' \cap Change : ToldIn(row, row.subject)'
    BY <2>2, <2>3 DEF ChainInv, ToldIn
  <2>7. \A t \in Transitions : stage'[t] = "audit" => ToldIn(ChangeOf(t), Subject(t))'
    BY <2>2 DEF ChainInv, ToldIn, ChangeOf, Subject, Target
  <2> QED BY <1>1, <2>4, <2>5, <2>6, <2>7
<1>3. CASE \/ \E r \in Verifies, p \in Providers : AnswerStep(r, p)
           \/ Tick
           \/ UNCHANGED vars
  <2>1. /\ path' = path /\ asked' = asked /\ from' = from /\ truth' = truth /\ log' = log
        /\ \A t \in Transitions : stage'[t] = stage[t]
    BY <1>3, Disjoint DEF AnswerStep, Answers, Puzzles, Fails, To, TypeInv, TypeOK, Tick, vars
  <2>2. \A q \in Verifies : Good(q)
    BY <1>0, <2>1, ChainStays
  <2>3. \A row \in log' \cap Change : ToldIn(row, row.subject)'
    BY <2>1 DEF ChainInv, ToldIn
  <2>4. \A t \in Transitions : stage'[t] = "audit" => ToldIn(ChangeOf(t), Subject(t))'
    BY <2>1 DEF ChainInv, ToldIn, ChangeOf, Subject, Target
  <2> QED BY <1>1, <2>2, <2>3, <2>4
<1>4. CASE \E t \in Transitions : TransitionStep(t)
  <2>1. PICK t \in Transitions : TransitionStep(t)
    BY <1>4
  <2>2. \A u \in Transitions \ {t} :
           stage'[u] = stage[u] /\ asked'[u] = asked[u] /\ from'[u] = from[u]
    BY <2>1, Disjoint DEF TransitionStep, Begin, Select, Refuse, Update, AppendTransition,
                          Ends, To, TypeInv, TypeOK
  <2>3. \A u \in Transitions \ {t} : ChangeOf(u)' = ChangeOf(u) /\ Subject(u)' = Subject(u)
    BY <2>2 DEF ChangeOf, Subject, Target
  <2>4. source' = source
    BY <2>1 DEF TransitionStep, Begin, Select, Refuse, Update, AppendTransition
  <2>5. CASE Commits(t)
    <3>1. /\ truth' = [truth EXCEPT ![Subject(t)] = Target(t)]
          /\ path' = [path EXCEPT ![Subject(t)] = Append(@, ChangeOf(t))]
          /\ stage[t] = "update" /\ log' = log
      BY <2>5 DEF Commits, Update
    <3>2. Subject(t) \in Verifies
      BY <3>1, TargetType
    <3>3. PICK r \in Verifies : r = Subject(t)
      BY <3>2
    <3>4. /\ truth'[r] = Target(t) /\ path'[r] = Append(path[r], ChangeOf(t))
          /\ \A q \in Verifies \ {r} : truth'[q] = truth[q] /\ path'[q] = path[q]
      BY <3>1, <3>3 DEF TypeInv, TypeOK
    <3>5. Target(t) # "none"
      BY <3>1, TargetType DEF TruthStates
    <3>6. /\ IsChain(r)'
          /\ path'[r] # <<>>
          /\ \E k \in DOMAIN path'[r] : path'[r][k] = ChangeOf(t)
          /\ \A change : ToldIn(change, r) => \E k \in DOMAIN path'[r] : path'[r][k] = change
      BY <2>4, <3>1, <3>3, <3>4, ChainGrows
    <3>7. \A q \in Verifies : Good(q)
      BY <1>0, <3>4, <3>5, <3>6, ChainStays
    <3>8. \A q \in Verifies : \A change : ToldIn(change, q) => ToldIn(change, q)'
      BY <3>4, <3>6 DEF ToldIn
    <3>9. \A row \in log' \cap Change : ToldIn(row, row.subject)'
      BY <3>1, <3>8 DEF ChainInv, Change
    <3>10. ASSUME NEW u \in Transitions, stage'[u] = "audit"
           PROVE  ToldIn(ChangeOf(u), Subject(u))'
      <4>1. CASE u = t
        <5>1. asked' = asked /\ from' = from
          <6>1. ~Ends(t, "failed")
            BY <3>10, <4>1, Disjoint DEF Ends, To, TypeInv, TypeOK
          <6> QED BY <2>5, <6>1 DEF Commits, Update
        <5>2. ChangeOf(t)' = ChangeOf(t) /\ Subject(t)' = r
          BY <3>3, <5>1 DEF ChangeOf, Subject, Target
        <5> QED BY <3>6, <4>1, <5>2 DEF ToldIn
      <4>2. CASE u # t
        <5>1. stage[u] = "audit"
          BY <2>2, <3>10, <4>2
        <5>2. ToldIn(ChangeOf(u), Subject(u)) /\ Subject(u) \in Verifies
          BY <5>1, TargetType DEF ChainInv
        <5>3. \E k \in DOMAIN path'[Subject(u)] : path'[Subject(u)][k] = ChangeOf(u)
          BY <3>8, <5>2 DEF ToldIn
        <5> QED BY <2>3, <4>2, <5>3 DEF ToldIn
      <4> QED BY <4>1, <4>2
    <3> QED BY <1>1, <3>7, <3>9, <3>10
  <2>6. CASE ~Commits(t)
    <3>0. Update(t) => UNCHANGED <<truth, path>> /\ Ends(t, "failed")
      BY <2>6 DEF Commits, Update
    <3>1. path' = path
      BY <2>1, <3>0 DEF TransitionStep, Begin, Select, Refuse, AppendTransition
    <3>2. \A q \in Verifies : truth'[q] = truth[q]
      BY <2>1, <3>0 DEF TransitionStep, Begin, Select, Refuse, AppendTransition
    <3>3. \A q \in Verifies : Good(q)
      BY <1>0, <3>1, <3>2, ChainStays
    <3>4. \A row \in log' \cap Change : ToldIn(row, row.subject)
      <4>1. CASE AppendTransition(t)
        <5>1. ToldIn(ChangeOf(t), Subject(t)) /\ ChangeOf(t).subject = Subject(t)
          BY <4>1 DEF AppendTransition, ChainInv, ChangeOf
        <5> QED BY <4>1, <5>1 DEF AppendTransition, ChainInv
      <4>2. CASE ~AppendTransition(t)
        <5>1. log' = log
          BY <2>1, <4>2 DEF TransitionStep, Begin, Select, Refuse, Update
        <5> QED BY <5>1 DEF ChainInv
      <4> QED BY <4>1, <4>2
    <3>5. \A row \in log' \cap Change : ToldIn(row, row.subject)'
      BY <3>1, <3>4 DEF ToldIn
    <3>6. ASSUME NEW u \in Transitions, stage'[u] = "audit"
          PROVE  ToldIn(ChangeOf(u), Subject(u))'
      <4>1. u # t
        <5> SUFFICES ASSUME stage'[t] = "audit" PROVE FALSE
          BY <3>6
        <5>1. Update(t)
          BY <2>1, Disjoint DEF TransitionStep, Begin, Select, Refuse, AppendTransition, Ends, To,
                                TypeInv, TypeOK
        <5> QED BY <3>0, <5>1, Disjoint DEF Ends, To, TypeInv, TypeOK
      <4>2. ToldIn(ChangeOf(u), Subject(u))
        BY <2>2, <3>6, <4>1 DEF ChainInv
      <4> QED BY <2>3, <3>1, <4>1, <4>2 DEF ToldIn
    <3> QED BY <1>1, <3>3, <3>5, <3>6
  <2> QED BY <2>5, <2>6
<1> QED BY <1>2, <1>3, <1>4 DEF Next, VerifyStep, AnswerStep, TransitionStep

\* The audit rows of transitions tell of changes that were made, and these
\* form a chain.
THEOREM VerificationLog == Spec => []LogTellsChanges
<1>1. Init => ChainInv
  BY Disjoint DEF Init, ChainInv, IsChain
<1>2. TypeInv /\ ChainInv => LogTellsChanges
  BY DEF ChainInv, IsChain, ToldIn, LogTellsChanges
<1> QED BY <1>1, <1>2, LockAlways, ChainStep, PTL DEF Spec
=============================================================================
