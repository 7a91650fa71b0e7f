---------------------------- MODULE Verification ----------------------------
(***************************************************************************)
(* The verification service (noble-port-verification/app): POST /verify    *)
(* (main.py) with its providers and their breakers (services,              *)
(* security/breaker.py), the truth state of what it created                *)
(* (db/verifications.py, routers/admin.py) and its audit rows              *)
(* (db/audit.py).                                                          *)
(*                                                                         *)
(* One action per awaited operation.  A statement of Postgres may raise    *)
(* with its effect done or not; a request that is cut off by a crash       *)
(* leaves the same state behind.  The row a request creates is named after *)
(* it; a request that is refused before its first effect (rate limit,      *)
(* address, key, target, unknown id) is no step.  How audit rows are       *)
(* chained is the subject of AuditLog: here the log is the set of its      *)
(* rows.  Evidence uploads touch neither decisions nor truth states and    *)
(* are left out.                                                           *)
(***************************************************************************)
EXTENDS Naturals, Sequences

CONSTANTS
    Providers,    \* helius, birdeye, solscan
    Verifies,     \* requests to POST /verify
    Transitions,  \* requests to POST /admin/verifications/{vid}/transition
    Roles,        \* users.role
    Configured,   \* providers whose API key is set
    Nobody,
    FailThreshold, ResetAfter,
    MaxTime       \* bound on the clock

ASSUME VerificationAssumption ==
    /\ Verifies \cap Transitions = {}
    /\ Nobody \notin Transitions \union Verifies
    /\ Providers # {}
    /\ Configured \subseteq Providers
    /\ FailThreshold \in Nat \ {0}
    /\ ResetAfter \in Nat \ {0}
    /\ MaxTime \in Nat \ {0}

VARIABLES
    breaker,  \* provider -> its CircuitBreaker
    now,      \* time.monotonic()
    stage,    \* request -> what it awaits, or how it ended
    source,   \* verify, provider -> the check's result, "asked" or "idle"
    truth,    \* verify -> the state of the row it created, or "none"
    holder,   \* verify -> the transition that holds the lock of its row
    asked,    \* transition -> its verification, target and role, while it runs
    from,     \* transition -> row["state"], while it runs
    log,      \* the rows of audit_log
    path      \* history: verify -> the committed changes of its truth, oldest first

vars == <<breaker, now, stage, source, truth, holder, asked, from, log, path>>

TruthStates == {"VERIFIED", "DISPUTED", "LEGAL_HOLD", "REMOVED"}
Decisions == {"PASS", "HOLD", "BLOCK"}

Allowed ==
    [VERIFIED |-> {"DISPUTED", "LEGAL_HOLD", "REMOVED"},
     DISPUTED |-> {"VERIFIED", "LEGAL_HOLD", "REMOVED"},
     LEGAL_HOLD |-> {"DISPUTED", "REMOVED"},
     REMOVED |-> {}]

RolesFor ==
    [VERIFIED |-> {"admin", "moderator"},
     DISPUTED |-> {"admin", "moderator", "contractor"},
     LEGAL_HOLD |-> {"admin"},
     REMOVED |-> {"admin"}]

Requests == Verifies \union Transitions

\* Answered, or ended by an error.
Ended == {"answered", "failed"}
Request == [subject: Verifies, target: TruthStates, role: Roles]
NoRequest == [subject |-> Nobody, target |-> "none", role |-> "none"]
Change == [by: Transitions, subject: Verifies, from: TruthStates, to: TruthStates]
DecisionRow == [subject: Verifies, decision: Decisions]

TypeOK ==
    /\ breaker \in [Providers -> [fails: Nat, openedAt: 0 .. MaxTime]]
    /\ now \in 1 .. MaxTime
    /\ stage \in [Requests -> {"idle", "gather", "create", "select", "update", "audit"}
                                 \union Ended]
    /\ source \in [Verifies -> [Providers -> Decisions \union {"idle", "asked", "MISSING"}]]
    /\ truth \in [Verifies -> TruthStates \union {"none"}]
    /\ holder \in [Verifies -> Transitions \union {Nobody}]
    /\ asked \in [Transitions -> Request \union {NoRequest}]
    /\ from \in [Transitions -> TruthStates \union {"none"}]
    /\ log \subseteq Change \union DecisionRow
    /\ path \in [Verifies -> Seq(Change)]

Init ==
    /\ breaker = [p \in Providers |-> [fails |-> 0, openedAt |-> 0]]
    /\ now = 1
    /\ stage = [q \in Requests |-> "idle"]
    /\ source = [r \in Verifies |-> [p \in Providers |-> "idle"]]
    /\ truth = [r \in Verifies |-> "none"]
    /\ holder = [r \in Verifies |-> Nobody]
    /\ asked = [t \in Transitions |-> NoRequest]
    /\ from = [t \in Transitions |-> "none"]
    /\ log = {}
    /\ path = [r \in Verifies |-> <<>>]

To(q, s) == stage' = [stage EXCEPT ![q] = s]

-----------------------------------------------------------------------------
(* CircuitBreaker.                                                         *)

\* What allow() makes of a breaker: its time is up, or it is left alone.
Reset(b) ==
    IF b.openedAt > 0 /\ now >= b.openedAt + ResetAfter
    THEN [fails |-> 0, openedAt |-> 0]
    ELSE b

RecordSuccess(b) == [fails |-> 0, openedAt |-> 0]

RecordFailure(b) ==
    [fails |-> b.fails + 1,
     openedAt |-> IF b.fails + 1 >= FailThreshold /\ b.openedAt = 0 THEN now ELSE b.openedAt]

-----------------------------------------------------------------------------
(* POST /verify.                                                           *)

\* The three providers are asked at once: those whose breaker does not allow
\* it, or that have no key, count as missing.
Ask(r) ==
    /\ stage[r] = "idle"
    /\ To(r, "gather")
    /\ breaker' = [p \in Providers |-> Reset(breaker[p])]
    /\ source' = [source EXCEPT ![r] =
          [p \in Providers |-> IF breaker'[p].openedAt = 0 /\ p \in Configured
                               THEN "asked" ELSE "MISSING"]]
    /\ UNCHANGED <<now, truth, holder, asked, from, log, path>>

\* An answer that holds nothing is a success of the provider and missing data.
Answers(r, p) ==
    /\ source[r][p] = "asked"
    /\ \E result \in Decisions \union {"MISSING"} :
          source' = [source EXCEPT ![r][p] = result]
    /\ breaker' = [breaker EXCEPT ![p] = RecordSuccess(@)]
    /\ UNCHANGED <<now, stage, truth, holder, asked, from, log, path>>

\* An answer of another shape is a success of the provider too; reading it
\* raises and ends the request.  The other providers' answers still come.
Puzzles(r, p) ==
    /\ source[r][p] = "asked"
    /\ source' = [source EXCEPT ![r][p] = "MISSING"]
    /\ breaker' = [breaker EXCEPT ![p] = RecordSuccess(@)]
    /\ To(r, "failed")
    /\ UNCHANGED <<now, truth, holder, asked, from, log, path>>

\* An error of HTTP, or a timeout.
Fails(r, p) ==
    /\ source[r][p] = "asked"
    /\ source' = [source EXCEPT ![r][p] = "MISSING"]
    /\ breaker' = [breaker EXCEPT ![p] = RecordFailure(@)]
    /\ UNCHANGED <<now, stage, truth, holder, asked, from, log, path>>

Gathered(r) == stage[r] = "gather" /\ \A p \in Providers : source[r][p] # "asked"

Results(r) == {source[r][p] : p \in Providers}

\* As if missing data were a result that does not block.
MutDecision(r) ==
    IF "BLOCK" \in Results(r) THEN "BLOCK"
    ELSE IF "HOLD" \in Results(r) THEN "HOLD" ELSE "PASS"

\* combine, after the test for missing sources.
Decision(r) ==
    IF {"MISSING", "BLOCK"} \cap Results(r) # {} THEN "BLOCK"
    ELSE IF "HOLD" \in Results(r) THEN "HOLD" ELSE "PASS"

LogDecision(r) == log' = log \union {[subject |-> r, decision |-> Decision(r)]}

\* As if an append that raised did not end the request.
MutAppendDecision(r) ==
    /\ Gathered(r)
    /\ LogDecision(r) \/ UNCHANGED log
    /\ To(r, IF "MISSING" \in Results(r) THEN "answered" ELSE "create")
    /\ UNCHANGED <<breaker, now, source, truth, holder, asked, from, path>>

\* The append of a decision: it is committed and the request goes on, with
\* missing data to its end; or it raises, committed or not.
AppendDecision(r) ==
    /\ Gathered(r)
    /\ \/ LogDecision(r) /\ To(r, IF "MISSING" \in Results(r) THEN "answered" ELSE "create")
       \/ LogDecision(r) /\ To(r, "failed")
       \/ UNCHANGED log /\ To(r, "failed")
    /\ UNCHANGED <<breaker, now, source, truth, holder, asked, from, path>>

TruthOf(decision) == IF decision = "PASS" THEN "VERIFIED" ELSE "DISPUTED"

\* As if the decision were stored for the state.
MutCreate(r) ==
    /\ stage[r] = "create"
    /\ truth' = [truth EXCEPT ![r] = Decision(r)]
    /\ To(r, "answered")
    /\ UNCHANGED <<breaker, now, source, holder, asked, from, log, path>>

\* verifications.create.
Create(r) ==
    /\ stage[r] = "create"
    /\ LET row == [truth EXCEPT ![r] = TruthOf(Decision(r))]
       IN  \/ truth' = row /\ To(r, "answered")
           \/ truth' \in {row, truth} /\ To(r, "failed")
    /\ UNCHANGED <<breaker, now, source, holder, asked, from, log, path>>

-----------------------------------------------------------------------------
(* POST /admin/verifications/{vid}/transition.                             *)

Subject(t) == asked[t].subject
Target(t) == asked[t].target

\* assert_transition.
MayTransition(current, t) ==
    /\ Target(t) \in Allowed[current]
    /\ asked[t].role \in RolesFor[Target(t)]

\* The request ends, and with it what it knew.
Ends(t, s) ==
    /\ To(t, s)
    /\ asked' = [asked EXCEPT ![t] = NoRequest]
    /\ from' = [from EXCEPT ![t] = "none"]

\* The user is known and the transaction begins.
Begin(t) ==
    /\ stage[t] = "idle"
    /\ To(t, "select")
    /\ \E request \in Request : /\ truth[request.subject] # "none"
                                /\ asked' = [asked EXCEPT ![t] = request]
    /\ UNCHANGED <<breaker, now, source, truth, holder, from, log, path>>

\* As if the row were read without FOR UPDATE.
MutSelect(t) ==
    /\ stage[t] = "select"
    /\ IF MayTransition(truth[Subject(t)], t)
       THEN To(t, "update") /\ from' = [from EXCEPT ![t] = truth[Subject(t)]] /\ UNCHANGED asked
       ELSE Ends(t, "failed")
    /\ UNCHANGED <<breaker, now, source, truth, holder, log, path>>

\* SELECT ... FOR UPDATE waits for the lock of the row, if there is one, and
\* the transition is judged by the state it reads.
Select(t) ==
    /\ stage[t] = "select"
    /\ holder[Subject(t)] = Nobody
    /\ MayTransition(truth[Subject(t)], t)
    /\ To(t, "update")
    /\ from' = [from EXCEPT ![t] = truth[Subject(t)]]
    /\ holder' = [holder EXCEPT ![Subject(t)] = t]
    /\ UNCHANGED <<breaker, now, source, truth, asked, log, path>>

\* A transition that is not allowed, or an error of Postgres, also while
\* waiting: the transaction rolls back.
Refuse(t) ==
    /\ stage[t] = "select"
    /\ Ends(t, "failed")
    /\ UNCHANGED <<breaker, now, source, truth, holder, log, path>>

ChangeOf(t) == [by |-> t, subject |-> Subject(t), from |-> from[t], to |-> Target(t)]

\* UPDATE and COMMIT: committed; committed and the acknowledgement lost; or
\* rolled back.  The lock is released in each case.
Update(t) ==
    /\ stage[t] = "update"
    /\ \/ /\ truth' = [truth EXCEPT ![Subject(t)] = Target(t)]
          /\ path' = [path EXCEPT ![Subject(t)] = Append(@, ChangeOf(t))]
          /\ \/ To(t, "audit") /\ UNCHANGED <<asked, from>>
             \/ Ends(t, "failed")
       \/ UNCHANGED <<truth, path>> /\ Ends(t, "failed")
    /\ holder' = [holder EXCEPT ![Subject(t)] = Nobody]
    /\ UNCHANGED <<breaker, now, source, log>>

\* As if the audit row told of the state that is read after the commit.
MutAppendTransition(t) ==
    /\ stage[t] = "audit"
    /\ log' = log \union {[ChangeOf(t) EXCEPT !.to = truth[Subject(t)]]}
    /\ Ends(t, "answered")
    /\ UNCHANGED <<breaker, now, source, truth, holder, path>>

\* The audit row of the transition, in a transaction of its own.
AppendTransition(t) ==
    /\ stage[t] = "audit"
    /\ \/ log' = log \union {ChangeOf(t)} /\ (Ends(t, "answered") \/ Ends(t, "failed"))
       \/ UNCHANGED log /\ Ends(t, "failed")
    /\ UNCHANGED <<breaker, now, source, truth, holder, path>>

-----------------------------------------------------------------------------
Tick ==
    /\ now < MaxTime
    /\ now' = now + 1
    /\ UNCHANGED <<breaker, stage, source, truth, holder, asked, from, log, path>>

Next ==
    \/ \E r \in Verifies : Ask(r) \/ AppendDecision(r) \/ Create(r)
    \/ \E r \in Verifies, p \in Providers : Answers(r, p) \/ Puzzles(r, p) \/ Fails(r, p)
    \/ \E t \in Transitions :
          Begin(t) \/ Select(t) \/ Refuse(t) \/ Update(t) \/ AppendTransition(t)
    \/ Tick

Spec == Init /\ [][Next]_vars

-----------------------------------------------------------------------------
(* Properties.                                                             *)

\* "No log = no go" (README.md): a verification exists, and a decision was
\* answered, only if the log says what was decided, though the two are
\* written in separate transactions and each may raise.
NoLogNoGo ==
    \A r \in Verifies :
        truth[r] # "none" \/ stage[r] = "answered" =>
            [subject |-> r, decision |-> Decision(r)] \in log

\* "Missing data is BLOCK": whatever breakers open, reset or count late, a
\* decision other than BLOCK, and a verification, needs the data of every
\* provider, given to this request; PASS needs three passed checks.
FailClosed ==
    /\ \A row \in log \cap DecisionRow :
          /\ row.decision = "PASS" => Results(row.subject) = {"PASS"}
          /\ row.decision = "HOLD" => Results(row.subject) \subseteq {"PASS", "HOLD"}
    /\ \A r \in Verifies : truth[r] # "none" => "MISSING" \notin Results(r)

\* A truth state changes along the allowed transitions only, however requests
\* of several users for one verification overlap: none overwrites a legal hold
\* or a removal it did not see.
TransitionsAreAllowed ==
    [][\A r \in Verifies :
          truth[r] \notin {"none", truth'[r]} => truth'[r] \in Allowed[truth[r]]]_vars

\* The audit row of a transition is written after its commit and outside its
\* lock, in any order.  Still each row tells of a change that was made, as it
\* was made; and the changes of a verification are a chain that starts where
\* it was created and leads to what it is, so that those the log has are never
\* in conflict.  (A committed change may be missing from the log.)
LogTellsChanges ==
    /\ \A row \in log \cap Change : \E k \in DOMAIN path[row.subject] : path[row.subject][k] = row
    /\ \A r \in Verifies : \A k \in DOMAIN path[r] :
          /\ path[r][k].from =
                IF k = 1 THEN TruthOf(Decision(r)) ELSE path[r][k - 1].to
          /\ k = Len(path[r]) => truth[r] = path[r][k].to
=============================================================================
