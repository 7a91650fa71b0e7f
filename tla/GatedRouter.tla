----------------------------- MODULE GatedRouter ----------------------------
(***************************************************************************)
(* POST /execute-gate of the orchestration spine (core/api/                *)
(* gated_router.py): three checks on the request, then one transaction     *)
(* that updates the workflow's row and appends to audit_logs, in           *)
(* competition with the gateway's AuditBeacon.                             *)
(*                                                                         *)
(* The row lock that the UPDATE takes is held until the transaction ends;  *)
(* the SELECT before it takes none.                                        *)
(***************************************************************************)
EXTENDS AuditLog

CONSTANTS
    Beacons,         \* connections of the gateway on which _append runs
    Requests,        \* requests to /execute-gate
    Workflows,       \* ids callers may send
    Existing,        \* those with a row in workflow_states
    InitialStatus,   \* the statuses these rows may have at first
    RequestInputs,   \* the bodies callers send
    NoWorkflow       \* the subject of a gateway row

SensitiveScopes ==
    {"treasury_movement", "securities_action", "permit_filing", "token_launch"}
NyBlockedScopes ==
    {"nbpt_purchase", "kuzo_swap", "tokenized_real_estate", "hosted_wallet",
     "virtual_currency_business"}
RedGateScopes ==
    {"nbpt_sale", "tokenized_fractional_ownership", "kuzo_swap_execution",
     "hosted_wallet", "ai_trade_execution", "yield_staking",
     "stablecoin_issuance", "public_secondary_market"}
OtherScopes == {"site_visit"}
Statuses == {"draft", "pending_human_review", "executed", "rejected", "archived"}

\* Spellings of requestor_region, and what strip().lower() makes of them.
Lower(region) ==
    CASE region = "NY" -> "ny"
      [] region = "New York" -> "new york"
      [] region = "NYC" -> "nyc"
      [] OTHER -> region
Regions == {"NY", "ny", "New York", "new_york", "NYC", "none", "ma"}

\* The entry "NY" is never the lower case of anything.
NyRegionCodes == {"NY", "new_york", "new york", "nyc"}

Request ==
    [ workflow: Workflows, signed: BOOLEAN, region: Regions,
      scope: SensitiveScopes \cup NyBlockedScopes \cup RedGateScopes \cup OtherScopes ]

ASSUME GatedRouterAssumption ==
    /\ Writers = Beacons \cup Requests
    /\ Beacons \cap Requests = {}
    /\ Existing \subseteq Workflows
    /\ NoWorkflow \notin Workflows
    /\ Subjects = Workflows \cup {NoWorkflow}
    /\ Events = Statuses \cup {"mcp_call"}
    /\ InitialStatus \subseteq Statuses
    /\ RequestInputs \subseteq Request

VARIABLES
    req,     \* request -> its body
    answer,  \* request -> how it ended, or "none"
    wf       \* existing workflow -> its committed status and human_approved

vars == <<logVars, req, answer, wf>>

Answers == {"none", "forbidden", "notfound", "error", "parked", "executed"}

TypeOK ==
    /\ LogTypeOK
    /\ req \in [Requests -> RequestInputs]
    /\ answer \in [Requests -> Answers]
    /\ wf \in [Existing -> [status: Statuses, approved: BOOLEAN]]

Init ==
    /\ LogInit
    /\ req \in [Requests -> RequestInputs]
    /\ answer = [r \in Requests |-> "none"]
    /\ wf \in [Existing -> [status: InitialStatus, approved: {FALSE}]]

-----------------------------------------------------------------------------

IsNyRegion(region) == Lower(region) \in NyRegionCodes

Forbidden(q) ==
    \/ q.scope \in RedGateScopes
    \/ IsNyRegion(q.region) /\ q.scope \in NyBlockedScopes
    \/ q.scope \in SensitiveScopes /\ ~q.signed

Refuse(r) ==
    /\ answer[r] = "none" /\ txn[r].stage = "idle"
    /\ Forbidden(req[r])
    /\ answer' = [answer EXCEPT ![r] = "forbidden"]
    /\ UNCHANGED <<logVars, req, wf>>

RouterBegin(r) ==
    /\ answer[r] = "none"
    /\ ~Forbidden(req[r])
    /\ Begin(r)
    /\ UNCHANGED <<req, answer, wf>>

\* SELECT finds no workflow: the 404 rolls the transaction back.
NotFound(r) ==
    /\ txn[r].stage = "begun"
    /\ req[r].workflow \notin Existing
    /\ Abort(r, "closed")
    /\ answer' = [answer EXCEPT ![r] = "notfound"]
    /\ UNCHANGED <<req, wf>>

\* As if the lock outlived the transaction.
MutHolds(r, w) ==
    req[r].workflow = w /\ txn[r].stage \in {"locked", "read", "closed"}

Holds(r, w) == req[r].workflow = w /\ txn[r].stage \in {"locked", "read"}

\* As if parking wrote a status that the table's check does not list.
MutUpdated(r) ==
    IF req[r].signed
    THEN [status |-> "executed", approved |-> TRUE]
    ELSE [wf[req[r].workflow] EXCEPT !.status = "parked"]

\* A signature executes the workflow whatever its status was; without one it
\* is parked and human_approved keeps its value.
Updated(r) ==
    IF req[r].signed
    THEN [status |-> "executed", approved |-> TRUE]
    ELSE [wf[req[r].workflow] EXCEPT !.status = "pending_human_review"]

\* As if the two statements were not in one transaction: the workflow's row
\* changes when it is updated, and stays changed when the audit insert fails.
MutUpdate(r) ==
    /\ txn[r].stage = "begun"
    /\ req[r].workflow \in Existing
    /\ txn' = [txn EXCEPT ![r].stage = "locked"]
    /\ wf' = [wf EXCEPT ![req[r].workflow] = Updated(r)]
    /\ UNCHANGED <<rows, clock, overlapped, req, answer>>

\* UPDATE waits for the row lock; its effect is not visible before COMMIT.
Update(r) ==
    /\ txn[r].stage = "begun"
    /\ req[r].workflow \in Existing
    /\ ~ \E q \in Requests : Holds(q, req[r].workflow)
    /\ txn' = [txn EXCEPT ![r].stage = "locked"]
    /\ UNCHANGED <<rows, clock, overlapped, req, answer, wf>>

RouterRead(r) ==
    /\ ReadTail(r, "locked")
    /\ UNCHANGED <<req, answer, wf>>

\* The hash of a router row is made of its own body only.
RouterHash == {Len(rows) + 1}

\* The commit's acknowledgement may be lost on its way to the router.
RouterCommit(r) ==
    /\ Commit(r, RouterHash, req[r].workflow, Updated(r).status, "closed")
    /\ wf' = [wf EXCEPT ![req[r].workflow] = Updated(r)]
    /\ \E a \in {IF req[r].signed THEN "executed" ELSE "parked", "error"} :
          answer' = [answer EXCEPT ![r] = a]
    /\ UNCHANGED req

\* As if an error inside the transaction were swallowed.
MutRouterAbort(r) ==
    /\ Abort(r, "closed")
    /\ answer' = [answer EXCEPT ![r] = IF req[r].signed THEN "executed" ELSE "parked"]
    /\ UNCHANGED <<req, wf>>

\* A statement raises or the connection is lost.
RouterAbort(r) ==
    /\ Abort(r, "closed")
    /\ answer' = [answer EXCEPT ![r] = "error"]
    /\ UNCHANGED <<req, wf>>

-----------------------------------------------------------------------------

BeaconStep(b) ==
    /\ \/ BeaconBegin(b)
       \/ BeaconRead(b)
       \/ BeaconCommit(b, NoWorkflow)
       \/ BeaconAbort(b)
    /\ UNCHANGED <<req, answer, wf>>

RouterStep(r) ==
    \/ Refuse(r) \/ RouterBegin(r) \/ NotFound(r) \/ Update(r)
    \/ RouterRead(r) \/ RouterCommit(r) \/ RouterAbort(r)

Next ==
    \/ \E b \in Beacons : BeaconStep(b)
    \/ \E r \in Requests : RouterStep(r)

Spec == Init /\ [][Next]_vars

\* Assumed, not enforced: Postgres answers every statement that waits for no
\* lock, and grants a lock once it is free.  What is asked under it is whether
\* the requests can hold each other up for ever.
FairSpec ==
    /\ Spec
    /\ \A r \in Requests :
          WF_vars(NotFound(r) \/ Update(r) \/ RouterRead(r) \/ RouterCommit(r))

-----------------------------------------------------------------------------
(* Properties.                                                             *)

RowsOf(w) == {i \in DOMAIN rows : rows[i].subject = w}
Newest(S) == CHOOSE i \in S : \A j \in S : j <= i

\* The status of a workflow is what its newest audit row says, and it counts
\* as approved exactly if some row says it was executed: no change of a
\* workflow is committed without its row and no row without its change,
\* however requests for one workflow overlap, wait, fail or roll back.
StatusMatchesLedger ==
    \A w \in Existing :
        IF RowsOf(w) = {}
        THEN wf[w].status \in InitialStatus /\ ~wf[w].approved
        ELSE /\ wf[w].status = rows[Newest(RowsOf(w))].says
             /\ wf[w].approved <=> \E i \in RowsOf(w) : rows[i].says = "executed"

\* A caller told that its action was executed or parked, and anchored, has
\* the row of its own transaction in the log, saying just that; one that was
\* refused, or named no workflow, has left no row.
AnswersAreAnchored ==
    \A r \in Requests :
        LET own == {i \in DOMAIN rows : rows[i].ts = txn[r].ts}
        IN  /\ answer[r] \in {"executed", "parked"} =>
                  \E i \in own : /\ rows[i].subject = req[r].workflow
                                 /\ rows[i].says = IF answer[r] = "executed"
                                                   THEN "executed"
                                                   ELSE "pending_human_review"
            /\ answer[r] \in {"forbidden", "notfound"} => own = {}

\* Every request whose transaction has begun ends it, if Postgres answers: no
\* request waits for ever for the lock of a workflow that another has failed
\* or forgotten to give back.
EveryRequestEnds ==
    \A r \in Requests : txn[r].stage \in Open ~> txn[r].stage = "closed"

\* gated_router.py:93 calls the second check the New York geo-block and
\* gated_router.py:97 says that the scope is "not available to New York
\* residents": no request that names New York is served in a blocked scope.
NewYorkIsBlocked ==
    \A r \in Requests :
        /\ req[r].region \in {"NY", "ny", "New York", "new_york", "NYC"}
        /\ req[r].scope \in NyBlockedScopes
        => answer[r] \notin {"executed", "parked"}
=============================================================================
