------------------------------ MODULE AuditLog ------------------------------
(***************************************************************************)
(* The table audit_logs (core/migrations/001_workflow_states.sql) and the  *)
(* transactions that append to it: AuditBeacon._append of the gateway      *)
(* (core/gateway/audit.py) and the gated router (core/api/gated_router.py).*)
(*                                                                         *)
(* A writer begins a READ COMMITTED transaction, reads the hash of the row *)
(* with the greatest timestamp, and inserts a row that carries it as       *)
(* previous_hash.  Nothing is locked between the read and the insert.  The *)
(* timestamp of a row is NOW(), which Postgres fixes when the transaction  *)
(* begins, not when it inserts or commits; two transactions never begin at *)
(* the same microsecond here.                                              *)
(*                                                                         *)
(* A hash stands for what it commits to: the set of the rows whose bodies  *)
(* went into it.  Rows are numbered in the order of their commits, and 0   *)
(* stands for the missing predecessor of the first row.                    *)
(***************************************************************************)
EXTENDS Integers, Sequences

CONSTANTS
    Writers,   \* the transactions that append
    Subjects,  \* what a row is about (entity_id)
    Events,    \* what a row records (action_type, and a status)
    MaxRows    \* bound: transactions begun

ASSUME AuditLogAssumption == MaxRows \in Nat /\ "mcp_call" \in Events

VARIABLES
    rows,       \* the committed rows, in the order of their commits
    clock,      \* the database's clock, advanced by every BEGIN
    txn,        \* writer -> its transaction
    overlapped  \* TRUE once two transactions have been open together

logVars == <<rows, clock, txn, overlapped>>

Row == [ts: Nat, prev: Nat, hash: SUBSET Nat, subject: Subjects, says: Events]
Stages == {"idle", "begun", "locked", "read", "closed"}
Open == {"begun", "locked", "read"}

LogTypeOK ==
    /\ rows \in Seq(Row)
    /\ clock \in 0..MaxRows
    /\ txn \in [Writers -> [stage: Stages, ts: Nat, prev: Nat]]
    /\ overlapped \in BOOLEAN

LogInit ==
    /\ rows = <<>>
    /\ clock = 0
    /\ txn = [w \in Writers |-> [stage |-> "idle", ts |-> 0, prev |-> 0]]
    /\ overlapped = FALSE

-----------------------------------------------------------------------------

\* As if the order were ascending.
MutIsTail(i) ==
    IF rows = <<>> THEN i = 0
    ELSE /\ i \in DOMAIN rows
         /\ \A j \in DOMAIN rows : rows[j].ts >= rows[i].ts

\* SELECT payload_hash ... ORDER BY timestamp DESC LIMIT 1.
IsTail(i) ==
    IF rows = <<>> THEN i = 0
    ELSE /\ i \in DOMAIN rows
         /\ \A j \in DOMAIN rows : rows[j].ts <= rows[i].ts

HashOf(i) == IF i = 0 THEN {} ELSE rows[i].hash

Begin(w) ==
    /\ txn[w].stage = "idle"
    /\ clock < MaxRows
    /\ clock' = clock + 1
    /\ txn' = [txn EXCEPT ![w] = [stage |-> "begun", ts |-> clock + 1, prev |-> 0]]
    /\ overlapped' = (overlapped \/ \E v \in Writers : txn[v].stage \in Open)
    /\ UNCHANGED rows

ReadTail(w, stage) ==
    /\ txn[w].stage = stage
    /\ \E i \in 0..Len(rows) :
          /\ IsTail(i)
          /\ txn' = [txn EXCEPT ![w] = [stage |-> "read", ts |-> @.ts, prev |-> i]]
    /\ UNCHANGED <<rows, clock, overlapped>>

\* As if the hash were read after the insert, when it finds the row itself.
MutCommit(w, hash, subject, says, stage) ==
    /\ txn[w].stage = "read"
    /\ rows' = Append(rows, [ts |-> txn[w].ts, prev |-> Len(rows) + 1,
                             hash |-> hash, subject |-> subject, says |-> says])
    /\ txn' = [txn EXCEPT ![w].stage = stage]
    /\ UNCHANGED <<clock, overlapped>>

\* The insert becomes visible, and the transaction ends, when it commits.
Commit(w, hash, subject, says, stage) ==
    /\ txn[w].stage = "read"
    /\ rows' = Append(rows, [ts |-> txn[w].ts, prev |-> txn[w].prev,
                             hash |-> hash, subject |-> subject, says |-> says])
    /\ txn' = [txn EXCEPT ![w].stage = stage]
    /\ UNCHANGED <<clock, overlapped>>

\* The connection or the process is lost: the transaction rolls back.
Abort(w, stage) ==
    /\ txn[w].stage \in Open
    /\ txn' = [txn EXCEPT ![w].stage = stage]
    /\ UNCHANGED <<rows, clock, overlapped>>

-----------------------------------------------------------------------------
(* AuditBeacon._append, which a gateway writer repeats.  Its hash covers   *)
(* the hash it read and the new row's body.                                *)

GatewayHash(w) == HashOf(txn[w].prev) \cup {Len(rows) + 1}

BeaconBegin(w) == Begin(w)
BeaconRead(w) == ReadTail(w, "begun")
BeaconCommit(w, subject) == Commit(w, GatewayHash(w), subject, "mcp_call", "idle")
BeaconAbort(w) == Abort(w, "idle")

-----------------------------------------------------------------------------
(* Properties of the table.                                                *)

\* Every row names as its predecessor a row that committed before it, or
\* none: following previous_hash from any row ends at the first row and never
\* comes back, however the transactions overlap.
PredecessorIsEarlier ==
    \A i \in DOMAIN rows : rows[i].prev < i

\* As long as no two transactions have been open together, the rows form one
\* chain in the order of their commits: each names the one before it, and a
\* row of the gateway with only such rows before it commits to all of them.
SerialChainIsLinear ==
    ~overlapped =>
        \A i \in DOMAIN rows :
            /\ rows[i].prev = i - 1
            /\ (\A j \in 1..i : rows[j].says = "mcp_call") => rows[i].hash = 1..i

\* audit.py:1 calls the log hash-chained and audit.py:4 "one tamper-evident
\* ledger": no two rows continue the same row.
OneChain ==
    \A i, j \in DOMAIN rows : rows[i].prev = rows[j].prev => i = j
=============================================================================
