--------------------------- MODULE EnsSolanaSetup ---------------------------
(***************************************************************************)
(* scripts/ens-solana-setup.js: read the resolver of the name, send        *)
(* setAddr to it, wait for the receipt, read the record back.              *)
(*                                                                         *)
(* pc[s] names the call of the provider that run s awaits; an action is    *)
(* the effect of that call and the code up to the next one.  Every call    *)
(* may raise, which ends the run with status 1 (main().catch).  A process  *)
(* that is killed leaves the same state behind as one whose call raises.   *)
(* Runs are attempts: a rerun after a failure is another run.              *)
(***************************************************************************)
EXTENDS EnsName

CONSTANTS
    Setups,        \* runs of the script
    AddressBytes   \* bytes SOLANA_ADDRESS decodes to; 32 for the constant in the script

ASSUME SetupAssumption == AddressBytes \in Nat

VARIABLES
    pc,    \* run -> the call it awaits, or how it ended
    seen,  \* run -> resolverAddress
    tx     \* run -> its setAddr transaction

setupVars == <<pc, seen, tx>>

SetupStages == {"resolver", "existing", "send", "wait", "verify"}
SetupEnds == {"passed", "failed"}

SetupTypeOK ==
    /\ pc \in [Setups -> {"idle"} \union SetupStages \union SetupEnds]
    /\ seen \in [Setups -> Resolvers \union {NoResolver}]
    /\ tx \in [Setups -> {"none", "pending", "mined", "reverted", "lost"}]
    /\ \A s \in Setups :
          pc[s] \in {"existing", "send", "wait", "verify", "passed"} => seen[s] \in Resolvers

SetupInit ==
    /\ pc = [s \in Setups |-> "idle"]
    /\ seen = [s \in Setups |-> NoResolver]
    /\ tx = [s \in Setups |-> "none"]

\* A run with its environment variables, or without them.
StartSetup(s, configured) ==
    /\ pc[s] = "idle"
    /\ pc' = [pc EXCEPT ![s] = IF configured /\ AddressBytes = 32 THEN "resolver" ELSE "failed"]
    /\ UNCHANGED <<nameVars, seen, tx>>

\* As if the address of the PublicResolver were a constant of the script.
MutReadResolver(s) ==
    /\ pc[s] = "resolver"
    /\ \E r \in Multicoin : /\ seen' = [seen EXCEPT ![s] = r]
                            /\ pc' = [pc EXCEPT ![s] = "existing"]
    /\ UNCHANGED <<nameVars, tx>>

\* As if the zero address were not looked for.
MutReadResolverUnchecked(s) ==
    /\ pc[s] = "resolver"
    /\ seen' = [seen EXCEPT ![s] = resolver]
    /\ pc' = [pc EXCEPT ![s] = "existing"]
    /\ UNCHANGED <<nameVars, tx>>

\* The resolver is read once; the record is written to and read from it.
ReadResolver(s) ==
    /\ pc[s] = "resolver"
    /\ seen' = [seen EXCEPT ![s] = resolver]
    /\ pc' = [pc EXCEPT ![s] = IF resolver = NoResolver THEN "failed" ELSE "existing"]
    /\ UNCHANGED <<nameVars, tx>>

\* An existing record is logged and decides nothing; a resolver that does
\* not know coin types raises.
ReadExisting(s) ==
    /\ pc[s] = "existing"
    /\ pc' = [pc EXCEPT ![s] = IF seen[s] \in Multicoin THEN "send" ELSE "failed"]
    /\ UNCHANGED <<nameVars, seen, tx>>

Send(s) ==
    /\ pc[s] = "send"
    /\ tx' = [tx EXCEPT ![s] = "pending"]
    /\ pc' = [pc EXCEPT ![s] = "wait"]
    /\ UNCHANGED <<nameVars, seen>>

\* As if a receipt without success were waited past.
MutConfirm(s) ==
    /\ pc[s] = "wait"
    /\ tx[s] = "mined"
    /\ pc' = [pc EXCEPT ![s] = "verify"]
    /\ UNCHANGED <<nameVars, seen, tx>>

\* tx.wait() has no timeout: it returns once there is a receipt and raises if
\* the receipt is that of a reverted transaction.
Confirm(s) ==
    /\ pc[s] = "wait"
    /\ tx[s] \in {"mined", "reverted"}
    /\ pc' = [pc EXCEPT ![s] = IF tx[s] = "mined" THEN "verify" ELSE "failed"]
    /\ UNCHANGED <<nameVars, seen, tx>>

Verify(s) ==
    /\ pc[s] = "verify"
    /\ pc' = [pc EXCEPT ![s] = IF record[seen[s]] = Sol THEN "passed" ELSE "failed"]
    /\ UNCHANGED <<nameVars, seen, tx>>

\* A call raises.  A transaction whose sending raised may have been accepted,
\* and one that was being waited for stays what it is.
SetupRaises(s) ==
    /\ pc[s] \in SetupStages
    /\ pc' = [pc EXCEPT ![s] = "failed"]
    /\ \/ UNCHANGED tx
       \/ pc[s] = "send" /\ tx' = [tx EXCEPT ![s] = "pending"]
    /\ UNCHANGED <<nameVars, seen>>

\* The chain settles a transaction, now or long after its run has ended: it
\* takes effect, it reverts, or it leaves the mempool without a receipt.
Settle(s) ==
    /\ tx[s] = "pending"
    /\ \/ /\ tx' = [tx EXCEPT ![s] = "mined"]
          /\ record' = [record EXCEPT ![seen[s]] = Sol]
       \/ /\ \E end \in {"reverted", "lost"} : tx' = [tx EXCEPT ![s] = end]
          /\ UNCHANGED record
    /\ UNCHANGED <<pc, seen, resolver, changes>>

SetupProgress(s) ==
    \/ ReadResolver(s) \/ ReadExisting(s) \/ Send(s) \/ Confirm(s) \/ Verify(s)

SetupStep(s) ==
    \/ \E configured \in BOOLEAN : StartSetup(s, configured)
    \/ SetupProgress(s) \/ SetupRaises(s) \/ Settle(s)
=============================================================================
