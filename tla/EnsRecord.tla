----------------------------- MODULE EnsRecord -----------------------------
(***************************************************************************)
(* The two ENS scripts, run side by side and again, while other tools      *)
(* change the name: DEPLOYMENT_GUIDE.md has the operator run the setup and *)
(* then the verification.                                                  *)
(***************************************************************************)
EXTENDS EnsSolanaSetup, EnsSolanaVerify

ASSUME RunAssumption == Setups \cap Verifiers = {}

\* History, it decides nothing: the runs during or after which another tool
\* changed the name.
VARIABLE disturbed

vars == <<nameVars, setupVars, verifyVars, disturbed>>

TypeOK ==
    /\ NameTypeOK
    /\ SetupTypeOK
    /\ VerifyTypeOK
    /\ disturbed \subseteq Setups \union Verifiers

Init ==
    /\ NameInit
    /\ SetupInit
    /\ VerifyInit
    /\ disturbed = {}

Passed == {s \in Setups : pc[s] = "passed"}

RunSetup(s) ==
    /\ SetupStep(s)
    /\ UNCHANGED <<verifyVars, disturbed>>

RunVerify(v) ==
    /\ VerifyStep(v)
    /\ UNCHANGED <<setupVars, disturbed>>

OwnerActs ==
    /\ OtherTool
    /\ disturbed' = disturbed \union {s \in Setups : pc[s] # "idle"}
                              \union {v \in Verifiers : at[v] # "idle"}
    /\ UNCHANGED <<setupVars, verifyVars>>

Next ==
    \/ \E s \in Setups : RunSetup(s)
    \/ \E v \in Verifiers : RunVerify(v)
    \/ OwnerActs

Spec == Init /\ [][Next]_vars

\* A call of the provider comes back, and the chain settles a transaction,
\* if only by dropping it.  Nobody has to start a run.
FairSpec ==
    /\ Spec
    /\ \A s \in Setups : /\ WF_vars(SetupProgress(s) /\ UNCHANGED <<verifyVars, disturbed>>)
                         /\ WF_vars(Settle(s) /\ UNCHANGED <<verifyVars, disturbed>>)
    /\ \A v \in Verifiers :
          WF_vars(VerifyProgress(v) /\ UNCHANGED <<nameVars, setupVars, disturbed>>)

-----------------------------------------------------------------------------
(* Properties.                                                             *)

\* "Verification PASSED": as long as no other tool interferes, the name of a
\* run that passed resolves to the Solana address, and stays so whatever
\* failed, killed or repeated runs and their late transactions do.
PassedMeansResolves ==
    \A s \in Passed \ disturbed : Resolves

\* The verifier reads the resolver and the record at two times.  Each of four
\* reports is true of the name at the moment it is made, unless another tool
\* interfered: that there is no resolver, that the record is not set, that it
\* matches, that it does not.  Transactions of the setup that are mined between
\* the reads do no harm.  The fifth report, that the resolver does not support
\* the record, is made for whatever the read raised, a timeout included
\* (verify-ens-solana.js:70-71): it may be false and nothing is said of it.
ReadReportsAreTrue ==
    [][\A v \in Verifiers \ disturbed :
          verdict'[v] # verdict[v] =>
              /\ verdict'[v] = "match" => Resolves
              /\ verdict'[v] \in {"noResolver", "notSet", "mismatch"} => ~Resolves]_vars

\* Every run ends, unless its transaction is lost: the receipt is waited for
\* without a timeout.
EveryRunEnds ==
    /\ \A s \in Setups : pc[s] \in SetupStages ~> pc[s] \in SetupEnds \/ tx[s] = "lost"
    /\ \A v \in Verifiers : at[v] \in VerifyStages ~> at[v] = "ended"
=============================================================================
