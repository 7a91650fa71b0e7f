-------------------------- MODULE EnsSolanaVerify --------------------------
(***************************************************************************)
(* scripts/verify-ens-solana.js: read the resolver of the name, its ETH    *)
(* address and its Solana record, and report on the record.                *)
(*                                                                         *)
(* at[v] names the call that run v awaits.  A call that raises ends the    *)
(* run with status 1, except the read of the Solana record, whose catch    *)
(* reports that the resolver knows no coin types, whatever was raised.     *)
(***************************************************************************)
EXTENDS EnsName

CONSTANT Verifiers   \* runs of the script

VARIABLES
    at,      \* run -> the call it awaits, "idle" or "ended"
    found,   \* run -> resolverAddress
    verdict  \* run -> what it reported, or "none"

verifyVars == <<at, found, verdict>>

VerifyStages == {"resolver", "ethAddr", "solAddr"}
Verdicts == {"none", "noResolver", "notSet", "match", "mismatch", "unsupported"}

VerifyTypeOK ==
    /\ at \in [Verifiers -> {"idle", "ended"} \union VerifyStages]
    /\ found \in [Verifiers -> Resolvers \union {NoResolver}]
    /\ verdict \in [Verifiers -> Verdicts]
    /\ \A v \in Verifiers : at[v] \in {"ethAddr", "solAddr"} => found[v] \in Resolvers

VerifyInit ==
    /\ at = [v \in Verifiers |-> "idle"]
    /\ found = [v \in Verifiers |-> NoResolver]
    /\ verdict = [v \in Verifiers |-> "none"]

Ends(v, reported) ==
    /\ at' = [at EXCEPT ![v] = "ended"]
    /\ verdict' = [verdict EXCEPT ![v] = reported]

StartVerify(v, configured) ==
    /\ at[v] = "idle"
    /\ at' = [at EXCEPT ![v] = IF configured THEN "resolver" ELSE "ended"]
    /\ UNCHANGED <<found, verdict>>

FindResolver(v) ==
    /\ at[v] = "resolver"
    /\ found' = [found EXCEPT ![v] = resolver]
    /\ IF resolver = NoResolver
       THEN Ends(v, "noResolver")
       ELSE at' = [at EXCEPT ![v] = "ethAddr"] /\ UNCHANGED verdict

\* The ETH address is printed and decides nothing.
ReadEthAddr(v) ==
    /\ at[v] = "ethAddr"
    /\ at' = [at EXCEPT ![v] = "solAddr"]
    /\ UNCHANGED <<found, verdict>>

\* As if any record were taken for the expected one.
MutStatusOf(value) == IF value = Unset THEN "notSet" ELSE "match"

StatusOf(value) ==
    CASE value = Unset -> "notSet"
      [] value = Sol -> "match"
      [] OTHER -> "mismatch"

\* All three outcomes, and the catch, leave the exit status 0.
ReadSolAddr(v) ==
    /\ at[v] = "solAddr"
    /\ found[v] \in Multicoin
    /\ Ends(v, StatusOf(record[found[v]]))
    /\ UNCHANGED found

SolAddrRaises(v) ==
    /\ at[v] = "solAddr"
    /\ Ends(v, "unsupported")
    /\ UNCHANGED found

VerifyRaises(v) ==
    /\ at[v] \in {"resolver", "ethAddr"}
    /\ at' = [at EXCEPT ![v] = "ended"]
    /\ UNCHANGED <<found, verdict>>

\* A call comes back: with an answer, or as an error of the provider.
VerifyProgress(v) ==
    \/ FindResolver(v) \/ ReadEthAddr(v) \/ ReadSolAddr(v)
    \/ SolAddrRaises(v) \/ VerifyRaises(v)

VerifyStep(v) ==
    /\ \/ \E configured \in BOOLEAN : StartVerify(v, configured)
       \/ VerifyProgress(v)
    /\ UNCHANGED nameVars
=============================================================================
