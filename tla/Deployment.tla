----------------------------- MODULE Deployment -----------------------------
(***************************************************************************)
(* contracts/scripts/deploy.js, and the contracts it leaves behind in use. *)
(*                                                                         *)
(* The script deploys four contracts, waiting for each, and then sends     *)
(* four configuring transactions without waiting for any: what it reports  *)
(* may still be pending when it ends.  Transactions of the deployer's key  *)
(* are mined in the order of their nonces.  Until an agent or owner is     *)
(* added, itself by such a transaction, every administrative call comes    *)
(* from that key; it is not used by hand while the script runs.  A rerun   *)
(* deploys contracts of its own and is another instance of this module.    *)
(***************************************************************************)
EXTENDS SecurityToken, Sequences, Functions

CONSTANT Ofac   \* ofacCountries

ASSUME DeploymentAssumption == Ofac \subseteq Countries

VARIABLES
    step,      \* the step main() awaits, 1 .. 8, or Complete, or Failed
    deployed,  \* contracts on chain
    pending,   \* configuring transactions in the mempool, in nonce order
    dropped    \* history: some of them left the mempool unmined

scriptVars == <<step, deployed, pending, dropped>>
vars == <<tokenVars, scriptVars>>

\* ZkSBTVerifier, IdentityRegistry, ModularCompliance, NBPTSecurityToken.
Contracts == 1 .. 4

\* setTokenAddress, batchBlockCountries, setMaxHolders, setHoldingPeriod.
SetterSteps == 5 .. 8

Complete == 9
Failed == 0
Running == step \in Contracts \union SetterSteps

TypeOK ==
    /\ TokenTypeOK
    /\ step \in Failed .. Complete
    /\ deployed \in 0 .. 4
    /\ pending \in Seq(SetterSteps)
    /\ dropped \in BOOLEAN

Init ==
    /\ TokenInit
    /\ step = 1
    /\ deployed = 0
    /\ pending = <<>>
    /\ dropped = FALSE

-----------------------------------------------------------------------------
(* The script.                                                             *)

\* A contract is deployed and waited for.
Deploy ==
    /\ step \in Contracts
    /\ deployed' = step
    /\ step' = step + 1
    /\ UNCHANGED <<tokenVars, pending, dropped>>

\* A configuring transaction is sent; its receipt is not waited for.
SendSetter ==
    /\ step \in SetterSteps
    /\ pending' = Append(pending, step)
    /\ step' = step + 1
    /\ UNCHANGED <<tokenVars, deployed, dropped>>

\* As if the error of a configuring call were caught and logged.
MutRaises ==
    /\ Running
    /\ step' = step + 1
    /\ UNCHANGED <<tokenVars, deployed, pending, dropped>>

\* A call of the provider raises and main().catch ends the script.  What was
\* sent may have arrived.
Raises ==
    /\ Running
    /\ step' = Failed
    /\ \/ UNCHANGED <<deployed, pending>>
       \/ step \in Contracts /\ deployed' = step /\ UNCHANGED pending
       \/ step \in SetterSteps /\ pending' = Append(pending, step) /\ UNCHANGED deployed
    /\ UNCHANGED <<tokenVars, dropped>>

-----------------------------------------------------------------------------
(* The chain.                                                              *)

\* What a configuring transaction does; the deployer owns the contract.
Effect(setter) ==
    /\ linked' = (linked \/ setter = 5)
    /\ rules' = CASE setter = 5 -> rules
                  [] setter = 6 -> [rules EXCEPT !.blocked = @ \union Ofac]
                  [] setter = 7 -> [rules EXCEPT !.maxHolders = 2000]
                  [] setter = 8 -> [rules EXCEPT !.holdingPeriod = Year]

Mine ==
    /\ pending # <<>>
    /\ Effect(Head(pending))
    /\ pending' = Tail(pending)
    /\ UNCHANGED <<supplyVars, holderVars, identityVars, recoveryVars, now, zeroed,
                   frozen, paused, config, lifted, step, deployed, dropped>>

\* The mempool forgets a transaction, and then those behind it, which cannot be
\* mined before it.
Drop ==
    /\ \E i \in DOMAIN pending : pending' = SubSeq(pending, 1, i - 1)
    /\ dropped' = TRUE
    /\ UNCHANGED <<tokenVars, step, deployed>>

\* A transaction sent after the script comes behind what the script sent.
Administered ==
    /\ deployed = 4
    /\ ~Running
    /\ pending = <<>>
    /\ Administer
    /\ UNCHANGED scriptVars

\* Investors, registrars and time.
Others ==
    /\ deployed = 4
    /\ \/ \E from, to \in Wallets, amount \in 0 .. MaxSupply : Transfer(from, to, amount)
       \/ \E w \in Wallets, c \in Countries : RegisterIdentity(w, c)
       \/ \E w \in Wallets, c \in Countries, ok \in BOOLEAN : ChangeIdentity(w, c, ok)
       \/ Tick
    /\ UNCHANGED scriptVars

Next == Deploy \/ SendSetter \/ Raises \/ Mine \/ Drop \/ Administered \/ Others

Spec == Init /\ [][Next]_vars

-----------------------------------------------------------------------------
(* Properties.                                                             *)

Total(f) == FoldFunction(+, 0, f)

\* No sequence of mints, burns, transfers and recoveries, to oneself, of zero
\* or of everything, makes or loses tokens; the compliance contract's total
\* agrees although it is not told of recoveries.
SupplyIsConserved == Total(balances) = totalSupply /\ Total(mirror) = totalSupply

\* The two contracts keep their balances apart.  They differ for wallets of a
\* recovery only: the compliance contract never knows of more than there is in
\* a wallet nothing was recovered from, nor of less than there is in one
\* nothing was recovered to.
MirrorFollows ==
    \A w \in Wallets :
        /\ w \notin lost => mirror[w] <= balances[w]
        /\ w \notin gained => balances[w] <= mirror[w]

\* As long as no amount of zero is moved, the count kept by increments and
\* decrements is the number of wallets the compliance contract knows to hold
\* something: through self-transfers, full exits and re-entries.
HoldersAreCounted ==
    zeroed = 0 => currentHolders = Cardinality({w \in Wallets : mirror[w] > 0})

\* A wallet that nothing was recovered from sells only when its holding period
\* has passed since it came to hold anything: the clock of the compliance
\* contract never runs ahead of the token's balances.
NoEarlySale ==
    [][\A w \in Wallets \ lost' :
          /\ balances'[w] < balances[w]
          /\ totalSupply' = totalSupply
          /\ "period" \in rules.enforced
          => now >= since[w] + rules.holdingPeriod]_vars

\* If the script reported its end and no transaction was forgotten, then no
\* token ever exists outside the country list it sent: every country of the
\* list is blocked, or was unblocked by the owner afterwards, though the script
\* waits for none of it.
RestrictedBeforeIssued ==
    step = Complete /\ ~dropped /\ totalSupply > 0 =>
        Ofac \ lifted \subseteq rules.blocked

\* A script that raises at any of its calls, with the call's effect still to come
\* or never, leaves in force a beginning of what it meant to send: unless the
\* mempool forgot a transaction or the owner changed something by hand, no
\* country is blocked by a compliance contract that does not listen to the token.
ConfiguredInOrder ==
    ~dropped /\ config = 0 /\ rules.blocked # {} => linked

\* ModularCompliance.sol:73 says "burn always allowed", and burn itself asks
\* for a sufficient balance only: whatever a wallet holds can be burned.
BurnAlwaysAllowed ==
    \A w \in Wallets : \A amount \in 1 .. balances[w] : CanLeave(w, amount)
=============================================================================
