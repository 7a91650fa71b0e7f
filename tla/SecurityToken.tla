--------------------------- MODULE SecurityToken ---------------------------
(***************************************************************************)
(* The security token and its compliance contract (contracts/src:          *)
(* token/NBPTSecurityToken.sol, compliance/ModularCompliance.sol).  A      *)
(* transaction is one action: what a call of the token changes in itself   *)
(* and in the compliance contract.  A call whose require fails, or whose   *)
(* unsigned subtraction would go below zero, changes nothing and is no     *)
(* step.                                                                   *)
(*                                                                         *)
(* Of IdentityRegistry and ZkSBTVerifier the token asks isVerified and     *)
(* investorCountry.  Registration, deletion, a change of country,          *)
(* accreditation, its expiry and its revocation may change the two answers *)
(* at any time.                                                            *)
(*                                                                         *)
(* Left out: allowances (transferFrom is transfer once it is allowed), the *)
(* replacement of a live token's registry or compliance contract, calls    *)
(* that another address makes of the compliance contract while that is     *)
(* pointed at it, the lists of agents and owners (the module that sends    *)
(* the calls says who may), and amounts near 2^256.                        *)
(***************************************************************************)
EXTENDS Integers, FiniteSets

CONSTANTS
    Wallets,
    Countries,   \* country codes
    NoCountry,   \* the code of an unregistered wallet, 0
    Year,        \* 365 days, in the model's units of time
    Limits,      \* values the owner gives to the limits of the rules
    MaxSupply,   \* bound on the supply
    MaxTime,     \* bound on block.timestamp
    MaxConfig,   \* bound on configuring calls
    MaxZero      \* bound on moves of an amount of zero

ASSUME TokenAssumption ==
    /\ IsFiniteSet(Wallets)
    /\ NoCountry \in Countries
    /\ Year \in Nat
    /\ Limits \subseteq Nat
    /\ MaxSupply \in Nat
    /\ MaxTime \in Nat \ {0}
    /\ MaxConfig \in Nat
    /\ MaxZero \in Nat

VARIABLES
    totalSupply, balances, frozen, paused,  \* NBPTSecurityToken
    linked,         \* ModularCompliance: tokenAddress is the token
    mirror,         \* its own balanceOf
    currentHolders,
    firstReceived,
    rules,          \* the parameters and toggles of its rules
    verified,       \* the wallets for which isVerified holds
    country,        \* wallet -> investorCountry
    now,            \* block.timestamp
    config,         \* configuring calls so far
    \* History: they decide nothing.
    since,          \* wallet -> when its balance last became positive
    lost, gained,   \* wallets a recovery took from, or gave to
    zeroed,         \* how often an amount of zero was moved
    lifted          \* countries the owner unblocked

supplyVars == <<totalSupply, balances, since>>
holderVars == <<mirror, currentHolders, firstReceived>>
adminVars == <<frozen, paused, linked, rules, config, lifted>>
identityVars == <<verified, country>>
recoveryVars == <<lost, gained>>
tokenVars == <<supplyVars, holderVars, adminVars, identityVars, recoveryVars, now, zeroed>>

RuleNames == {"maxHolders", "country", "cap", "period"}
Rules == [blocked: SUBSET Countries, enforced: SUBSET RuleNames,
          maxHolders: Nat, maxPerInvestor: Nat, holdingPeriod: Nat]

TokenTypeOK ==
    /\ totalSupply \in 0 .. MaxSupply
    /\ balances \in [Wallets -> Nat]
    /\ frozen \subseteq Wallets
    /\ {paused, linked} \subseteq BOOLEAN
    /\ mirror \in [Wallets -> Nat]
    /\ currentHolders \in Nat
    /\ firstReceived \in [Wallets -> 0 .. MaxTime]
    /\ rules \in Rules
    /\ verified \subseteq Wallets
    /\ country \in [Wallets -> Countries]
    /\ now \in 1 .. MaxTime
    /\ config \in 0 .. MaxConfig
    /\ since \in [Wallets -> 0 .. MaxTime]
    /\ zeroed \in 0 .. MaxZero
    /\ lost \subseteq Wallets
    /\ gained \subseteq Wallets
    /\ lifted \subseteq Countries

\* type(uint256).max: more than any sum of the model.
Unlimited == 2 * MaxSupply

Zeros == [w \in Wallets |-> 0]

\* What the constructors leave.
TokenInit ==
    /\ totalSupply = 0
    /\ balances = Zeros
    /\ frozen = {}
    /\ paused = FALSE
    /\ linked = FALSE
    /\ mirror = Zeros
    /\ currentHolders = 0
    /\ firstReceived = Zeros
    /\ rules = [blocked |-> {}, enforced |-> RuleNames \ {"cap"}, maxHolders |-> 2000,
                maxPerInvestor |-> Unlimited, holdingPeriod |-> Year]
    /\ verified = {}
    /\ country = [w \in Wallets |-> NoCountry]
    /\ now = 1
    /\ config = 0
    /\ since = Zeros
    /\ lost = {}
    /\ gained = {}
    /\ zeroed = 0
    /\ lifted = {}

-----------------------------------------------------------------------------
(* ModularCompliance.                                                      *)

\* The rules on a recipient that hold for transfers and mints.
Admits(to, amount) ==
    /\ "country" \in rules.enforced => country[to] \notin rules.blocked
    /\ "cap" \in rules.enforced => mirror[to] + amount <= rules.maxPerInvestor

\* canTransfer of a transfer; a mint has no sender and is asked Admits only.
CanTransfer(from, to, amount) ==
    /\ Admits(to, amount)
    /\ "maxHolders" \in rules.enforced /\ mirror[to] = 0 =>
          currentHolders < rules.maxHolders
    /\ "period" \in rules.enforced /\ firstReceived[from] > 0 =>
          now >= firstReceived[from] + rules.holdingPeriod

\* What leaves a wallet, and how many holders fewer that is.
Debit(f, w, amount) == [f EXCEPT ![w] = @ - amount]
Credit(f, w, amount) == [f EXCEPT ![w] = @ + amount]
Vacant(f, w) == IF f[w] = 0 THEN 1 ELSE 0

\* As if the count were decremented unchecked.
MutCanLeave(w, amount) == mirror[w] >= amount

\* The subtractions of transferred() and destroyed() do not go below zero.
CanLeave(w, amount) ==
    /\ mirror[w] >= amount
    /\ currentHolders >= Vacant(Debit(mirror, w, amount), w)

\* As if it were asked before the amount leaves whether the recipient holds.
MutReceive(left, holders, to, amount) ==
    /\ mirror' = Credit(left, to, amount)
    /\ currentHolders' = holders + Vacant(mirror, to)
    /\ firstReceived' = IF left[to] = 0 THEN [firstReceived EXCEPT ![to] = now]
                                        ELSE firstReceived

\* As if the clock were started once and never again.
MutReceiveOnce(left, holders, to, amount) ==
    /\ mirror' = Credit(left, to, amount)
    /\ currentHolders' = holders + Vacant(left, to)
    /\ firstReceived' = IF firstReceived[to] = 0 THEN [firstReceived EXCEPT ![to] = now]
                                                 ELSE firstReceived

\* Holder bookkeeping of a wallet that receives, after what has left.
Receive(left, holders, to, amount) ==
    /\ mirror' = Credit(left, to, amount)
    /\ currentHolders' = holders + Vacant(left, to)
    /\ firstReceived' = IF left[to] = 0 THEN [firstReceived EXCEPT ![to] = now]
                                        ELSE firstReceived

Transferred(from, to, amount) ==
    /\ linked
    /\ CanLeave(from, amount)
    /\ LET left == Debit(mirror, from, amount)
       IN  Receive(left, currentHolders - Vacant(left, from), to, amount)

Created(to, amount) ==
    /\ linked
    /\ Receive(mirror, currentHolders, to, amount)

Destroyed(from, amount) ==
    /\ linked
    /\ CanLeave(from, amount)
    /\ mirror' = Debit(mirror, from, amount)
    /\ currentHolders' = currentHolders - Vacant(mirror', from)
    /\ UNCHANGED firstReceived

-----------------------------------------------------------------------------
(* NBPTSecurityToken.                                                      *)

\* The new balances, and when a wallet came to hold something.
SetBalances(new) ==
    /\ balances' = new
    /\ since' = [w \in Wallets |-> IF balances[w] = 0 /\ new[w] > 0 THEN now ELSE since[w]]

Moves(amount) ==
    IF amount = 0 THEN zeroed < MaxZero /\ zeroed' = zeroed + 1 ELSE UNCHANGED zeroed

\* As if the compliance contract were told of the sender only.
MutTransfer(from, to, amount) ==
    /\ ~paused
    /\ {from, to} \cap frozen = {}
    /\ to \in verified
    /\ CanTransfer(from, to, amount)
    /\ balances[from] >= amount
    /\ SetBalances(Credit(Debit(balances, from, amount), to, amount))
    /\ linked
    /\ CanLeave(from, amount)
    /\ mirror' = Debit(mirror, from, amount)
    /\ currentHolders' = currentHolders - Vacant(mirror', from)
    /\ Moves(amount)
    /\ UNCHANGED <<firstReceived, totalSupply, adminVars, identityVars, recoveryVars, now>>

\* transfer and _transferChecked.
Transfer(from, to, amount) ==
    /\ ~paused
    /\ {from, to} \cap frozen = {}
    /\ to \in verified
    /\ CanTransfer(from, to, amount)
    /\ balances[from] >= amount
    /\ SetBalances(Credit(Debit(balances, from, amount), to, amount))
    /\ Transferred(from, to, amount)
    /\ Moves(amount)
    /\ UNCHANGED <<totalSupply, adminVars, identityVars, recoveryVars, now>>

Mint(to, amount) ==
    /\ ~paused
    /\ to \in verified
    /\ Admits(to, amount)
    /\ totalSupply + amount <= MaxSupply
    /\ totalSupply' = totalSupply + amount
    /\ SetBalances(Credit(balances, to, amount))
    /\ Created(to, amount)
    /\ Moves(amount)
    /\ UNCHANGED <<adminVars, identityVars, recoveryVars, now>>

\* Neither pause nor the compliance rules are asked.
Burn(from, amount) ==
    /\ balances[from] >= amount
    /\ totalSupply >= amount
    /\ SetBalances(Debit(balances, from, amount))
    /\ totalSupply' = totalSupply - amount
    /\ Destroyed(from, amount)
    /\ Moves(amount)
    /\ UNCHANGED <<adminVars, identityVars, recoveryVars, now>>

\* As if the new balance were computed before the old one is cleared.
MutRecovered(from, to) ==
    [balances EXCEPT ![from] = 0, ![to] = balances[to] + balances[from]]

\* The two assignments of recoveryAddress, in their order: a recovery to the
\* same wallet keeps its balance.
Recovered(from, to) == Credit([balances EXCEPT ![from] = 0], to, balances[from])

\* The compliance contract is neither asked nor told.
RecoveryAddress(lostWallet, newWallet) ==
    /\ newWallet \in verified
    /\ balances[lostWallet] > 0
    /\ SetBalances(Recovered(lostWallet, newWallet))
    /\ frozen' = frozen \union {lostWallet}
    /\ lost' = lost \union {lostWallet}
    /\ gained' = gained \union {newWallet}
    /\ UNCHANGED <<totalSupply, holderVars, paused, linked, rules, config, lifted,
                   identityVars, now, zeroed>>

-----------------------------------------------------------------------------
(* Configuration.                                                          *)

Configures ==
    /\ config < MaxConfig
    /\ config' = config + 1
    /\ UNCHANGED <<supplyVars, holderVars, identityVars, recoveryVars, now, zeroed>>

\* batchSetAddressFrozen is a sequence of these.
SetAddressFrozen(w, freeze) ==
    /\ frozen' = IF freeze THEN frozen \union {w} ELSE frozen \ {w}
    /\ UNCHANGED <<paused, linked, rules, lifted>>

SetPaused(pause) ==
    /\ paused' = pause
    /\ UNCHANGED <<frozen, linked, rules, lifted>>

BlockCountry(c) ==
    /\ rules' = [rules EXCEPT !.blocked = @ \union {c}]
    /\ UNCHANGED <<frozen, paused, linked, lifted>>

UnblockCountry(c) ==
    /\ rules' = [rules EXCEPT !.blocked = @ \ {c}]
    /\ lifted' = lifted \union {c}
    /\ UNCHANGED <<frozen, paused, linked>>

\* setMaxHolders, setMaxPerInvestor, setHoldingPeriod, setEnforce...
SetRule ==
    /\ \/ \E n \in Limits : \/ rules' = [rules EXCEPT !.maxHolders = n]
                           \/ rules' = [rules EXCEPT !.maxPerInvestor = n]
                           \/ rules' = [rules EXCEPT !.holdingPeriod = n]
       \/ \E r \in RuleNames : \/ rules' = [rules EXCEPT !.enforced = @ \union {r}]
                              \/ rules' = [rules EXCEPT !.enforced = @ \ {r}]
    /\ UNCHANGED <<frozen, paused, linked, lifted>>

\* The compliance contract is pointed at another address, at which the token's
\* calls of it revert.
Unlink ==
    /\ linked
    /\ linked' = FALSE
    /\ UNCHANGED <<frozen, paused, rules, lifted>>

Configure ==
    /\ Configures
    /\ \/ \E w \in Wallets, freeze \in BOOLEAN : SetAddressFrozen(w, freeze)
       \/ \E pause \in BOOLEAN : SetPaused(pause)
       \/ \E c \in Countries : BlockCountry(c) \/ UnblockCountry(c)
       \/ SetRule
       \/ Unlink

\* setTokenAddress with the token, by hand.
Link ==
    /\ linked' = TRUE
    /\ UNCHANGED <<supplyVars, holderVars, frozen, paused, rules, config, lifted,
                   identityVars, recoveryVars, now, zeroed>>

Identifies(w, c, isVerified) ==
    /\ country' = [country EXCEPT ![w] = c]
    /\ verified' = IF isVerified THEN verified \union {w} ELSE verified \ {w}
    /\ UNCHANGED <<supplyVars, holderVars, frozen, paused, linked, rules, lifted,
                   recoveryVars, now, zeroed>>

\* A new wallet is registered, with an accreditation.
RegisterIdentity(w, c) ==
    /\ country[w] = NoCountry
    /\ w \notin verified
    /\ Identifies(w, c, TRUE)
    /\ UNCHANGED config

\* Country and accreditation change; the identity is deleted or comes back.
ChangeIdentity(w, c, isVerified) ==
    /\ config < MaxConfig
    /\ config' = config + 1
    /\ Identifies(w, c, isVerified)

Tick ==
    /\ now < MaxTime
    /\ now' = now + 1
    /\ UNCHANGED <<supplyVars, holderVars, adminVars, identityVars, recoveryVars, zeroed>>

\* Calls that agents and the owner send.
Administer ==
    \/ \E w \in Wallets, amount \in 0 .. MaxSupply : Mint(w, amount) \/ Burn(w, amount)
    \/ \E lostWallet, newWallet \in Wallets : RecoveryAddress(lostWallet, newWallet)
    \/ Configure
    \/ Link
=============================================================================
