-------------------------- MODULE DeploymentProofs --------------------------
(***************************************************************************)
(* Theorems about the deployment and the token it leaves behind, for any   *)
(* number of wallets, any amounts, limits and times.                       *)
(*                                                                         *)
(* Four kinds of transactions move amounts (StepCases); what the two       *)
(* contracts say of each other (MirrorFollows), the holding clocks         *)
(* (ClockInv) and the count of holders are preserved by each of them.      *)
(* MempoolInv and OrderInv say in which order the script's transactions    *)
(* are mined.                                                              *)
(***************************************************************************)
EXTENDS Deployment, SequenceTheorems, FiniteSetTheorems, TLAPS

amountVars == <<totalSupply, balances, since, mirror, currentHolders, firstReceived,
                lost, gained, zeroed>>

\* A step moves an amount, or leaves every amount alone.
LEMMA StepCases ==
  ASSUME [Next]_vars
  PROVE  \/ \E from, to \in Wallets, amount \in 0 .. MaxSupply : Transfer(from, to, amount)
         \/ \E w \in Wallets, amount \in 0 .. MaxSupply : Mint(w, amount)
         \/ \E w \in Wallets, amount \in 0 .. MaxSupply : Burn(w, amount)
         \/ \E lostWallet, newWallet \in Wallets : RecoveryAddress(lostWallet, newWallet)
         \/ UNCHANGED amountVars
<1> USE DEF amountVars, supplyVars, holderVars, recoveryVars, tokenVars
<1>1. CASE Deploy \/ SendSetter \/ Raises \/ Mine \/ Drop
  BY <1>1 DEF Deploy, SendSetter, Raises, Mine, Drop
<1>2. CASE Administered
  <2>1. CASE Configure \/ Link
    BY <2>1 DEF Configure, Configures, Link
  <2> QED BY <1>2, <2>1 DEF Administered, Administer
<1>3. CASE Others
  BY <1>3 DEF Others, RegisterIdentity, ChangeIdentity, Identifies, Tick
<1>4. CASE UNCHANGED vars
  BY <1>4 DEF vars
<1> QED BY <1>1, <1>2, <1>3, <1>4 DEF Next

-----------------------------------------------------------------------------
(* Type correctness.                                                       *)

LEMMA DebitType ==
  ASSUME NEW f \in [Wallets -> Nat], NEW w \in Wallets, NEW amount \in Nat, f[w] >= amount
  PROVE  /\ Debit(f, w, amount) \in [Wallets -> Nat]
         /\ Debit(f, w, amount)[w] = f[w] - amount
         /\ \A v \in Wallets \ {w} : Debit(f, w, amount)[v] = f[v]
<1>1. f[w] - amount \in Nat
  OBVIOUS
<1> QED BY <1>1 DEF Debit

LEMMA CreditType ==
  ASSUME NEW f \in [Wallets -> Nat], NEW w \in Wallets, NEW amount \in Nat
  PROVE  /\ Credit(f, w, amount) \in [Wallets -> Nat]
         /\ Credit(f, w, amount)[w] = f[w] + amount
         /\ \A v \in Wallets \ {w} : Credit(f, w, amount)[v] = f[v]
<1>1. f[w] + amount \in Nat
  OBVIOUS
<1> QED BY <1>1 DEF Credit

LEMMA VacantType == \A f, w : Vacant(f, w) \in {0, 1}
BY DEF Vacant

\* A recovery to the same wallet changes nothing.
LEMMA RecoveredType ==
  ASSUME TokenTypeOK, NEW from \in Wallets, NEW to \in Wallets
  PROVE  /\ Recovered(from, to) \in [Wallets -> Nat]
         /\ from # to => /\ Recovered(from, to)[from] = 0
                         /\ Recovered(from, to)[to] = balances[to] + balances[from]
         /\ from = to => Recovered(from, to)[from] = balances[from]
         /\ \A w \in Wallets \ {from, to} : Recovered(from, to)[w] = balances[w]
<1>1. balances \in [Wallets -> Nat] /\ balances[from] \in Nat /\ balances[to] \in Nat
  BY DEF TokenTypeOK
<1> DEFINE cleared == [balances EXCEPT ![from] = 0]
<1>2. /\ cleared \in [Wallets -> Nat] /\ cleared[from] = 0
      /\ \A w \in Wallets \ {from} : cleared[w] = balances[w]
  BY <1>1
<1>3. Recovered(from, to) = Credit(cleared, to, balances[from])
  BY DEF Recovered
<1> HIDE DEF cleared
<1>4. /\ Recovered(from, to) \in [Wallets -> Nat]
      /\ Recovered(from, to)[to] = cleared[to] + balances[from]
      /\ \A w \in Wallets \ {to} : Recovered(from, to)[w] = cleared[w]
  BY <1>1, <1>2, <1>3, CreditType
<1>5. CASE from = to
  BY <1>1, <1>2, <1>4, <1>5
<1>6. CASE from # to
  BY <1>1, <1>2, <1>4, <1>6
<1> QED BY <1>5, <1>6

LEMMA SinceType ==
  ASSUME TokenTypeOK, NEW new \in [Wallets -> Nat], SetBalances(new)
  PROVE  /\ balances' \in [Wallets -> Nat]
         /\ since' \in [Wallets -> 0 .. MaxTime]
<1>1. now \in 0 .. MaxTime
  BY TokenAssumption DEF TokenTypeOK
<1>2. \A w \in Wallets :
         (IF balances[w] = 0 /\ new[w] > 0 THEN now ELSE since[w]) \in 0 .. MaxTime
  BY <1>1 DEF TokenTypeOK
<1> QED BY <1>2 DEF SetBalances

LEMMA ReceiveType ==
  ASSUME TokenTypeOK, NEW left \in [Wallets -> Nat], NEW holders \in Nat,
         NEW to \in Wallets, NEW amount \in Nat, Receive(left, holders, to, amount)
  PROVE  /\ mirror' \in [Wallets -> Nat]
         /\ currentHolders' \in Nat
         /\ firstReceived' \in [Wallets -> 0 .. MaxTime]
<1>1. now \in 0 .. MaxTime
  BY TokenAssumption DEF TokenTypeOK
<1>2. Credit(left, to, amount) \in [Wallets -> Nat]
  BY CreditType
<1>3. holders + Vacant(left, to) \in Nat
  BY VacantType
<1> QED BY <1>1, <1>2, <1>3 DEF Receive, TokenTypeOK

\* What leaves a wallet leaves natural numbers behind.
LEMMA LeaveType ==
  ASSUME TokenTypeOK, NEW w \in Wallets, NEW amount \in Nat, CanLeave(w, amount)
  PROVE  /\ Debit(mirror, w, amount) \in [Wallets -> Nat]
         /\ currentHolders - Vacant(Debit(mirror, w, amount), w) \in Nat
<1>1. Debit(mirror, w, amount) \in [Wallets -> Nat]
  BY DebitType DEF CanLeave, TokenTypeOK
<1>2. Vacant(Debit(mirror, w, amount), w) \in {0, 1}
  BY VacantType
<1> QED BY <1>1, <1>2 DEF CanLeave, TokenTypeOK

LEMMA MovesType ==
  ASSUME TokenTypeOK, NEW amount, Moves(amount)
  PROVE  zeroed' \in 0 .. MaxZero
BY TokenAssumption DEF TokenTypeOK, Moves

LEMMA TypeTransfer ==
  ASSUME TokenTypeOK, NEW from \in Wallets, NEW to \in Wallets, NEW amount \in 0 .. MaxSupply,
         Transfer(from, to, amount)
  PROVE  TokenTypeOK'
<1>0. amount \in Nat
  BY TokenAssumption
<1>1. Credit(Debit(balances, from, amount), to, amount) \in [Wallets -> Nat]
  <2>1. Debit(balances, from, amount) \in [Wallets -> Nat]
    BY <1>0, DebitType DEF Transfer, TokenTypeOK
  <2> QED BY <1>0, <2>1, CreditType
<1>2. balances' \in [Wallets -> Nat] /\ since' \in [Wallets -> 0 .. MaxTime]
  BY <1>1, SinceType DEF Transfer
<1>3. /\ mirror' \in [Wallets -> Nat]
      /\ currentHolders' \in Nat
      /\ firstReceived' \in [Wallets -> 0 .. MaxTime]
  <2>1. CanLeave(from, amount)
    BY DEF Transfer, Transferred
  <2>2. /\ Debit(mirror, from, amount) \in [Wallets -> Nat]
        /\ currentHolders - Vacant(Debit(mirror, from, amount), from) \in Nat
    BY <1>0, <2>1, LeaveType
  <2>3. Receive(Debit(mirror, from, amount),
                currentHolders - Vacant(Debit(mirror, from, amount), from), to, amount)
    BY DEF Transfer, Transferred
  <2> QED BY <1>0, <2>2, <2>3, ReceiveType
<1>4. zeroed' \in 0 .. MaxZero
  BY MovesType DEF Transfer
<1> QED BY <1>2, <1>3, <1>4 DEF Transfer, TokenTypeOK, adminVars, identityVars, recoveryVars

LEMMA TypeMint ==
  ASSUME TokenTypeOK, NEW to \in Wallets, NEW amount \in 0 .. MaxSupply, Mint(to, amount)
  PROVE  TokenTypeOK'
<1>0. amount \in Nat /\ totalSupply' \in 0 .. MaxSupply
  BY TokenAssumption DEF Mint, TokenTypeOK
<1>1. Credit(balances, to, amount) \in [Wallets -> Nat]
  BY <1>0, CreditType DEF TokenTypeOK
<1>2. balances' \in [Wallets -> Nat] /\ since' \in [Wallets -> 0 .. MaxTime]
  BY <1>1, SinceType DEF Mint
<1>3. /\ mirror' \in [Wallets -> Nat]
      /\ currentHolders' \in Nat
      /\ firstReceived' \in [Wallets -> 0 .. MaxTime]
  BY <1>0, ReceiveType DEF Mint, Created, TokenTypeOK
<1>4. zeroed' \in 0 .. MaxZero
  BY MovesType DEF Mint
<1> QED BY <1>0, <1>2, <1>3, <1>4 DEF Mint, TokenTypeOK, adminVars, identityVars, recoveryVars

LEMMA TypeBurn ==
  ASSUME TokenTypeOK, NEW from \in Wallets, NEW amount \in 0 .. MaxSupply, Burn(from, amount)
  PROVE  TokenTypeOK'
<1>0. amount \in Nat /\ totalSupply' \in 0 .. MaxSupply
  BY TokenAssumption DEF Burn, TokenTypeOK
<1>1. Debit(balances, from, amount) \in [Wallets -> Nat]
  BY <1>0, DebitType DEF Burn, TokenTypeOK
<1>2. balances' \in [Wallets -> Nat] /\ since' \in [Wallets -> 0 .. MaxTime]
  BY <1>1, SinceType DEF Burn
<1>3. /\ mirror' \in [Wallets -> Nat]
      /\ currentHolders' \in Nat
      /\ firstReceived' \in [Wallets -> 0 .. MaxTime]
  BY <1>0, LeaveType DEF Burn, Destroyed, TokenTypeOK
<1>4. zeroed' \in 0 .. MaxZero
  BY MovesType DEF Burn
<1> QED BY <1>0, <1>2, <1>3, <1>4 DEF Burn, TokenTypeOK, adminVars, identityVars, recoveryVars

LEMMA TypeRecovery ==
  ASSUME TokenTypeOK, NEW lostWallet \in Wallets, NEW newWallet \in Wallets,
         RecoveryAddress(lostWallet, newWallet)
  PROVE  TokenTypeOK'
<1>1. balances' \in [Wallets -> Nat] /\ since' \in [Wallets -> 0 .. MaxTime]
  BY RecoveredType, SinceType DEF RecoveryAddress
<1> QED BY <1>1 DEF RecoveryAddress, TokenTypeOK, holderVars, identityVars

LEMMA RulesType ==
  ASSUME TokenTypeOK, SetRule \/ \E c \in Countries : BlockCountry(c) \/ UnblockCountry(c)
  PROVE  rules' \in Rules
<1>1. rules \in Rules
  BY DEF TokenTypeOK
<1>2. CASE \E c \in Countries : BlockCountry(c) \/ UnblockCountry(c)
  BY <1>1, <1>2 DEF BlockCountry, UnblockCountry, Rules
<1>3. CASE \E n \in Limits : \/ rules' = [rules EXCEPT !.maxHolders = n]
                           \/ rules' = [rules EXCEPT !.maxPerInvestor = n]
                           \/ rules' = [rules EXCEPT !.holdingPeriod = n]
  BY <1>1, <1>3, TokenAssumption DEF Rules
<1>4. CASE \E r \in RuleNames : \/ rules' = [rules EXCEPT !.enforced = @ \union {r}]
                              \/ rules' = [rules EXCEPT !.enforced = @ \ {r}]
  BY <1>1, <1>4 DEF Rules
<1> QED BY <1>2, <1>3, <1>4 DEF SetRule

LEMMA TypeConfigure ==
  ASSUME TokenTypeOK, Configure
  PROVE  TokenTypeOK'
<1>1. config' \in 0 .. MaxConfig
  BY TokenAssumption DEF Configure, Configures, TokenTypeOK
<1>2. /\ frozen' \subseteq Wallets /\ {paused', linked'} \subseteq BOOLEAN
      /\ rules' \in Rules /\ lifted' \subseteq Countries
  <2>1. CASE \E w \in Wallets, freeze \in BOOLEAN : SetAddressFrozen(w, freeze)
    BY <2>1 DEF SetAddressFrozen, TokenTypeOK
  <2>2. CASE \E pause \in BOOLEAN : SetPaused(pause)
    BY <2>2 DEF SetPaused, TokenTypeOK
  <2>3. CASE \E c \in Countries : BlockCountry(c) \/ UnblockCountry(c)
    BY <2>3, RulesType DEF BlockCountry, UnblockCountry, TokenTypeOK
  <2>4. CASE SetRule
    BY <2>4, RulesType DEF SetRule, TokenTypeOK
  <2>5. CASE Unlink
    BY <2>5 DEF Unlink, TokenTypeOK
  <2> QED BY <2>1, <2>2, <2>3, <2>4, <2>5 DEF Configure
<1> QED BY <1>1, <1>2
    DEF Configure, Configures, TokenTypeOK, supplyVars, holderVars, identityVars, recoveryVars

LEMMA TypeLink ==
  ASSUME TokenTypeOK, Link
  PROVE  TokenTypeOK'
BY DEF Link, TokenTypeOK, supplyVars, holderVars, identityVars, recoveryVars

LEMMA TypeIdentifies ==
  ASSUME TokenTypeOK, NEW w \in Wallets, NEW c \in Countries, NEW ok \in BOOLEAN,
         Identifies(w, c, ok), config' \in 0 .. MaxConfig
  PROVE  TokenTypeOK'
BY DEF Identifies, TokenTypeOK, supplyVars, holderVars, recoveryVars

LEMMA TypeStep == TypeOK /\ [Next]_vars => TypeOK'
<1> SUFFICES ASSUME TypeOK, [Next]_vars PROVE TypeOK'
  OBVIOUS
<1>0. TokenTypeOK
  BY DEF TypeOK
<1>1. CASE Deploy \/ SendSetter \/ Raises \/ Drop
  <2>1. TokenTypeOK'
    BY <1>0, <1>1 DEF Deploy, SendSetter, Raises, Drop, tokenVars, supplyVars, holderVars,
                      adminVars, identityVars, recoveryVars, TokenTypeOK
  <2>2. /\ step' \in Failed .. Complete /\ deployed' \in 0 .. 4 /\ dropped' \in BOOLEAN
    <3>1. step \in 0 .. 9 /\ deployed \in 0 .. 4 /\ dropped \in BOOLEAN
      BY DEF TypeOK, Failed, Complete
    <3>2. CASE Deploy
      BY <3>1, <3>2 DEF Deploy, Contracts, Failed, Complete
    <3>3. CASE SendSetter
      BY <3>1, <3>3 DEF SendSetter, SetterSteps, Failed, Complete
    <3>4. CASE Raises
      BY <3>1, <3>4 DEF Raises, Contracts, Failed, Complete
    <3>5. CASE Drop
      BY <3>1, <3>5 DEF Drop, Failed, Complete
    <3> QED BY <1>1, <3>2, <3>3, <3>4, <3>5
  <2>3. pending' \in Seq(SetterSteps)
    <3>1. pending \in Seq(SetterSteps)
      BY DEF TypeOK
    <3>2. CASE Drop
      <4>1. PICK i \in DOMAIN pending : pending' = SubSeq(pending, 1, i - 1)
        BY <3>2 DEF Drop
      <4>2. i \in 1 .. Len(pending) /\ Len(pending) \in Nat
        BY <3>1, <4>1
      <4>3. i - 1 \in 1 - 1 .. Len(pending)
        BY <4>2
      <4> QED BY <3>1, <4>1, <4>2, <4>3, SubSeqProperties
    <3> QED BY <1>1, <3>1, <3>2 DEF Deploy, SendSetter, Raises
  <2> QED BY <2>1, <2>2, <2>3 DEF TypeOK
<1>2. CASE Mine
  <2>1. Head(pending) \in SetterSteps /\ Tail(pending) \in Seq(SetterSteps)
    BY <1>2 DEF Mine, TypeOK
  <2>2. linked' \in BOOLEAN
    BY <1>0, <1>2 DEF Mine, Effect, TokenTypeOK
  <2>3. rules' \in Rules
    <3>1. rules \in Rules /\ 2000 \in Nat /\ Year \in Nat /\ Ofac \subseteq Countries
      BY <1>0, TokenAssumption, DeploymentAssumption DEF TokenTypeOK
    <3>2. Head(pending) \in {5, 6, 7, 8}
      BY <2>1 DEF SetterSteps
    <3>3. CASE Head(pending) = 5
      BY <1>2, <3>1, <3>3 DEF Mine, Effect
    <3>4. CASE Head(pending) = 6
      <4>1. rules' = [rules EXCEPT !.blocked = @ \union Ofac]
        BY <1>2, <3>4 DEF Mine, Effect
      <4> QED BY <3>1, <4>1 DEF Rules
    <3>5. CASE Head(pending) = 7
      <4>1. rules' = [rules EXCEPT !.maxHolders = 2000]
        BY <1>2, <3>5 DEF Mine, Effect
      <4> QED BY <3>1, <4>1 DEF Rules
    <3>6. CASE Head(pending) = 8
      BY <1>2, <3>1, <3>6 DEF Mine, Effect, Rules
    <3> QED BY <3>2, <3>3, <3>4, <3>5, <3>6
  <2> QED BY <1>0, <1>2, <2>1, <2>2, <2>3
      DEF Mine, TypeOK, TokenTypeOK, supplyVars, holderVars, identityVars, recoveryVars
<1>3. CASE Administered
  <2>1. UNCHANGED scriptVars /\ Administer
    BY <1>3 DEF Administered
  <2>2. TokenTypeOK'
    BY <1>0, <2>1, TypeMint, TypeBurn, TypeRecovery, TypeConfigure, TypeLink DEF Administer
  <2> QED BY <2>1, <2>2 DEF TypeOK, scriptVars
<1>4. CASE Others
  <2>0. UNCHANGED scriptVars
    BY <1>4 DEF Others
  <2>1. CASE \E from, to \in Wallets, amount \in 0 .. MaxSupply : Transfer(from, to, amount)
    BY <1>0, <2>0, <2>1, TypeTransfer DEF TypeOK, scriptVars
  <2>2. CASE \E w \in Wallets, c \in Countries : RegisterIdentity(w, c)
    <3>1. TokenTypeOK'
      BY <1>0, <2>2, TypeIdentifies DEF RegisterIdentity, TokenTypeOK
    <3> QED BY <2>0, <3>1 DEF TypeOK, scriptVars
  <2>3. CASE \E w \in Wallets, c \in Countries, ok \in BOOLEAN : ChangeIdentity(w, c, ok)
    <3>1. config' \in 0 .. MaxConfig
      BY <1>0, <2>3, TokenAssumption DEF ChangeIdentity, TokenTypeOK
    <3>2. TokenTypeOK'
      BY <1>0, <2>3, <3>1, TypeIdentifies DEF ChangeIdentity
    <3> QED BY <2>0, <3>2 DEF TypeOK, scriptVars
  <2>4. CASE Tick
    <3>1. now' \in 1 .. MaxTime
      BY <1>0, <2>4, TokenAssumption DEF Tick, TokenTypeOK
    <3> QED BY <1>0, <2>0, <2>4, <3>1
        DEF Tick, TypeOK, TokenTypeOK, scriptVars, supplyVars, holderVars, adminVars,
            identityVars, recoveryVars
  <2> QED BY <1>4, <2>1, <2>2, <2>3, <2>4 DEF Others
<1>5. CASE UNCHANGED vars
  BY <1>5 DEF vars, tokenVars, scriptVars, supplyVars, holderVars, adminVars, identityVars,
              recoveryVars, TypeOK, TokenTypeOK
<1> QED BY <1>1, <1>2, <1>3, <1>4, <1>5 DEF Next

LEMMA TypeInitially == Init => TypeOK
<1> SUFFICES ASSUME Init PROVE TypeOK
  OBVIOUS
<1>1. 0 \in 0 .. MaxSupply /\ 0 \in 0 .. MaxTime /\ 1 \in 1 .. MaxTime /\ 0 \in 0 .. MaxConfig
      /\ 0 \in 0 .. MaxZero
  BY TokenAssumption
<1>2. rules \in Rules
  BY TokenAssumption DEF Init, TokenInit, Rules, RuleNames, Unlimited
<1>3. Zeros \in [Wallets -> Nat] /\ Zeros \in [Wallets -> 0 .. MaxTime]
  BY <1>1 DEF Zeros
<1>4. TokenTypeOK
  <2>1. /\ totalSupply \in 0 .. MaxSupply /\ currentHolders \in Nat
        /\ balances \in [Wallets -> Nat] /\ mirror \in [Wallets -> Nat]
        /\ firstReceived \in [Wallets -> 0 .. MaxTime] /\ since \in [Wallets -> 0 .. MaxTime]
        /\ now \in 1 .. MaxTime /\ config \in 0 .. MaxConfig /\ zeroed \in 0 .. MaxZero
    BY <1>1, <1>3 DEF Init, TokenInit
  <2>2. /\ frozen \subseteq Wallets /\ verified \subseteq Wallets
        /\ lost \subseteq Wallets /\ gained \subseteq Wallets /\ lifted \subseteq Countries
        /\ {paused, linked} \subseteq BOOLEAN
    BY DEF Init, TokenInit
  <2>3. country \in [Wallets -> Countries]
    BY TokenAssumption DEF Init, TokenInit
  <2> QED BY <1>2, <2>1, <2>2, <2>3 DEF TokenTypeOK
<1>5. step \in Failed .. Complete /\ deployed \in 0 .. 4
  BY DEF Init, Failed, Complete
<1>7. dropped \in BOOLEAN
  BY DEF Init
<1>6. pending \in Seq(SetterSteps)
  BY DEF Init
<1> QED BY <1>4, <1>5, <1>6, <1>7 DEF TypeOK

\* Every variable of the script, the mempool and the two contracts keeps its
\* type: no counter or balance goes below zero.
THEOREM DeploymentTypeCorrect == Spec => []TypeOK
BY TypeInitially, TypeStep, PTL DEF Spec

-----------------------------------------------------------------------------
(* What a transaction does to the amounts, wallet by wallet.               *)

LEMMA TransferEffect ==
  ASSUME TokenTypeOK, NEW from \in Wallets, NEW to \in Wallets, NEW amount \in 0 .. MaxSupply,
         Transfer(from, to, amount)
  PROVE  /\ amount \in Nat
         /\ \A w \in Wallets \ {from, to} : balances'[w] = balances[w] /\ mirror'[w] = mirror[w]
                                            /\ firstReceived'[w] = firstReceived[w]
         /\ from # to => /\ balances'[from] = balances[from] - amount
                         /\ balances'[to] = balances[to] + amount
                         /\ mirror'[from] = mirror[from] - amount
                         /\ mirror'[to] = mirror[to] + amount
                         /\ firstReceived'[from] = firstReceived[from]
                         /\ firstReceived'[to] = IF mirror[to] = 0 THEN now ELSE firstReceived[to]
         /\ from = to => /\ balances'[from] = balances[from]
                         /\ mirror'[from] = mirror[from]
                         /\ firstReceived'[from] =
                               IF mirror[from] = amount THEN now ELSE firstReceived[from]
         /\ balances[from] >= amount /\ mirror[from] >= amount
         /\ UNCHANGED <<totalSupply, lost, gained, now, linked>> /\ linked
<1>0. amount \in Nat
  BY TokenAssumption
<1> DEFINE b == Debit(balances, from, amount)
           m == Debit(mirror, from, amount)
<1>1. balances[from] >= amount /\ mirror[from] >= amount
  BY DEF Transfer, Transferred, CanLeave
<1>2. /\ b \in [Wallets -> Nat] /\ b[from] = balances[from] - amount
      /\ \A w \in Wallets \ {from} : b[w] = balances[w]
  BY <1>0, <1>1, DebitType DEF TokenTypeOK
<1>3. /\ m \in [Wallets -> Nat] /\ m[from] = mirror[from] - amount
      /\ \A w \in Wallets \ {from} : m[w] = mirror[w]
  BY <1>0, <1>1, DebitType DEF TokenTypeOK
<1>4. balances' = Credit(b, to, amount) /\ mirror' = Credit(m, to, amount)
  BY DEF Transfer, SetBalances, Transferred, Receive
<1>5. firstReceived' = IF m[to] = 0 THEN [firstReceived EXCEPT ![to] = now] ELSE firstReceived
  BY DEF Transfer, Transferred, Receive
<1>6. UNCHANGED <<totalSupply, lost, gained, now, linked>> /\ linked
  BY DEF Transfer, Transferred, recoveryVars, adminVars
<1> HIDE DEF b, m
<1>7. /\ balances'[to] = b[to] + amount
      /\ \A w \in Wallets \ {to} : balances'[w] = b[w]
  BY <1>0, <1>2, <1>4, CreditType
<1>8. /\ mirror'[to] = m[to] + amount
      /\ \A w \in Wallets \ {to} : mirror'[w] = m[w]
  BY <1>0, <1>3, <1>4, CreditType
<1>9. /\ firstReceived'[to] = IF m[to] = 0 THEN now ELSE firstReceived[to]
      /\ \A w \in Wallets \ {to} : firstReceived'[w] = firstReceived[w]
  BY <1>5 DEF TokenTypeOK
<1>10. balances[from] \in Nat /\ mirror[from] \in Nat
  BY DEF TokenTypeOK
<1>11. CASE from = to
  <2>1. balances'[from] = balances[from]
    BY <1>0, <1>2, <1>7, <1>10, <1>11
  <2>2. mirror'[from] = mirror[from]
    BY <1>0, <1>3, <1>8, <1>10, <1>11
  <2>3. m[from] = 0 <=> mirror[from] = amount
    BY <1>0, <1>1, <1>3, <1>10
  <2>4. firstReceived'[from] = IF mirror[from] = amount THEN now ELSE firstReceived[from]
    BY <1>9, <1>11, <2>3
  <2>5. \A w \in Wallets \ {from, to} : balances'[w] = balances[w] /\ mirror'[w] = mirror[w]
                                          /\ firstReceived'[w] = firstReceived[w]
    BY <1>2, <1>3, <1>7, <1>8, <1>9, <1>11
  <2> QED BY <1>0, <1>1, <1>6, <1>11, <2>1, <2>2, <2>4, <2>5
<1>12. CASE from # to
  BY <1>0, <1>1, <1>2, <1>3, <1>6, <1>7, <1>8, <1>9, <1>12
<1> QED BY <1>11, <1>12

LEMMA MintEffect ==
  ASSUME TokenTypeOK, NEW to \in Wallets, NEW amount \in 0 .. MaxSupply, Mint(to, amount)
  PROVE  /\ amount \in Nat
         /\ balances'[to] = balances[to] + amount /\ mirror'[to] = mirror[to] + amount
         /\ firstReceived'[to] = IF mirror[to] = 0 THEN now ELSE firstReceived[to]
         /\ \A w \in Wallets \ {to} : balances'[w] = balances[w] /\ mirror'[w] = mirror[w]
                                      /\ firstReceived'[w] = firstReceived[w]
         /\ UNCHANGED <<lost, gained, now, linked>> /\ linked
<1>0. amount \in Nat
  BY TokenAssumption
<1>1. balances' = Credit(balances, to, amount) /\ mirror' = Credit(mirror, to, amount)
  BY DEF Mint, SetBalances, Created, Receive
<1>2. firstReceived' = IF mirror[to] = 0 THEN [firstReceived EXCEPT ![to] = now] ELSE firstReceived
  BY DEF Mint, Created, Receive
<1>3. UNCHANGED <<lost, gained, now, linked>> /\ linked
  BY DEF Mint, Created, recoveryVars, adminVars
<1>4. balances \in [Wallets -> Nat] /\ mirror \in [Wallets -> Nat]
      /\ firstReceived \in [Wallets -> 0 .. MaxTime]
  BY DEF TokenTypeOK
<1>5. /\ balances'[to] = balances[to] + amount
      /\ \A w \in Wallets \ {to} : balances'[w] = balances[w]
  BY <1>0, <1>1, <1>4, CreditType
<1>6. /\ mirror'[to] = mirror[to] + amount
      /\ \A w \in Wallets \ {to} : mirror'[w] = mirror[w]
  <2>1. /\ Credit(mirror, to, amount)[to] = mirror[to] + amount
        /\ \A w \in Wallets \ {to} : Credit(mirror, to, amount)[w] = mirror[w]
    BY <1>0, <1>4, CreditType
  <2> QED BY <1>1, <2>1
<1>7. /\ firstReceived'[to] = IF mirror[to] = 0 THEN now ELSE firstReceived[to]
      /\ \A w \in Wallets \ {to} : firstReceived'[w] = firstReceived[w]
  BY <1>2, <1>4
<1> QED BY <1>0, <1>3, <1>5, <1>6, <1>7

LEMMA BurnEffect ==
  ASSUME TokenTypeOK, NEW from \in Wallets, NEW amount \in 0 .. MaxSupply, Burn(from, amount)
  PROVE  /\ amount \in Nat
         /\ balances'[from] = balances[from] - amount /\ mirror'[from] = mirror[from] - amount
         /\ balances[from] >= amount /\ mirror[from] >= amount
         /\ \A w \in Wallets \ {from} : balances'[w] = balances[w] /\ mirror'[w] = mirror[w]
         /\ totalSupply' = totalSupply - amount
         /\ UNCHANGED <<firstReceived, lost, gained, now, linked>> /\ linked
<1>0. amount \in Nat
  BY TokenAssumption
<1>1. balances' = Debit(balances, from, amount) /\ mirror' = Debit(mirror, from, amount)
  BY DEF Burn, SetBalances, Destroyed
<1>2. /\ balances[from] >= amount /\ mirror[from] >= amount
      /\ totalSupply' = totalSupply - amount
      /\ UNCHANGED <<firstReceived, lost, gained, now, linked>> /\ linked
  BY DEF Burn, Destroyed, CanLeave, recoveryVars, adminVars
<1>3. balances \in [Wallets -> Nat] /\ mirror \in [Wallets -> Nat]
  BY DEF TokenTypeOK
<1>4. /\ balances'[from] = balances[from] - amount
      /\ \A w \in Wallets \ {from} : balances'[w] = balances[w]
  BY <1>0, <1>1, <1>2, <1>3, DebitType
<1>5. /\ mirror'[from] = mirror[from] - amount
      /\ \A w \in Wallets \ {from} : mirror'[w] = mirror[w]
  BY <1>0, <1>1, <1>2, <1>3, DebitType
<1> QED BY <1>0, <1>2, <1>4, <1>5

LEMMA RecoveryEffect ==
  ASSUME TokenTypeOK, NEW from \in Wallets, NEW to \in Wallets, RecoveryAddress(from, to)
  PROVE  /\ from # to => /\ balances'[from] = 0
                         /\ balances'[to] = balances[to] + balances[from]
         /\ from = to => balances'[from] = balances[from]
         /\ \A w \in Wallets \ {from, to} : balances'[w] = balances[w]
         /\ balances[from] > 0
         /\ lost' = lost \union {from} /\ gained' = gained \union {to}
         /\ UNCHANGED <<totalSupply, mirror, currentHolders, firstReceived, now, linked, zeroed>>
<1>1. balances' = Recovered(from, to)
  BY DEF RecoveryAddress, SetBalances
<1>2. /\ balances[from] > 0
      /\ lost' = lost \union {from} /\ gained' = gained \union {to}
      /\ UNCHANGED <<totalSupply, mirror, currentHolders, firstReceived, now, linked, zeroed>>
  BY DEF RecoveryAddress, holderVars
<1> QED BY <1>1, <1>2, RecoveredType

-----------------------------------------------------------------------------
(* The two contracts' balances.                                            *)

LEMMA MirrorStep == TypeOK /\ MirrorFollows /\ [Next]_vars => MirrorFollows'
<1> SUFFICES ASSUME TypeOK, MirrorFollows, [Next]_vars, NEW w \in Wallets
             PROVE  /\ w \notin lost' => mirror'[w] <= balances'[w]
                    /\ w \notin gained' => balances'[w] <= mirror'[w]
  BY DEF MirrorFollows
<1>0. /\ w \notin lost => mirror[w] <= balances[w]
      /\ w \notin gained => balances[w] <= mirror[w]
      /\ TokenTypeOK /\ mirror[w] \in Nat /\ balances[w] \in Nat
  BY DEF MirrorFollows, TypeOK, TokenTypeOK
<1>1. CASE \E from, to \in Wallets, amount \in 0 .. MaxSupply : Transfer(from, to, amount)
  <2>1. PICK from \in Wallets, to \in Wallets, amount \in 0 .. MaxSupply : Transfer(from, to, amount)
    BY <1>1
  <2>2. lost' = lost /\ gained' = gained /\ amount \in Nat
    BY <1>0, <2>1, TransferEffect
  <2>3. CASE w \notin {from, to} \/ from = to
    BY <1>0, <2>1, <2>2, <2>3, TransferEffect
  <2>4. CASE w = from /\ from # to
    BY <1>0, <2>1, <2>2, <2>4, TransferEffect
  <2>5. CASE w = to /\ from # to
    BY <1>0, <2>1, <2>2, <2>5, TransferEffect
  <2> QED BY <2>3, <2>4, <2>5
<1>2. CASE \E v \in Wallets, amount \in 0 .. MaxSupply : Mint(v, amount)
  BY <1>0, <1>2, MintEffect
<1>3. CASE \E v \in Wallets, amount \in 0 .. MaxSupply : Burn(v, amount)
  BY <1>0, <1>3, BurnEffect
<1>4. CASE \E lostWallet, newWallet \in Wallets : RecoveryAddress(lostWallet, newWallet)
  <2>1. PICK from \in Wallets, to \in Wallets : RecoveryAddress(from, to)
    BY <1>4
  <2>2. balances[from] \in Nat /\ mirror' = mirror
    BY <1>0, <2>1, RecoveryEffect DEF TokenTypeOK
  <2>3. CASE w \notin {from, to}
    BY <1>0, <2>1, <2>2, <2>3, RecoveryEffect
  <2>4. CASE w = from /\ from # to
    BY <1>0, <2>1, <2>2, <2>4, RecoveryEffect
  <2>5. CASE w = to
    BY <1>0, <2>1, <2>2, <2>5, RecoveryEffect
  <2> QED BY <2>3, <2>4, <2>5
<1>5. CASE UNCHANGED amountVars
  BY <1>0, <1>5 DEF amountVars
<1> QED BY <1>1, <1>2, <1>3, <1>4, <1>5, StepCases

\* The compliance contract's balances differ for wallets of a recovery only.
THEOREM DeploymentMirror == Spec => []MirrorFollows
<1>1. Init => MirrorFollows
  BY DEF Init, TokenInit, Zeros, MirrorFollows
<1> QED BY <1>1, TypeInitially, TypeStep, MirrorStep, PTL DEF Spec

-----------------------------------------------------------------------------
(* Holding clocks.                                                         *)

\* The clock of a wallet nothing was recovered from started when it came to
\* hold something, or later.
ClockInv ==
    \A w \in Wallets :
        /\ since[w] <= now
        /\ w \notin lost /\ mirror[w] > 0 => since[w] <= firstReceived[w] /\ firstReceived[w] > 0

LEMMA SinceEffect ==
  ASSUME TokenTypeOK, ClockInv, MirrorFollows, [Next]_vars, NEW w \in Wallets, now' = now,
         \/ \E new : SetBalances(new)
         \/ since' = since
  PROVE  /\ since'[w] <= now
         /\ w \notin lost /\ mirror[w] > 0 => since'[w] = since[w]
<1>1. now \in Nat /\ balances[w] \in Nat /\ mirror[w] \in Nat /\ since[w] <= now
      /\ (w \notin lost => mirror[w] <= balances[w])
  BY DEF TokenTypeOK, ClockInv, MirrorFollows
<1>2. CASE since' = since
  BY <1>1, <1>2
<1>3. CASE \E new : SetBalances(new)
  <2>1. since'[w] = since[w] \/ (since'[w] = now /\ balances[w] = 0)
    BY <1>3 DEF SetBalances
  <2> QED BY <1>1, <2>1
<1> QED BY <1>2, <1>3

LEMMA ClockStep == TypeOK /\ MirrorFollows /\ ClockInv /\ [Next]_vars => ClockInv'
<1> SUFFICES ASSUME TypeOK, MirrorFollows, ClockInv, [Next]_vars, NEW w \in Wallets
             PROVE  /\ since'[w] <= now'
                    /\ w \notin lost' /\ mirror'[w] > 0 =>
                          since'[w] <= firstReceived'[w] /\ firstReceived'[w] > 0
  BY DEF ClockInv
<1>0. /\ since[w] <= now
      /\ w \notin lost /\ mirror[w] > 0 => since[w] <= firstReceived[w] /\ firstReceived[w] > 0
      /\ TokenTypeOK /\ mirror[w] \in Nat /\ balances[w] \in Nat /\ since[w] \in Nat
      /\ firstReceived[w] \in Nat /\ now \in Nat /\ now >= 1
  BY TokenAssumption DEF ClockInv, TypeOK, TokenTypeOK
<1>1. CASE \E from, to \in Wallets, amount \in 0 .. MaxSupply : Transfer(from, to, amount)
  <2>1. PICK from \in Wallets, to \in Wallets, amount \in 0 .. MaxSupply : Transfer(from, to, amount)
    BY <1>1
  <2>2. lost' = lost /\ now' = now /\ amount \in Nat /\ mirror[from] >= amount
    BY <1>0, <2>1, TransferEffect
  <2>3. \E new : SetBalances(new)
    BY <2>1 DEF Transfer
  <2>4. /\ since'[w] <= now
        /\ w \notin lost /\ mirror[w] > 0 => since'[w] = since[w]
    BY <1>0, <2>2, <2>3, SinceEffect
  <2>5. CASE w \notin {from, to}
    BY <1>0, <2>1, <2>2, <2>4, <2>5, TransferEffect
  <2>6. CASE w = from /\ from # to
    BY <1>0, <2>1, <2>2, <2>4, <2>6, TransferEffect
  <2>7. CASE w = to /\ from # to
    BY <1>0, <2>1, <2>2, <2>4, <2>7, TransferEffect
  <2>8. CASE w = from /\ from = to
    BY <1>0, <2>1, <2>2, <2>4, <2>8, TransferEffect
  <2> QED BY <2>5, <2>6, <2>7, <2>8
<1>2. CASE \E v \in Wallets, amount \in 0 .. MaxSupply : Mint(v, amount)
  <2>1. PICK v \in Wallets, amount \in 0 .. MaxSupply : Mint(v, amount)
    BY <1>2
  <2>2. lost' = lost /\ now' = now /\ amount \in Nat
    BY <1>0, <2>1, MintEffect
  <2>3. \E new : SetBalances(new)
    BY <2>1 DEF Mint
  <2>4. /\ since'[w] <= now
        /\ w \notin lost /\ mirror[w] > 0 => since'[w] = since[w]
    BY <1>0, <2>2, <2>3, SinceEffect
  <2>5. CASE w = v
    BY <1>0, <2>1, <2>2, <2>4, <2>5, MintEffect
  <2>6. CASE w # v
    BY <1>0, <2>1, <2>2, <2>4, <2>6, MintEffect
  <2> QED BY <2>5, <2>6
<1>3. CASE \E v \in Wallets, amount \in 0 .. MaxSupply : Burn(v, amount)
  <2>1. PICK v \in Wallets, amount \in 0 .. MaxSupply : Burn(v, amount)
    BY <1>3
  <2>2. /\ lost' = lost /\ now' = now /\ amount \in Nat /\ firstReceived' = firstReceived
        /\ mirror'[w] <= mirror[w]
    BY <1>0, <2>1, BurnEffect
  <2>3. \E new : SetBalances(new)
    BY <2>1 DEF Burn
  <2>4. /\ since'[w] <= now
        /\ w \notin lost /\ mirror[w] > 0 => since'[w] = since[w]
    BY <1>0, <2>2, <2>3, SinceEffect
  <2>5. mirror'[w] > 0 => mirror[w] > 0
    BY <1>0, <2>1, <2>2, BurnEffect
  <2> QED BY <1>0, <2>2, <2>4, <2>5
<1>4. CASE \E lostWallet, newWallet \in Wallets : RecoveryAddress(lostWallet, newWallet)
  <2>1. PICK from \in Wallets, to \in Wallets : RecoveryAddress(from, to)
    BY <1>4
  <2>2. lost \subseteq lost' /\ now' = now /\ mirror' = mirror /\ firstReceived' = firstReceived
    BY <1>0, <2>1, RecoveryEffect
  <2>3. \E new : SetBalances(new)
    BY <2>1 DEF RecoveryAddress
  <2>4. /\ since'[w] <= now
        /\ w \notin lost /\ mirror[w] > 0 => since'[w] = since[w]
    BY <1>0, <2>2, <2>3, SinceEffect
  <2> QED BY <1>0, <2>2, <2>4
<1>5. CASE UNCHANGED amountVars
  <2>1. now' \in Nat /\ now' >= now
    <3>1. CASE Tick
      BY <1>0, <3>1 DEF Tick
    <3>2. CASE ~Tick
      BY <1>0, <3>2 DEF Next, vars, Deploy, SendSetter, Raises, Mine, Drop, Administered, Administer,
           Others, tokenVars, Mint, Burn, Transfer, RecoveryAddress, Configure, Configures, Link,
           RegisterIdentity, ChangeIdentity, Identifies
    <3> QED BY <3>1, <3>2
  <2> QED BY <1>0, <1>5, <2>1 DEF amountVars
<1> QED BY <1>1, <1>2, <1>3, <1>4, <1>5, StepCases

LEMMA ClockAlways == Spec => [](TypeOK /\ MirrorFollows /\ ClockInv)
<1>1. Init => MirrorFollows
  BY DEF Init, TokenInit, Zeros, MirrorFollows
<1>2. Init => ClockInv
  BY DEF Init, TokenInit, Zeros, ClockInv
<1> QED BY <1>1, <1>2, TypeInitially, TypeStep, MirrorStep, ClockStep, PTL DEF Spec

\* A wallet nothing was recovered from sells after its holding period only.
THEOREM DeploymentNoEarlySale == Spec => NoEarlySale
<1>1. TypeOK /\ MirrorFollows /\ ClockInv /\ [Next]_vars =>
        [\A w \in Wallets \ lost' :
          /\ balances'[w] < balances[w]
          /\ totalSupply' = totalSupply
          /\ "period" \in rules.enforced
          => now >= since[w] + rules.holdingPeriod]_vars
  <2> SUFFICES ASSUME TypeOK, MirrorFollows, ClockInv, [Next]_vars, NEW w \in Wallets \ lost',
                      balances'[w] < balances[w], totalSupply' = totalSupply,
                      "period" \in rules.enforced
               PROVE  now >= since[w] + rules.holdingPeriod
    OBVIOUS
  <2>0. /\ TokenTypeOK /\ mirror[w] \in Nat /\ balances[w] \in Nat /\ since[w] \in Nat
        /\ firstReceived[w] \in Nat /\ now \in Nat /\ rules.holdingPeriod \in Nat
        /\ totalSupply \in Nat
    BY TokenAssumption DEF TypeOK, TokenTypeOK, Rules
  <2>1. CASE \E from, to \in Wallets, amount \in 0 .. MaxSupply : Transfer(from, to, amount)
    <3>1. PICK from \in Wallets, to \in Wallets, amount \in 0 .. MaxSupply : Transfer(from, to, amount)
      BY <2>1
    <3>2. w = from /\ from # to /\ amount > 0
      BY <2>0, <3>1, TransferEffect
    <3>3. mirror[w] >= amount /\ lost' = lost /\ amount \in Nat
      BY <2>0, <3>1, <3>2, TransferEffect
    <3>4. since[w] <= firstReceived[w] /\ firstReceived[w] > 0
      BY <2>0, <3>2, <3>3 DEF ClockInv
    <3>5. now >= firstReceived[w] + rules.holdingPeriod
      BY <3>1, <3>2, <3>4 DEF Transfer, CanTransfer
    <3> QED BY <2>0, <3>4, <3>5
  <2>2. CASE \E v \in Wallets, amount \in 0 .. MaxSupply : Mint(v, amount)
    BY <2>0, <2>2, MintEffect
  <2>3. CASE \E v \in Wallets, amount \in 0 .. MaxSupply : Burn(v, amount)
    BY <2>0, <2>3, BurnEffect
  <2>4. CASE \E lostWallet, newWallet \in Wallets : RecoveryAddress(lostWallet, newWallet)
    <3>1. PICK from \in Wallets, to \in Wallets : RecoveryAddress(from, to)
      BY <2>4
    <3>2. balances[from] \in Nat /\ w # from
      BY <2>0, <3>1, RecoveryEffect DEF TokenTypeOK
    <3> QED BY <2>0, <3>1, <3>2, RecoveryEffect
  <2>5. CASE UNCHANGED amountVars
    BY <2>0, <2>5 DEF amountVars
  <2> QED BY <2>1, <2>2, <2>3, <2>4, <2>5, StepCases
<1> QED BY <1>1, ClockAlways, PTL DEF Spec, NoEarlySale

-----------------------------------------------------------------------------
(* Issuing and the order of the script's transactions.                     *)

\* Only a mint makes tokens; it comes when nothing of the script is left to be
\* sent or mined.
LEMMA SupplyCases ==
  ASSUME TypeOK, [Next]_vars
  PROVE  \/ totalSupply' \in Nat /\ totalSupply' <= totalSupply
         \/ ~Running /\ pending = <<>> /\ UNCHANGED scriptVars
<1>0. TokenTypeOK /\ totalSupply \in Nat
  BY TokenAssumption DEF TypeOK, TokenTypeOK
<1> USE DEF tokenVars, supplyVars
<1>1. CASE Deploy \/ SendSetter \/ Raises \/ Mine \/ Drop
  BY <1>0, <1>1 DEF Deploy, SendSetter, Raises, Mine, Drop
<1>2. CASE Administered
  <2>1. CASE \E w \in Wallets, amount \in 0 .. MaxSupply : Mint(w, amount)
    BY <1>2, <2>1 DEF Administered
  <2>2. CASE \E w \in Wallets, amount \in 0 .. MaxSupply : Burn(w, amount)
    <3>1. PICK w \in Wallets, amount \in 0 .. MaxSupply : Burn(w, amount)
      BY <2>2
    <3>2. totalSupply' = totalSupply - amount /\ totalSupply >= amount /\ amount \in Nat
      BY <3>1, TokenAssumption DEF Burn
    <3> QED BY <1>0, <3>2
  <2>3. CASE \E lostWallet, newWallet \in Wallets : RecoveryAddress(lostWallet, newWallet)
    BY <1>0, <2>3 DEF RecoveryAddress
  <2>4. CASE Configure
    BY <1>0, <2>4 DEF Configure, Configures
  <2>5. CASE Link
    BY <1>0, <2>5 DEF Link
  <2> QED BY <1>2, <2>1, <2>2, <2>3, <2>4, <2>5 DEF Administered, Administer
<1>3. CASE Others
  BY <1>0, <1>3 DEF Others, Transfer, RegisterIdentity, ChangeIdentity, Identifies, Tick
<1>4. CASE UNCHANGED vars
  BY <1>0, <1>4 DEF vars
<1> QED BY <1>1, <1>2, <1>3, <1>4 DEF Next

\* Where there are tokens, the script's transactions are mined or lost.
IssuedInv == totalSupply > 0 => ~Running /\ pending = <<>>

\* The configuring transactions are mined in the order they were sent: what
\* waits is the end of what was sent, and once the list of countries is mined
\* it stays in force but for what the owner lifts.
Restricted == Ofac \ lifted \subseteq rules.blocked

MempoolInv ==
    ~dropped /\ step # Failed =>
        /\ Len(pending) = 0 \/ Len(pending) <= step - 5
        /\ \A i \in 1 .. Len(pending) : pending[i] = step - Len(pending) - 1 + i
        /\ step - Len(pending) > 6 => Restricted

\* The script that has ended is not resumed.
LEMMA EndedStays ==
  ASSUME TypeOK, [Next]_vars, ~Running, pending = <<>>
  PROVE  ~Running' /\ pending' = <<>>
<1>1. CASE Deploy \/ SendSetter \/ Raises
  BY <1>1 DEF Deploy, SendSetter, Raises, Running
<1>2. CASE Mine \/ Drop
  BY <1>2 DEF Mine, Drop, TypeOK
<1>3. CASE UNCHANGED scriptVars
  BY <1>3 DEF scriptVars, Running
<1> QED BY <1>1, <1>2, <1>3 DEF Next, Administered, Others, vars

LEMMA IssuedStep == TypeOK /\ IssuedInv /\ [Next]_vars => IssuedInv'
<1> SUFFICES ASSUME TypeOK, IssuedInv, [Next]_vars, totalSupply' > 0
             PROVE  ~Running' /\ pending' = <<>>
  BY DEF IssuedInv
<1>0. totalSupply \in Nat
  BY TokenAssumption DEF TypeOK, TokenTypeOK
<1>1. CASE totalSupply' \in Nat /\ totalSupply' <= totalSupply
  BY <1>0, <1>1, EndedStays DEF IssuedInv
<1>2. CASE ~Running /\ pending = <<>> /\ UNCHANGED scriptVars
  BY <1>2 DEF scriptVars, Running
<1> QED BY <1>1, <1>2, SupplyCases

LEMMA IssuedAlways == Spec => [](TypeOK /\ IssuedInv)
<1>1. Init => IssuedInv
  BY DEF Init, TokenInit, IssuedInv
<1> QED BY <1>1, TypeInitially, TypeStep, IssuedStep, PTL DEF Spec

LEMMA RestrictedStays ==
  ASSUME TypeOK, [Next]_vars, Restricted
  PROVE  Restricted'
<1> USE DEF Restricted, tokenVars, adminVars
<1>0. rules \in Rules
  BY DEF TypeOK, TokenTypeOK
<1>1. CASE Deploy \/ SendSetter \/ Raises \/ Drop
  BY <1>1 DEF Deploy, SendSetter, Raises, Drop
<1>2. CASE Mine
  <2>1. Head(pending) \in {5, 6, 7, 8}
    BY <1>2 DEF Mine, TypeOK, SetterSteps
  <2>2. rules.blocked \subseteq rules'.blocked
    <3>1. CASE Head(pending) = 5
      BY <1>2, <3>1 DEF Mine, Effect
    <3>2. CASE Head(pending) = 6
      <4>1. rules' = [rules EXCEPT !.blocked = @ \union Ofac]
        BY <1>2, <3>2 DEF Mine, Effect
      <4> QED BY <1>0, <4>1 DEF Rules
    <3>3. CASE Head(pending) = 7
      <4>1. rules' = [rules EXCEPT !.maxHolders = 2000]
        BY <1>2, <3>3 DEF Mine, Effect
      <4> QED BY <1>0, <4>1 DEF Rules
    <3>4. CASE Head(pending) = 8
      <4>1. rules' = [rules EXCEPT !.holdingPeriod = Year]
        BY <1>2, <3>4 DEF Mine, Effect
      <4> QED BY <1>0, <4>1 DEF Rules
    <3> QED BY <2>1, <3>1, <3>2, <3>3, <3>4
  <2>3. lifted' = lifted
    BY <1>2 DEF Mine
  <2> QED BY <2>2, <2>3
<1>3. CASE Administered
  <2>1. CASE Configure
    <3>1. CASE \E c \in Countries : BlockCountry(c)
      BY <1>0, <3>1 DEF BlockCountry, Rules
    <3>2. CASE \E c \in Countries : UnblockCountry(c)
      BY <1>0, <3>2 DEF UnblockCountry, Rules
    <3>3. CASE SetRule
      BY <1>0, <3>3 DEF SetRule, Rules
    <3>4. CASE \/ \E w \in Wallets, freeze \in BOOLEAN : SetAddressFrozen(w, freeze)
               \/ \E pause \in BOOLEAN : SetPaused(pause)
               \/ Unlink
      BY <3>4 DEF SetAddressFrozen, SetPaused, Unlink
    <3> QED BY <2>1, <3>1, <3>2, <3>3, <3>4 DEF Configure
  <2>2. CASE Link
    BY <2>2 DEF Link
  <2> QED BY <1>3, <2>1, <2>2 DEF Administered, Administer, Mint, Burn, RecoveryAddress
<1>4. CASE Others
  BY <1>4 DEF Others, Transfer, RegisterIdentity, ChangeIdentity, Identifies, Tick
<1>5. CASE UNCHANGED vars
  BY <1>5 DEF vars
<1> QED BY <1>1, <1>2, <1>3, <1>4, <1>5 DEF Next

LEMMA MempoolStep == TypeOK /\ MempoolInv /\ [Next]_vars => MempoolInv'
<1> SUFFICES ASSUME TypeOK, MempoolInv, [Next]_vars, ~dropped', step' # Failed
             PROVE  /\ Len(pending') = 0 \/ Len(pending') <= step' - 5
                    /\ \A i \in 1 .. Len(pending') : pending'[i] = step' - Len(pending') - 1 + i
                    /\ step' - Len(pending') > 6 => Restricted'
  BY DEF MempoolInv
<1>0. step \in 0 .. 9 /\ pending \in Seq(SetterSteps) /\ Len(pending) \in Nat
  BY DEF TypeOK, Failed, Complete
<1>i. ASSUME ~dropped, step # Failed
      PROVE  /\ Len(pending) = 0 \/ Len(pending) <= step - 5
             /\ \A i \in 1 .. Len(pending) : pending[i] = step - Len(pending) - 1 + i
             /\ step - Len(pending) > 6 => Restricted
  BY <1>i DEF MempoolInv
<1>r. Restricted => Restricted'
  BY RestrictedStays
<1>1. CASE Deploy
  <2>1. ~dropped /\ step # Failed /\ step \in 1 .. 4 /\ step' = step + 1 /\ pending' = pending
    BY <1>1 DEF Deploy, Contracts, Failed
  <2>2. Len(pending) = 0
    BY <1>0, <1>i, <2>1
  <2> QED BY <2>1, <2>2
<1>2. CASE SendSetter
  <2>1. /\ ~dropped /\ step # Failed /\ step \in 5 .. 8 /\ step' = step + 1
        /\ pending' = Append(pending, step)
    BY <1>2 DEF SendSetter, SetterSteps, Failed
  <2>2. /\ Len(pending') = Len(pending) + 1 /\ pending'[Len(pending) + 1] = step
        /\ \A i \in 1 .. Len(pending) : pending'[i] = pending[i]
    BY <1>0, <2>1 DEF SetterSteps
  <2>3. Len(pending') <= step' - 5
    BY <1>0, <1>i, <2>1, <2>2
  <2>4. ASSUME NEW i \in 1 .. Len(pending')
        PROVE  pending'[i] = step' - Len(pending') - 1 + i
    <3>1. CASE i = Len(pending) + 1
      BY <1>0, <2>1, <2>2, <3>1
    <3>2. CASE i # Len(pending) + 1
      <4>1. i \in 1 .. Len(pending)
        BY <1>0, <2>2, <3>2
      <4>2. pending[i] = step - Len(pending) - 1 + i
        BY <1>i, <2>1, <4>1
      <4> QED BY <1>0, <2>1, <2>2, <4>1, <4>2
    <3> QED BY <3>1, <3>2
  <2>5. step' - Len(pending') = step - Len(pending)
    BY <1>0, <2>1, <2>2
  <2> QED BY <1>i, <1>r, <2>1, <2>3, <2>4, <2>5
<1>3. CASE Raises
  BY <1>3 DEF Raises
<1>4. CASE Mine
  <2>1. /\ ~dropped /\ step # Failed /\ step' = step
        /\ pending # <<>> /\ pending' = Tail(pending)
    BY <1>4 DEF Mine
  <2>2. /\ Len(pending) > 0 /\ Len(pending') = Len(pending) - 1
        /\ \A i \in 1 .. Len(pending') : pending'[i] = pending[i + 1]
        /\ Head(pending) = pending[1]
    BY <1>0, <2>1
  <2>3. Head(pending) = step - Len(pending)
    BY <1>0, <1>i, <2>1, <2>2
  <2>4. Len(pending') = 0 \/ Len(pending') <= step' - 5
    BY <1>0, <1>i, <2>1, <2>2
  <2>5. ASSUME NEW i \in 1 .. Len(pending')
        PROVE  pending'[i] = step' - Len(pending') - 1 + i
    <3>1. i + 1 \in 1 .. Len(pending) /\ i \in Nat
      BY <1>0, <2>2
    <3>2. pending[i + 1] = step - Len(pending) - 1 + (i + 1)
      BY <1>i, <2>1, <3>1
    <3> QED BY <1>0, <2>1, <2>2, <3>1, <3>2
  <2>6. ASSUME step' - Len(pending') > 6
        PROVE  Restricted'
    <3>1. CASE step - Len(pending) > 6
      BY <1>i, <1>r, <2>1, <3>1
    <3>2. CASE ~(step - Len(pending) > 6)
      <4>1. Head(pending) = 6
        BY <1>0, <2>1, <2>2, <2>3, <2>6, <3>2
      <4>2. rules' = [rules EXCEPT !.blocked = @ \union Ofac]
        BY <1>4, <4>1 DEF Mine, Effect
      <4>3. rules \in Rules
        BY DEF TypeOK, TokenTypeOK
      <4> QED BY <4>2, <4>3 DEF Rules, Restricted
    <3> QED BY <3>1, <3>2
  <2> QED BY <2>4, <2>5, <2>6
<1>5. CASE Drop
  BY <1>5 DEF Drop
<1>6. CASE UNCHANGED scriptVars
  BY <1>i, <1>r, <1>6 DEF scriptVars
<1> QED BY <1>1, <1>2, <1>3, <1>4, <1>5, <1>6 DEF Next, Administered, Others, vars

\* After a script that reported its end, tokens are issued under the
\* restrictions it sent, though it waited for none of them.
THEOREM DeploymentRestricted == Spec => []RestrictedBeforeIssued
<1>1. Init => MempoolInv
  BY DEF Init, TokenInit, MempoolInv
<1>2. TypeOK /\ IssuedInv /\ MempoolInv => RestrictedBeforeIssued
  BY DEF IssuedInv, MempoolInv, RestrictedBeforeIssued, Restricted, Complete, Failed
<1> QED BY <1>1, <1>2, IssuedAlways, MempoolStep, PTL DEF Spec

\* The owner has changed nothing by hand.
Untouched == config = 0

\* Whatever the script raised at: what waits in the mempool was sent without a
\* gap, up to the call the script is at, and the link comes into force before
\* anything sent after it.
OrderInv ==
    ~dropped =>
        /\ \A i \in 1 .. Len(pending) - 1 : pending[i + 1] = pending[i] + 1
        /\ Running /\ pending # <<>> => pending[Len(pending)] = step - 1
        /\ Untouched /\ pending # <<>> /\ pending[1] # 5 => linked
        /\ Untouched /\ pending = <<>> /\ step \in 6 .. 8 => linked
        /\ Untouched /\ rules.blocked # {} => linked

\* Nothing but the script's own transactions links, blocks or unlinks before
\* the first configuring call.
LEMMA UntouchedStays ==
  ASSUME TypeOK, [Next]_vars, Untouched'
  PROVE  /\ Untouched
         /\ linked => linked'
         /\ ~Mine => rules' = rules
<1>0. config \in Nat
  BY TokenAssumption DEF TypeOK, TokenTypeOK
<1> USE DEF Untouched, tokenVars, adminVars
<1>1. CASE Deploy \/ SendSetter \/ Raises \/ Drop
  BY <1>1 DEF Deploy, SendSetter, Raises, Drop
<1>2. CASE Mine
  BY <1>2 DEF Mine, Effect, TypeOK, TokenTypeOK
<1>3. CASE Administered
  <2>1. ~Configure
    BY <1>0 DEF Configure, Configures
  <2> QED BY <1>3, <2>1 DEF Administered, Administer, Mint, Burn, RecoveryAddress, Link
<1>4. CASE Others
  BY <1>0, <1>4 DEF Others, Transfer, RegisterIdentity, ChangeIdentity, Identifies, Tick
<1>5. CASE UNCHANGED vars
  BY <1>5 DEF vars
<1> QED BY <1>1, <1>2, <1>3, <1>4, <1>5 DEF Next

\* A transaction that is sent continues what waits.
LEMMA OrderSend ==
  ASSUME TypeOK, OrderInv, ~dropped, step \in SetterSteps
  PROVE  LET sent == Append(pending, step)
         IN  /\ sent # <<>> /\ sent[Len(sent)] = step
             /\ \A i \in 1 .. Len(sent) - 1 : sent[i + 1] = sent[i] + 1
             /\ Untouched /\ sent[1] # 5 => linked
<1> DEFINE sent == Append(pending, step)
<1>0. pending \in Seq(SetterSteps) /\ Len(pending) \in Nat /\ step \in 5 .. 8
  BY DEF TypeOK, SetterSteps
<1>1. /\ Len(sent) = Len(pending) + 1 /\ sent[Len(pending) + 1] = step
      /\ \A i \in 1 .. Len(pending) : sent[i] = pending[i]
  BY <1>0
<1>2. Running
  BY DEF Running
<1>3. sent # <<>>
  BY <1>0, <1>1
<1>4. ASSUME NEW i \in 1 .. Len(sent) - 1
      PROVE  sent[i + 1] = sent[i] + 1
  <2>1. i \in 1 .. Len(pending) /\ pending # <<>>
    BY <1>0, <1>1
  <2>2. CASE i = Len(pending)
    <3>1. pending[i] = step - 1
      BY <1>2, <2>1, <2>2 DEF OrderInv
    <3> QED BY <1>0, <1>1, <2>1, <2>2, <3>1
  <2>3. CASE i # Len(pending)
    <3>1. i \in 1 .. Len(pending) - 1 /\ i + 1 \in 1 .. Len(pending)
      BY <1>0, <2>1, <2>3
    <3>2. pending[i + 1] = pending[i] + 1
      BY <3>1 DEF OrderInv
    <3> QED BY <1>1, <2>1, <3>1, <3>2
  <2> QED BY <2>2, <2>3
<1>5. ASSUME Untouched, sent[1] # 5
      PROVE  linked
  <2>1. CASE pending = <<>>
    <3>1. step \in 6 .. 8
      BY <1>0, <1>1, <1>5, <2>1
    <3> QED BY <1>5, <2>1, <3>1 DEF OrderInv
  <2>2. CASE pending # <<>>
    <3>1. 1 \in 1 .. Len(pending)
      BY <1>0, <2>2
    <3>2. sent[1] = pending[1]
      BY <1>1, <3>1
    <3> QED BY <1>5, <2>2, <3>2 DEF OrderInv
  <2> QED BY <2>1, <2>2
<1> HIDE DEF sent
<1>6. sent[Len(sent)] = step
  BY <1>1
<1>7. /\ sent # <<>> /\ sent[Len(sent)] = step
      /\ \A i \in 1 .. Len(sent) - 1 : sent[i + 1] = sent[i] + 1
      /\ Untouched /\ sent[1] # 5 => linked
  BY <1>3, <1>4, <1>5, <1>6
<1> QED BY <1>7 DEF sent

LEMMA OrderStep == TypeOK /\ OrderInv /\ [Next]_vars => OrderInv'
<1> SUFFICES ASSUME TypeOK, OrderInv, [Next]_vars, ~dropped' PROVE OrderInv'
  BY DEF OrderInv
<1>0. /\ step \in 0 .. 9 /\ pending \in Seq(SetterSteps) /\ Len(pending) \in Nat
      /\ linked \in BOOLEAN
  BY DEF TypeOK, TokenTypeOK, Failed, Complete
<1>u. /\ Untouched' => Untouched
      /\ Untouched' /\ linked => linked'
      /\ Untouched' /\ ~Mine => rules' = rules
  BY UntouchedStays
<1>1. CASE Deploy
  <2>1. /\ ~dropped /\ step \in 1 .. 4 /\ step' = step + 1 /\ UNCHANGED <<pending, linked, rules>>
    BY <1>1 DEF Deploy, Contracts, tokenVars, adminVars
  <2>2. pending = <<>>
    <3>1. ASSUME pending # <<>>
          PROVE  FALSE
      <4>1. pending[Len(pending)] \in SetterSteps
        BY <1>0, <3>1
      <4>2. pending[Len(pending)] = step - 1
        BY <2>1, <3>1 DEF OrderInv, Running, Contracts
      <4> QED BY <2>1, <4>1, <4>2 DEF SetterSteps
    <3> QED BY <3>1
  <2>3. step' \notin 6 .. 8
    BY <2>1
  <2> QED BY <1>u, <2>1, <2>2, <2>3 DEF OrderInv
<1>2. CASE SendSetter
  <2>1. /\ ~dropped /\ step \in SetterSteps /\ step' = step + 1
        /\ pending' = Append(pending, step) /\ UNCHANGED <<linked, rules>>
    BY <1>2 DEF SendSetter, tokenVars, adminVars
  <2>2. step' - 1 = step
    BY <1>0, <2>1
  <2>3. /\ pending' # <<>> /\ pending'[Len(pending')] = step
        /\ \A i \in 1 .. Len(pending') - 1 : pending'[i + 1] = pending'[i] + 1
        /\ Untouched /\ pending'[1] # 5 => linked
    BY <2>1, OrderSend
  <2> QED BY <1>u, <2>1, <2>2, <2>3 DEF OrderInv
<1>3. CASE Raises
  <2>1. /\ ~dropped /\ step' = 0 /\ UNCHANGED <<linked, rules>>
    BY <1>3 DEF Raises, Failed, tokenVars, adminVars
  <2>2. ~Running' /\ step' \notin 6 .. 8
    BY <2>1 DEF Running, Contracts, SetterSteps
  <2>3. CASE UNCHANGED pending
    BY <1>u, <2>1, <2>2, <2>3 DEF OrderInv
  <2>4. CASE step \in SetterSteps /\ pending' = Append(pending, step)
    <3>1. /\ \A i \in 1 .. Len(pending') - 1 : pending'[i + 1] = pending'[i] + 1
          /\ Untouched /\ pending'[1] # 5 => linked
          /\ pending' # <<>>
      BY <2>1, <2>4, OrderSend
    <3> QED BY <1>u, <2>1, <2>2, <3>1 DEF OrderInv
  <2> QED BY <1>3, <2>3, <2>4 DEF Raises
<1>4. CASE Mine
  <2>1. /\ ~dropped /\ step' = step /\ pending # <<>> /\ pending' = Tail(pending)
        /\ linked' = (linked \/ Head(pending) = 5)
    BY <1>4 DEF Mine, Effect
  <2>2. /\ Len(pending) > 0 /\ Len(pending') = Len(pending) - 1
        /\ \A i \in 1 .. Len(pending') : pending'[i] = pending[i + 1]
        /\ Head(pending) = pending[1]
    BY <1>0, <2>1
  <2>3. Untouched' => linked'
    BY <1>u, <2>1, <2>2 DEF OrderInv
  <2>4. ASSUME NEW i \in 1 .. Len(pending') - 1
        PROVE  pending'[i + 1] = pending'[i] + 1
    <3>1. /\ i + 1 \in 1 .. Len(pending) - 1 /\ i \in 1 .. Len(pending')
          /\ i + 1 \in 1 .. Len(pending')
      BY <1>0, <2>2
    <3>2. pending[(i + 1) + 1] = pending[i + 1] + 1
      BY <2>1, <3>1 DEF OrderInv
    <3> QED BY <2>2, <3>1, <3>2
  <2>5. ASSUME Running', pending' # <<>>
        PROVE  pending'[Len(pending')] = step' - 1
    <3>1. pending' \in Seq(SetterSteps) /\ Len(pending') > 0
      BY <1>0, <2>1, <2>5
    <3>2. Len(pending') \in 1 .. Len(pending') /\ Len(pending') + 1 = Len(pending)
      BY <1>0, <2>2, <3>1
    <3>3. pending'[Len(pending')] = pending[Len(pending)]
      BY <2>2, <3>2
    <3> QED BY <2>1, <2>5, <3>3 DEF OrderInv, Running
  <2> QED BY <2>3, <2>4, <2>5 DEF OrderInv
<1>5. CASE Drop
  BY <1>5 DEF Drop
<1>6. CASE UNCHANGED scriptVars
  <2>1. ~dropped /\ step' = step /\ pending' = pending /\ (Running' <=> Running)
    BY <1>6 DEF scriptVars, Running
  <2>2. CASE Mine
    BY <1>4, <2>2
  <2> QED BY <1>u, <2>1, <2>2 DEF OrderInv
<1> QED BY <1>1, <1>2, <1>3, <1>4, <1>5, <1>6 DEF Next, Administered, Others, vars

\* However the script ends, what it leaves in force is a beginning of what it
\* meant to send, until the owner or a forgetful mempool comes between.
THEOREM DeploymentConfiguredInOrder == Spec => []ConfiguredInOrder
<1>1. Init => OrderInv
  <2> SUFFICES ASSUME Init PROVE OrderInv
    OBVIOUS
  <2>1. pending = <<>> /\ step = 1 /\ rules.blocked = {}
    BY DEF Init, TokenInit
  <2>2. step \notin 6 .. 8 /\ Len(pending) = 0
    BY <2>1
  <2> QED BY <2>1, <2>2 DEF OrderInv
<1>2. OrderInv => ConfiguredInOrder
  BY DEF OrderInv, ConfiguredInOrder, Untouched
<1> QED BY <1>1, <1>2, TypeInitially, TypeStep, OrderStep, PTL DEF Spec

-----------------------------------------------------------------------------
(* The count of holders.                                                   *)

Holders(f) == {w \in Wallets : f[w] > 0}

LEMMA HoldersFinite ==
  \A f : IsFiniteSet(Holders(f)) /\ Cardinality(Holders(f)) \in Nat
<1> TAKE f
<1>1. Holders(f) \in SUBSET Wallets /\ IsFiniteSet(Wallets)
  BY TokenAssumption DEF Holders
<1>2. IsFiniteSet(Holders(f))
  BY <1>1, FS_Subset
<1> QED BY <1>2, FS_CardinalityType

\* Something that arrives makes a holder of a wallet that had nothing.
LEMMA HoldersCredit ==
  ASSUME NEW f \in [Wallets -> Nat], NEW w \in Wallets, NEW amount \in Nat, amount # 0
  PROVE  Cardinality(Holders(Credit(f, w, amount))) = Cardinality(Holders(f)) + Vacant(f, w)
<1>1. /\ Credit(f, w, amount)[w] = f[w] + amount
      /\ \A v \in Wallets \ {w} : Credit(f, w, amount)[v] = f[v]
  BY CreditType
<1>2. f[w] \in Nat
  OBVIOUS
<1>3. Holders(Credit(f, w, amount)) = Holders(f) \cup {w}
  BY <1>1, <1>2 DEF Holders
<1>4. w \in Holders(f) <=> f[w] # 0
  BY <1>2 DEF Holders
<1>5. IsFiniteSet(Holders(f)) /\ Cardinality(Holders(f)) \in Nat
  BY HoldersFinite
<1>6. Cardinality(Holders(f) \cup {w}) =
        IF w \in Holders(f) THEN Cardinality(Holders(f)) ELSE Cardinality(Holders(f)) + 1
  BY <1>5, FS_AddElement
<1> QED BY <1>3, <1>4, <1>5, <1>6 DEF Vacant

\* Something that leaves ends a holding that it empties.
LEMMA HoldersDebit ==
  ASSUME NEW f \in [Wallets -> Nat], NEW w \in Wallets, NEW amount \in Nat, amount # 0,
         f[w] >= amount
  PROVE  Cardinality(Holders(Debit(f, w, amount)))
            = Cardinality(Holders(f)) - Vacant(Debit(f, w, amount), w)
<1> DEFINE d == Debit(f, w, amount)
<1>1. /\ d[w] = f[w] - amount
      /\ \A v \in Wallets \ {w} : d[v] = f[v]
  BY DebitType
<1>2. f[w] \in Nat /\ w \in Holders(f)
  BY DEF Holders
<1>3. IsFiniteSet(Holders(f)) /\ Cardinality(Holders(f)) \in Nat
  BY HoldersFinite
<1>4. CASE d[w] = 0
  <2>1. Holders(d) = Holders(f) \ {w}
    BY <1>1, <1>4 DEF Holders
  <2>2. Cardinality(Holders(f) \ {w}) =
          IF w \in Holders(f) THEN Cardinality(Holders(f)) - 1 ELSE Cardinality(Holders(f))
    BY <1>3, FS_RemoveElement
  <2> QED BY <1>2, <1>4, <2>1, <2>2 DEF Vacant
<1>5. CASE d[w] # 0
  <2>1. d[w] > 0
    BY <1>1, <1>2, <1>5
  <2>2. Holders(d) = Holders(f)
    BY <1>1, <1>2, <2>1 DEF Holders
  <2> QED BY <1>3, <1>5, <2>2 DEF Vacant
<1> QED BY <1>4, <1>5

LEMMA MovesSomething ==
  ASSUME TokenTypeOK, NEW amount, Moves(amount), zeroed' = 0
  PROVE  zeroed = 0 /\ amount # 0
BY TokenAssumption DEF TokenTypeOK, Moves

LEMMA HoldersStep == TypeOK /\ HoldersAreCounted /\ [Next]_vars => HoldersAreCounted'
<1> SUFFICES ASSUME TypeOK, HoldersAreCounted, [Next]_vars, zeroed' = 0
             PROVE  currentHolders' = Cardinality(Holders(mirror'))
  BY DEF HoldersAreCounted, Holders
<1>0. /\ TokenTypeOK /\ mirror \in [Wallets -> Nat] /\ currentHolders \in Nat
      /\ zeroed = 0 => currentHolders = Cardinality(Holders(mirror))
  BY DEF TypeOK, TokenTypeOK, HoldersAreCounted, Holders
<1>n. \A amount \in 0 .. MaxSupply : amount \in Nat
  BY TokenAssumption
<1>1. CASE \E from, to \in Wallets, amount \in 0 .. MaxSupply : Transfer(from, to, amount)
  <2>1. PICK from \in Wallets, to \in Wallets, amount \in 0 .. MaxSupply : Transfer(from, to, amount)
    BY <1>1
  <2> DEFINE left == Debit(mirror, from, amount)
  <2>2. zeroed = 0 /\ amount # 0 /\ amount \in Nat
    BY <1>0, <1>n, <2>1, MovesSomething DEF Transfer
  <2>3. mirror[from] >= amount
    BY <2>1 DEF Transfer, Transferred, CanLeave
  <2>4. left \in [Wallets -> Nat]
    BY <1>0, <2>2, <2>3, DebitType
  <2>5. Cardinality(Holders(left)) = Cardinality(Holders(mirror)) - Vacant(left, from)
    BY <1>0, <2>2, <2>3, HoldersDebit
  <2>6. /\ mirror' = Credit(left, to, amount)
        /\ currentHolders' = currentHolders - Vacant(left, from) + Vacant(left, to)
    BY <2>1 DEF Transfer, Transferred, Receive
  <2> HIDE DEF left
  <2>7. Cardinality(Holders(Credit(left, to, amount))) = Cardinality(Holders(left)) + Vacant(left, to)
    BY <2>2, <2>4, HoldersCredit
  <2> QED BY <1>0, <2>2, <2>5, <2>6, <2>7
<1>2. CASE \E w \in Wallets, amount \in 0 .. MaxSupply : Mint(w, amount)
  <2>1. PICK w \in Wallets, amount \in 0 .. MaxSupply : Mint(w, amount)
    BY <1>2
  <2>2. zeroed = 0 /\ amount # 0 /\ amount \in Nat
    BY <1>0, <1>n, <2>1, MovesSomething DEF Mint
  <2>3. mirror' = Credit(mirror, w, amount) /\ currentHolders' = currentHolders + Vacant(mirror, w)
    BY <2>1 DEF Mint, Created, Receive
  <2>4. Cardinality(Holders(Credit(mirror, w, amount))) = Cardinality(Holders(mirror)) + Vacant(mirror, w)
    BY <1>0, <2>2, HoldersCredit
  <2> QED BY <1>0, <2>2, <2>3, <2>4
<1>3. CASE \E w \in Wallets, amount \in 0 .. MaxSupply : Burn(w, amount)
  <2>1. PICK w \in Wallets, amount \in 0 .. MaxSupply : Burn(w, amount)
    BY <1>3
  <2>2. zeroed = 0 /\ amount # 0 /\ amount \in Nat
    BY <1>0, <1>n, <2>1, MovesSomething DEF Burn
  <2>3. /\ mirror' = Debit(mirror, w, amount)
        /\ currentHolders' = currentHolders - Vacant(mirror', w)
        /\ mirror[w] >= amount
    BY <2>1 DEF Burn, Destroyed, CanLeave
  <2>4. Cardinality(Holders(Debit(mirror, w, amount)))
           = Cardinality(Holders(mirror)) - Vacant(Debit(mirror, w, amount), w)
    BY <1>0, <2>2, <2>3, HoldersDebit
  <2> QED BY <1>0, <2>2, <2>3, <2>4
<1>4. CASE \E lostWallet, newWallet \in Wallets : RecoveryAddress(lostWallet, newWallet)
  BY <1>0, <1>4, RecoveryEffect
<1>5. CASE UNCHANGED amountVars
  BY <1>0, <1>5 DEF amountVars
<1> QED BY <1>1, <1>2, <1>3, <1>4, <1>5, StepCases

\* The count of holders is the number of holders as long as no amount of zero
\* is moved.
THEOREM DeploymentHolders == Spec => []HoldersAreCounted
<1>1. Init => HoldersAreCounted
  <2> SUFFICES ASSUME Init PROVE currentHolders = Cardinality(Holders(mirror))
    BY DEF HoldersAreCounted, Holders
  <2>1. Holders(mirror) = {} /\ currentHolders = 0
    BY DEF Init, TokenInit, Zeros, Holders
  <2> QED BY <2>1, FS_EmptySet
<1> QED BY <1>1, TypeInitially, TypeStep, HoldersStep, PTL DEF Spec
=============================================================================
