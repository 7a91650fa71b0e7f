---------------------------- MODULE SupplyProofs ----------------------------
(***************************************************************************)
(* Theorem about the token's supply, for any finite number of wallets and  *)
(* any amounts: no transaction makes or loses tokens.                      *)
(*                                                                         *)
(* Total is a fold, a function defined by recursion over finite sets.      *)
(* That the recursion defines something (FoldsExist), and what it gives    *)
(* for a function changed at one argument (SumOfUpdate), is proved from a  *)
(* smallest counterexample: the order of the naturals, and of the subsets  *)
(* of a finite set, is well-founded (WFMin).                               *)
(***************************************************************************)
EXTENDS DeploymentProofs, WellFoundedInduction

-----------------------------------------------------------------------------
(* Smallest counterexamples.                                               *)

\* A set of naturals has a least element.
LEMMA LeastNatural ==
  ASSUME NEW Bad \in SUBSET Nat, Bad # {}
  PROVE  \E n \in Bad : \A m \in Bad : n <= m
<1>1. IsWellFoundedOn(OpToRel(<, Nat), Nat)
  BY NatLessThanWellFounded
<1>2. OpToRel(<, Nat) = {ss \in Nat \X Nat : ss[1] < ss[2]}
  BY DEF OpToRel
<1>3. PICK n \in Bad : \A m \in Bad : <<m, n>> \notin {ss \in Nat \X Nat : ss[1] < ss[2]}
  BY <1>1, <1>2, WFMin
<1>4. \A m \in Bad : ~(m < n)
  BY <1>3
<1> QED BY <1>4

\* A set of subsets of a finite set has one without a proper subset in it.
LEMMA SmallestSubset ==
  ASSUME NEW S, IsFiniteSet(S), NEW Bad \in SUBSET SUBSET S, Bad # {}
  PROVE  \E T \in Bad : \A U \in SUBSET T : U # T => U \notin Bad
<1>1. IsWellFoundedOn(StrictSubsetOrdering(S), FiniteSubsetsOf(S))
  BY FS_StrictSubsetOrderingWellFounded
<1>2. Bad \subseteq FiniteSubsetsOf(S)
  BY FS_FiniteSubsetsOfFinite
<1>3. PICK T \in Bad : \A U \in Bad : <<U, T>> \notin StrictSubsetOrdering(S)
  BY <1>1, <1>2, WFMin
<1> QED BY <1>3 DEF StrictSubsetOrdering

-----------------------------------------------------------------------------
(* The fold behind Total.                                                  *)

Pick(s) == CHOOSE x \in s : TRUE

\* What the fold does with set s when g is what it does with smaller sets.
Folded(f, g, s) == IF s = {} THEN 0 ELSE f[Pick(s)] + g[s \ {Pick(s)}]

\* The sums of f over the sets of its arguments.
Sums(f) == CHOOSE g : g = [s \in SUBSET DOMAIN f |-> Folded(f, g, s)]

\* The fold of the library is the sum over all arguments.
LEMMA TotalIsSum ==
  ASSUME NEW f
  PROVE  Total(f) = Sums(f)[DOMAIN f]
BY DEF Total, FoldFunction, FoldFunctionOnSet, MapThenFoldSet, Sums, Folded, Pick

\* The fold takes an element of the set away.
LEMMA PickIsElement ==
  ASSUME NEW s, s # {}
  PROVE  Pick(s) \in s
BY DEF Pick

UpTo(D, n) == {s \in SUBSET D : Cardinality(s) <= n}

\* Sums over the sets of at most n arguments exist, for every n.
LEMMA FoldsExist ==
  ASSUME NEW f, IsFiniteSet(DOMAIN f), NEW n \in Nat
  PROVE  \E g : g = [s \in UpTo(DOMAIN f, n) |-> Folded(f, g, s)]
<1> DEFINE D == DOMAIN f
           Defines(g, k) == g = [s \in UpTo(D, k) |-> Folded(f, g, s)]
           Bad == {k \in Nat : ~ \E g : Defines(g, k)}
<1>1. \A s \in SUBSET D : IsFiniteSet(s) /\ Cardinality(s) \in Nat
  BY FS_Subset, FS_CardinalityType
<1>2. SUFFICES ASSUME Bad # {} PROVE FALSE
  <2>1. n \notin Bad => \E g : Defines(g, n)
    OBVIOUS
  <2> QED BY <1>2, <2>1
<1>3. PICK k \in Bad : \A m \in Bad : k <= m
  <2>1. Bad \in SUBSET Nat
    OBVIOUS
  <2> HIDE DEF Bad
  <2> QED BY <1>2, <2>1, LeastNatural
<1>4. CASE k = 0
  <2> DEFINE g == [s \in UpTo(D, 0) |-> 0]
  <2>1. UpTo(D, 0) \subseteq {{}}
    BY <1>1, FS_EmptySet DEF UpTo
  <2>2. Defines(g, 0)
    BY <2>1 DEF Folded
  <2> QED BY <1>3, <1>4, <2>2
<1>5. CASE k # 0
  <2>1. k - 1 \in Nat /\ k - 1 \notin Bad
    BY <1>3, <1>5
  <2>2. PICK g : Defines(g, k - 1)
    BY <2>1
  <2> DEFINE h == [s \in UpTo(D, k) |-> Folded(f, g, s)]
  <2>3. UpTo(D, k - 1) \subseteq UpTo(D, k)
    BY <1>1, <2>1 DEF UpTo
  <2>4. \A s \in UpTo(D, k - 1) : h[s] = g[s]
    BY <2>2, <2>3
  <2>5. ASSUME NEW s \in UpTo(D, k), s # {}
        PROVE  s \ {Pick(s)} \in UpTo(D, k - 1)
    <3>1. s \in SUBSET D /\ Cardinality(s) <= k /\ Pick(s) \in s
      BY <2>5, PickIsElement DEF UpTo
    <3>2. Cardinality(s \ {Pick(s)}) = Cardinality(s) - 1
      BY <1>1, <3>1, FS_RemoveElement
    <3> QED BY <1>1, <1>3, <3>1, <3>2 DEF UpTo
  <2>6. \A s \in UpTo(D, k) : Folded(f, g, s) = Folded(f, h, s)
    <3> HIDE DEF h
    <3> QED BY <2>4, <2>5 DEF Folded
  <2>7. h = [s \in UpTo(D, k) |-> Folded(f, h, s)]
    <3>1. h = [s \in UpTo(D, k) |-> Folded(f, g, s)]
      OBVIOUS
    <3> HIDE DEF h
    <3> QED BY <2>6, <3>1
  <2>8. \E x : Defines(x, k)
    <3> HIDE DEF h
    <3> QED BY <2>7
  <2> QED BY <1>3, <2>8
<1> QED BY <1>4, <1>5

\* The recursion that defines the sums.
LEMMA SumsUnfold ==
  ASSUME NEW f, IsFiniteSet(DOMAIN f), NEW s \in SUBSET DOMAIN f
  PROVE  Sums(f)[s] = IF s = {} THEN 0 ELSE f[Pick(s)] + Sums(f)[s \ {Pick(s)}]
<1> DEFINE n == Cardinality(DOMAIN f)
<1>1. n \in Nat
  BY FS_CardinalityType
<1>2. UpTo(DOMAIN f, n) = SUBSET DOMAIN f
  BY FS_Subset DEF UpTo
<1> HIDE DEF n
<1>3. \E g : g = [t \in SUBSET DOMAIN f |-> Folded(f, g, t)]
  <2>1. PICK g : g = [t \in UpTo(DOMAIN f, n) |-> Folded(f, g, t)]
    BY <1>1, FoldsExist
  <2>2. g = [t \in SUBSET DOMAIN f |-> Folded(f, g, t)]
    BY <1>2, <2>1
  <2> QED BY <2>2
<1>4. Sums(f) = [t \in SUBSET DOMAIN f |-> Folded(f, Sums(f), t)]
  BY <1>3 DEF Sums
<1>5. Sums(f)[s] = Folded(f, Sums(f), s)
  BY <1>4
<1> QED BY <1>5 DEF Folded

\* Amounts add up to an amount.
LEMMA SumsAreNat ==
  ASSUME NEW S, IsFiniteSet(S), NEW f \in [S -> Nat], NEW T \in SUBSET S
  PROVE  Sums(f)[T] \in Nat
<1> DEFINE Bad == {U \in SUBSET S : Sums(f)[U] \notin Nat}
<1>1. SUFFICES ASSUME Bad # {} PROVE FALSE
  OBVIOUS
<1>2. PICK U \in Bad : \A V \in SUBSET U : V # U => V \notin Bad
  <2>1. Bad \in SUBSET SUBSET S
    OBVIOUS
  <2> HIDE DEF Bad
  <2> QED BY <1>1, <2>1, SmallestSubset
<1>3. Sums(f)[U] = IF U = {} THEN 0 ELSE f[Pick(U)] + Sums(f)[U \ {Pick(U)}]
  BY SumsUnfold
<1>4. CASE U = {}
  BY <1>2, <1>3, <1>4
<1>5. CASE U # {}
  <2>1. Pick(U) \in U
    BY <1>5, PickIsElement
  <2>2. U \ {Pick(U)} \notin Bad
    BY <1>2, <2>1
  <2>3. Sums(f)[U \ {Pick(U)}] \in Nat /\ f[Pick(U)] \in Nat
    BY <2>1, <2>2
  <2>4. Sums(f)[U] \in Nat
    BY <1>3, <1>5, <2>3
  <2> QED BY <1>2, <2>4
<1> QED BY <1>4, <1>5

\* A sum of functions that differ at one argument differs by as much.
LEMMA SumOfUpdate ==
  ASSUME NEW S, IsFiniteSet(S), NEW f \in [S -> Nat], NEW h \in [S -> Nat], NEW x \in S,
         \A y \in S \ {x} : h[y] = f[y], NEW T \in SUBSET S
  PROVE  Sums(h)[T] = Sums(f)[T] + (IF x \in T THEN h[x] - f[x] ELSE 0)
<1> DEFINE Differs(U) == IF x \in U THEN h[x] - f[x] ELSE 0
           Bad == {U \in SUBSET S : Sums(h)[U] # Sums(f)[U] + Differs(U)}
<1>1. SUFFICES ASSUME Bad # {} PROVE FALSE
  OBVIOUS
<1>2. PICK U \in Bad : \A V \in SUBSET U : V # U => V \notin Bad
  <2>1. Bad \in SUBSET SUBSET S
    OBVIOUS
  <2> HIDE DEF Bad
  <2> QED BY <1>1, <2>1, SmallestSubset
<1>3. /\ Sums(f)[U] = IF U = {} THEN 0 ELSE f[Pick(U)] + Sums(f)[U \ {Pick(U)}]
      /\ Sums(h)[U] = IF U = {} THEN 0 ELSE h[Pick(U)] + Sums(h)[U \ {Pick(U)}]
  BY SumsUnfold
<1>4. CASE U = {}
  BY <1>2, <1>3, <1>4
<1>5. CASE U # {}
  <2> DEFINE p == Pick(U)
             V == U \ {p}
  <2>1. p \in U /\ p \in S
    BY <1>5, PickIsElement
  <2>2. V \in SUBSET S /\ V \notin Bad
    BY <1>2, <2>1
  <2>3. Sums(h)[V] = Sums(f)[V] + Differs(V)
    BY <2>2
  <2>4. Sums(f)[V] \in Nat /\ Sums(h)[V] \in Nat
    BY <2>2, SumsAreNat
  <2>5. f[p] \in Nat /\ h[p] \in Nat /\ f[x] \in Nat /\ h[x] \in Nat
    BY <2>1
  <2>6. Sums(f)[U] = f[p] + Sums(f)[V] /\ Sums(h)[U] = h[p] + Sums(h)[V]
    BY <1>3, <1>5
  <2>7. CASE p = x
    <3>1. Differs(V) = 0 /\ Differs(U) = h[x] - f[x]
      BY <2>1, <2>7
    <3> HIDE DEF Differs, V, p
    <3>2. Sums(h)[U] = Sums(f)[U] + Differs(U)
      BY <2>3, <2>4, <2>5, <2>6, <2>7, <3>1
    <3> QED BY <1>2, <3>2
  <2>8. CASE p # x
    <3>1. h[p] = f[p] /\ Differs(V) = Differs(U) /\ Differs(U) \in Int
      BY <2>1, <2>5, <2>8
    <3> HIDE DEF Differs, V, p
    <3>2. Sums(h)[U] = Sums(f)[U] + Differs(U)
      BY <2>3, <2>4, <2>5, <2>6, <3>1
    <3> QED BY <1>2, <3>2
  <2> QED BY <2>7, <2>8
<1> QED BY <1>4, <1>5

-----------------------------------------------------------------------------
(* The totals of the token.                                                *)

\* The total of a token is an amount.
LEMMA TotalIsNat ==
  ASSUME NEW f \in [Wallets -> Nat]
  PROVE  Total(f) \in Nat
BY TotalIsSum, SumsAreNat, TokenAssumption

\* A change in one wallet changes the total by as much.
LEMMA TotalOfUpdate ==
  ASSUME NEW f \in [Wallets -> Nat], NEW h \in [Wallets -> Nat], NEW w \in Wallets,
         \A v \in Wallets \ {w} : h[v] = f[v]
  PROVE  Total(h) = Total(f) + (h[w] - f[w])
<1>1. IsFiniteSet(Wallets) /\ DOMAIN f = Wallets /\ DOMAIN h = Wallets
  BY TokenAssumption
<1>2. Sums(h)[Wallets] = Sums(f)[Wallets] + (IF w \in Wallets THEN h[w] - f[w] ELSE 0)
  BY <1>1, SumOfUpdate
<1> QED BY <1>1, <1>2, TotalIsSum

\* At the start there is nothing in any wallet.
LEMMA TotalOfZeros == Total(Zeros) = 0
<1> DEFINE Bad == {U \in SUBSET Wallets : Sums(Zeros)[U] # 0}
<1>0. IsFiniteSet(Wallets) /\ DOMAIN Zeros = Wallets
  BY TokenAssumption DEF Zeros
<1>1. SUFFICES ASSUME Bad # {} PROVE FALSE
  BY <1>0, TotalIsSum
<1>2. PICK U \in Bad : \A V \in SUBSET U : V # U => V \notin Bad
  <2>1. Bad \in SUBSET SUBSET Wallets
    OBVIOUS
  <2> HIDE DEF Bad
  <2> QED BY <1>0, <1>1, <2>1, SmallestSubset
<1>3. Sums(Zeros)[U] = IF U = {} THEN 0 ELSE Zeros[Pick(U)] + Sums(Zeros)[U \ {Pick(U)}]
  BY <1>0, SumsUnfold
<1>4. U # {}
  BY <1>2, <1>3
<1>5. Pick(U) \in U
  BY <1>4, PickIsElement
<1>6. U \ {Pick(U)} \in SUBSET Wallets /\ U \ {Pick(U)} \notin Bad
  BY <1>2, <1>5
<1>7. Sums(Zeros)[U \ {Pick(U)}] = 0 /\ Zeros[Pick(U)] = 0
  BY <1>5, <1>6 DEF Zeros
<1> QED BY <1>2, <1>3, <1>4, <1>7

\* A credit adds its amount to the total, whoever is credited.
LEMMA TotalOfCredit ==
  ASSUME NEW f \in [Wallets -> Nat], NEW w \in Wallets, NEW amount \in Nat
  PROVE  Total(Credit(f, w, amount)) = Total(f) + amount
<1>1. Total(Credit(f, w, amount)) = Total(f) + (Credit(f, w, amount)[w] - f[w])
  BY CreditType, TotalOfUpdate
<1> QED BY <1>1, CreditType, TotalIsNat

\* A debit that the wallet can pay takes its amount from the total.
LEMMA TotalOfDebit ==
  ASSUME NEW f \in [Wallets -> Nat], NEW w \in Wallets, NEW amount \in Nat, f[w] >= amount
  PROVE  Total(Debit(f, w, amount)) = Total(f) - amount
<1> DEFINE d == Debit(f, w, amount)
<1>1. d \in [Wallets -> Nat] /\ d[w] = f[w] - amount /\ \A v \in Wallets \ {w} : d[v] = f[v]
  BY DebitType
<1>2. Total(f) \in Nat /\ f[w] \in Nat
  BY TotalIsNat
<1> HIDE DEF d
<1>3. Total(d) = Total(f) + (d[w] - f[w])
  BY <1>1, TotalOfUpdate
<1>4. Total(d) = Total(f) - amount
  BY <1>1, <1>2, <1>3
<1> QED BY <1>4 DEF d

\* What is taken from one wallet arrives in the other, which may be the same.
LEMMA TotalOfMove ==
  ASSUME NEW f \in [Wallets -> Nat], NEW from \in Wallets, NEW to \in Wallets,
         NEW amount \in Nat, f[from] >= amount
  PROVE  Total(Credit(Debit(f, from, amount), to, amount)) = Total(f)
<1> DEFINE left == Debit(f, from, amount)
<1>1. left \in [Wallets -> Nat] /\ Total(left) = Total(f) - amount
  BY DebitType, TotalOfDebit
<1> HIDE DEF left
<1>2. Total(Credit(left, to, amount)) = Total(left) + amount
  BY <1>1, TotalOfCredit
<1>3. Total(f) \in Nat
  BY TotalIsNat
<1>4. Total(Credit(left, to, amount)) = Total(f)
  BY <1>1, <1>2, <1>3
<1> QED BY <1>4 DEF left

\* Each transaction changes balances, mirror and supply alike.
LEMMA SupplyStep == TypeOK /\ SupplyIsConserved /\ [Next]_vars => SupplyIsConserved'
<1> SUFFICES ASSUME TypeOK, SupplyIsConserved, [Next]_vars
             PROVE  Total(balances') = totalSupply' /\ Total(mirror') = totalSupply'
  BY DEF SupplyIsConserved
<1>1. /\ TokenTypeOK /\ balances \in [Wallets -> Nat] /\ mirror \in [Wallets -> Nat]
      /\ totalSupply \in Nat
      /\ Total(balances) = totalSupply /\ Total(mirror) = totalSupply
  BY TokenAssumption DEF TypeOK, TokenTypeOK, SupplyIsConserved
<1>2. \A amount \in 0 .. MaxSupply : amount \in Nat
  BY TokenAssumption
<1>3. CASE \E from, to \in Wallets, amount \in 0 .. MaxSupply : Transfer(from, to, amount)
  <2>1. PICK from \in Wallets, to \in Wallets, amount \in 0 .. MaxSupply : Transfer(from, to, amount)
    BY <1>3
  <2>2. /\ balances[from] >= amount /\ mirror[from] >= amount
        /\ balances' = Credit(Debit(balances, from, amount), to, amount)
        /\ mirror' = Credit(Debit(mirror, from, amount), to, amount)
        /\ totalSupply' = totalSupply
    BY <2>1 DEF Transfer, SetBalances, Transferred, CanLeave, Receive
  <2> QED BY <1>1, <1>2, <2>2, TotalOfMove
<1>4. CASE \E w \in Wallets, amount \in 0 .. MaxSupply : Mint(w, amount)
  <2>1. PICK w \in Wallets, amount \in 0 .. MaxSupply : Mint(w, amount)
    BY <1>4
  <2>2. /\ balances' = Credit(balances, w, amount) /\ mirror' = Credit(mirror, w, amount)
        /\ totalSupply' = totalSupply + amount
    BY <2>1 DEF Mint, SetBalances, Created, Receive
  <2> QED BY <1>1, <1>2, <2>2, TotalOfCredit
<1>5. CASE \E w \in Wallets, amount \in 0 .. MaxSupply : Burn(w, amount)
  <2>1. PICK w \in Wallets, amount \in 0 .. MaxSupply : Burn(w, amount)
    BY <1>5
  <2>2. /\ balances[w] >= amount /\ mirror[w] >= amount
        /\ balances' = Debit(balances, w, amount) /\ mirror' = Debit(mirror, w, amount)
        /\ totalSupply' = totalSupply - amount
    BY <2>1 DEF Burn, SetBalances, Destroyed, CanLeave
  <2> QED BY <1>1, <1>2, <2>2, TotalOfDebit
<1>6. CASE \E lostWallet, newWallet \in Wallets : RecoveryAddress(lostWallet, newWallet)
  <2>1. PICK lostWallet \in Wallets, newWallet \in Wallets : RecoveryAddress(lostWallet, newWallet)
    BY <1>6
  <2>2. /\ balances' = Recovered(lostWallet, newWallet) /\ mirror' = mirror
        /\ totalSupply' = totalSupply
    BY <2>1 DEF RecoveryAddress, SetBalances, holderVars
  <2>3. Total(Recovered(lostWallet, newWallet)) = Total(balances)
    <3>1. balances[lostWallet] \in Nat /\ balances[lostWallet] >= balances[lostWallet]
      BY <1>1
    <3>2. balances[lostWallet] - balances[lostWallet] = 0
      BY <3>1
    <3>3. Recovered(lostWallet, newWallet)
             = Credit(Debit(balances, lostWallet, balances[lostWallet]), newWallet,
                      balances[lostWallet])
      BY <3>2, Zenon DEF Recovered, Debit
    <3> QED BY <1>1, <3>1, <3>3, TotalOfMove
  <2> QED BY <1>1, <2>2, <2>3
<1>7. CASE UNCHANGED amountVars
  BY <1>1, <1>7 DEF amountVars
<1> QED BY <1>3, <1>4, <1>5, <1>6, <1>7, StepCases

\* The supply is the sum of the balances, in both contracts: transfers to
\* oneself and recoveries, which the compliance contract is not told of, neither
\* make nor lose tokens.
THEOREM DeploymentSupply == Spec => []SupplyIsConserved
<1>1. Init => SupplyIsConserved
  BY TotalOfZeros DEF Init, TokenInit, SupplyIsConserved
<1> QED BY <1>1, TypeInitially, TypeStep, SupplyStep, PTL DEF Spec
=============================================================================
