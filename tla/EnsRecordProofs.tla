-------------------------- MODULE EnsRecordProofs --------------------------
(***************************************************************************)
(* Theorems about the two ENS scripts, for any resolvers, any number of    *)
(* runs and any changes by other tools.                                    *)
(*                                                                         *)
(* A run reads the resolver once and keeps it.  Only another tool points   *)
(* the name elsewhere, and it disturbs every run that has started: what an *)
(* undisturbed run read is still what the registry holds (SeenInv,         *)
(* FoundInv).  A transaction of a setup, however late, only ever writes    *)
(* the Solana address (SetupEffect), so a record that was read back stays  *)
(* (PassedInv).                                                            *)
(***************************************************************************)
EXTENDS EnsRecord, TLAPS

-----------------------------------------------------------------------------
(* Type correctness.                                                       *)

LEMMA TypeInitially == Init => TypeOK
BY NameAssumption
   DEF Init, NameInit, SetupInit, VerifyInit, TypeOK, NameTypeOK, SetupTypeOK, VerifyTypeOK,
       Verdicts, SetupStages, VerifyStages

\* The stages in which a run knows the resolver.
Knowing == {"existing", "send", "wait", "verify", "passed"}

LEMMA SetupTypeStep ==
  ASSUME NameTypeOK, SetupTypeOK, NEW s \in Setups, SetupStep(s)
  PROVE  NameTypeOK' /\ SetupTypeOK'
<1> USE DEF NameTypeOK, SetupTypeOK, SetupStages, SetupEnds, nameVars
<1>1. CASE \E configured \in BOOLEAN : StartSetup(s, configured)
  BY <1>1 DEF StartSetup
<1>2. CASE ReadResolver(s)
  BY <1>2, NameAssumption DEF ReadResolver
<1>3. CASE ReadExisting(s)
  BY <1>3 DEF ReadExisting
<1>4. CASE Send(s)
  BY <1>4 DEF Send
<1>5. CASE Confirm(s)
  BY <1>5 DEF Confirm
<1>6. CASE Verify(s)
  BY <1>6 DEF Verify
<1>7. CASE SetupRaises(s)
  BY <1>7 DEF SetupRaises
<1>8. CASE Settle(s)
  <2>1. record' \in [Resolvers -> Values]
    BY <1>8 DEF Settle, Values
  <2> QED BY <1>8, <2>1 DEF Settle
<1> QED BY <1>1, <1>2, <1>3, <1>4, <1>5, <1>6, <1>7, <1>8 DEF SetupStep, SetupProgress

LEMMA VerifyTypeStep ==
  ASSUME NameTypeOK, VerifyTypeOK, NEW v \in Verifiers, VerifyStep(v)
  PROVE  NameTypeOK' /\ VerifyTypeOK'
<1> USE DEF NameTypeOK, VerifyTypeOK, VerifyStages, Verdicts, nameVars, Ends
<1>1. CASE \E configured \in BOOLEAN : StartVerify(v, configured)
  BY <1>1 DEF VerifyStep, StartVerify
<1>2. CASE FindResolver(v)
  BY <1>2, NameAssumption DEF VerifyStep, FindResolver
<1>3. CASE ReadEthAddr(v)
  BY <1>3 DEF VerifyStep, ReadEthAddr
<1>4. CASE ReadSolAddr(v)
  <2>1. StatusOf(record[found[v]]) \in Verdicts
    BY DEF StatusOf
  <2> QED BY <1>4, <2>1 DEF VerifyStep, ReadSolAddr
<1>5. CASE SolAddrRaises(v)
  BY <1>5 DEF VerifyStep, SolAddrRaises
<1>6. CASE VerifyRaises(v)
  BY <1>6 DEF VerifyStep, VerifyRaises
<1> QED BY <1>1, <1>2, <1>3, <1>4, <1>5, <1>6 DEF VerifyStep, VerifyProgress

LEMMA TypeStep == TypeOK /\ [Next]_vars => TypeOK'
<1> SUFFICES ASSUME TypeOK, [Next]_vars PROVE TypeOK'
  OBVIOUS
<1>0. /\ NameTypeOK /\ SetupTypeOK /\ VerifyTypeOK
      /\ disturbed \subseteq Setups \union Verifiers
  BY DEF TypeOK
<1>1. ASSUME NEW s \in Setups, RunSetup(s) PROVE TypeOK'
  <2>1. NameTypeOK' /\ SetupTypeOK'
    BY <1>0, <1>1, SetupTypeStep DEF RunSetup
  <2>2. UNCHANGED verifyVars /\ disturbed' = disturbed
    BY <1>1 DEF RunSetup
  <2> QED BY <1>0, <2>1, <2>2 DEF verifyVars, TypeOK, VerifyTypeOK
<1>2. ASSUME NEW v \in Verifiers, RunVerify(v) PROVE TypeOK'
  <2>1. NameTypeOK' /\ VerifyTypeOK'
    BY <1>0, <1>2, VerifyTypeStep DEF RunVerify
  <2>2. UNCHANGED setupVars /\ disturbed' = disturbed
    BY <1>2 DEF RunVerify
  <2>3. SetupTypeOK'
    BY <1>0, <2>2 DEF setupVars, SetupTypeOK
  <2> QED BY <1>0, <2>1, <2>2, <2>3 DEF TypeOK
<1>3. CASE OwnerActs
  <2>1. NameTypeOK'
    <3>1. CASE \E r \in Resolvers \union {NoResolver} : PointTo(r)
      BY <1>0, <3>1, NameAssumption DEF PointTo, NameTypeOK
    <3>2. CASE \E r \in Multicoin, value \in Values : Overwrite(r, value)
      BY <1>0, <3>2, NameAssumption DEF Overwrite, NameTypeOK
    <3> QED BY <1>3, <3>1, <3>2 DEF OwnerActs, OtherTool
  <2>2. UNCHANGED setupVars /\ UNCHANGED verifyVars
    BY <1>3 DEF OwnerActs
  <2>3. SetupTypeOK' /\ VerifyTypeOK'
    BY <1>0, <2>2 DEF setupVars, verifyVars, SetupTypeOK, VerifyTypeOK
  <2>4. disturbed' \subseteq Setups \union Verifiers
    BY <1>0, <1>3 DEF OwnerActs
  <2> QED BY <1>0, <2>1, <2>2, <2>3, <2>4 DEF TypeOK
<1>4. CASE UNCHANGED vars
  BY <1>0, <1>4 DEF vars, nameVars, setupVars, verifyVars, TypeOK, NameTypeOK,
                    SetupTypeOK, VerifyTypeOK
<1> QED BY <1>1, <1>2, <1>3, <1>4 DEF Next

\* The registry, the records and both scripts keep their types; a run past its
\* first read holds a resolver.
THEOREM EnsTypeCorrect == Spec => []TypeOK
BY TypeInitially, TypeStep, PTL DEF Spec

-----------------------------------------------------------------------------
(* What a step of a run does.                                              *)

\* A run leaves the registry alone and writes the Solana address, if anything;
\* it passes only on a record it has read.
LEMMA SetupEffect ==
  ASSUME TypeOK, NEW s \in Setups, RunSetup(s)
  PROVE  /\ resolver' = resolver
         /\ \A r \in Resolvers : record'[r] \in {record[r], Sol}
         /\ \A t \in Setups \ {s} : pc'[t] = pc[t] /\ seen'[t] = seen[t]
         /\ pc'[s] \in Knowing =>
               \/ pc[s] \in Knowing /\ seen'[s] = seen[s]
               \/ seen'[s] = resolver
         /\ pc'[s] = "passed" =>
               \/ pc[s] = "passed" /\ seen'[s] = seen[s]
               \/ record'[seen'[s]] = Sol
         /\ pc[s] = "passed" => pc'[s] = "passed"
         /\ UNCHANGED verifyVars /\ disturbed' = disturbed
<1>0. /\ pc \in [Setups -> {"idle"} \union SetupStages \union SetupEnds]
      /\ seen \in [Setups -> Resolvers \union {NoResolver}]
      /\ record \in [Resolvers -> Values]
  BY DEF TypeOK, SetupTypeOK, NameTypeOK
<1>1. SetupStep(s) /\ UNCHANGED verifyVars /\ disturbed' = disturbed
  BY DEF RunSetup
<1> USE DEF Knowing, nameVars, SetupStages
<1>2. CASE \E configured \in BOOLEAN : StartSetup(s, configured)
  BY <1>0, <1>1, <1>2 DEF StartSetup
<1>3. CASE ReadResolver(s)
  BY <1>0, <1>1, <1>3 DEF ReadResolver
<1>4. CASE ReadExisting(s)
  BY <1>0, <1>1, <1>4 DEF ReadExisting
<1>5. CASE Send(s)
  BY <1>0, <1>1, <1>5 DEF Send
<1>6. CASE Confirm(s)
  BY <1>0, <1>1, <1>6 DEF Confirm
<1>7. CASE Verify(s)
  BY <1>0, <1>1, <1>7 DEF Verify
<1>8. CASE SetupRaises(s)
  BY <1>0, <1>1, <1>8 DEF SetupRaises
<1>9. CASE Settle(s)
  <2>1. UNCHANGED <<pc, seen, resolver>>
    BY <1>9 DEF Settle
  <2>2. \A r \in Resolvers : record'[r] \in {record[r], Sol}
    BY <1>0, <1>9 DEF Settle
  <2> QED BY <1>0, <1>1, <2>1, <2>2
<1> QED BY <1>1, <1>2, <1>3, <1>4, <1>5, <1>6, <1>7, <1>8, <1>9 DEF SetupStep, SetupProgress

\* A verifier changes nothing but what it knows and reports.
LEMMA VerifyEffect ==
  ASSUME TypeOK, NEW v \in Verifiers, RunVerify(v)
  PROVE  /\ UNCHANGED nameVars /\ UNCHANGED setupVars /\ disturbed' = disturbed
         /\ \A u \in Verifiers \ {v} : /\ at'[u] = at[u] /\ found'[u] = found[u]
                                       /\ verdict'[u] = verdict[u]
         /\ at'[v] # "idle"
         /\ at'[v] \in {"ethAddr", "solAddr"} =>
               \/ at[v] \in {"ethAddr", "solAddr"} /\ found'[v] = found[v]
               \/ found'[v] = resolver
         /\ verdict'[v] # verdict[v] =>
               \/ at[v] = "resolver" /\ resolver = NoResolver /\ verdict'[v] = "noResolver"
               \/ at[v] = "solAddr" /\ verdict'[v] \in {"unsupported", StatusOf(record[found[v]])}
<1>0. /\ at \in [Verifiers -> {"idle", "ended"} \union VerifyStages]
      /\ found \in [Verifiers -> Resolvers \union {NoResolver}]
      /\ verdict \in [Verifiers -> Verdicts]
  BY DEF TypeOK, VerifyTypeOK
<1>1. VerifyStep(v) /\ UNCHANGED nameVars /\ UNCHANGED setupVars /\ disturbed' = disturbed
  BY DEF RunVerify, VerifyStep
<1> USE DEF Ends, VerifyStages
<1>3. CASE \E configured \in BOOLEAN : StartVerify(v, configured)
  BY <1>0, <1>1, <1>3 DEF StartVerify
<1>4. CASE FindResolver(v)
  BY <1>0, <1>1, <1>4 DEF FindResolver
<1>5. CASE ReadEthAddr(v)
  BY <1>0, <1>1, <1>5 DEF ReadEthAddr
<1>6. CASE ReadSolAddr(v)
  BY <1>0, <1>1, <1>6 DEF ReadSolAddr
<1>7. CASE SolAddrRaises(v)
  BY <1>0, <1>1, <1>7 DEF SolAddrRaises
<1>8. CASE VerifyRaises(v)
  BY <1>0, <1>1, <1>8 DEF VerifyRaises
<1> QED BY <1>1, <1>3, <1>4, <1>5, <1>6, <1>7, <1>8 DEF VerifyStep, VerifyProgress

-----------------------------------------------------------------------------
(* What an undisturbed run knows.                                          *)

SeenInv == \A s \in Setups \ disturbed : pc[s] \in Knowing => seen[s] = resolver

PassedInv == \A s \in Setups \ disturbed : pc[s] = "passed" => record[seen[s]] = Sol

FoundInv == \A v \in Verifiers \ disturbed : at[v] \in {"ethAddr", "solAddr"} => found[v] = resolver

RunInv == SeenInv /\ PassedInv /\ FoundInv

\* Another tool leaves undisturbed only what has not started.
LEMMA OwnerEffect ==
  ASSUME TypeOK, OwnerActs
  PROVE  /\ UNCHANGED setupVars /\ UNCHANGED verifyVars
         /\ disturbed \subseteq disturbed'
         /\ \A s \in Setups \ disturbed' : pc[s] = "idle"
         /\ \A v \in Verifiers \ disturbed' : at[v] = "idle"
         /\ \A s \in Setups : pc[s] # "idle" => s \in disturbed'
BY DEF OwnerActs

LEMMA RunInvSetup ==
  ASSUME TypeOK, RunInv, NEW s \in Setups, RunSetup(s)
  PROVE  RunInv'
<1>0. SeenInv /\ PassedInv /\ FoundInv
  BY DEF RunInv
<1>1. /\ resolver' = resolver /\ disturbed' = disturbed
      /\ at' = at /\ found' = found /\ verdict' = verdict
      /\ \A r \in Resolvers : record'[r] \in {record[r], Sol}
  BY SetupEffect DEF verifyVars
<1>2. SeenInv'
  BY <1>0, <1>1, SetupEffect DEF SeenInv
<1>3. PassedInv'
  <2> SUFFICES ASSUME NEW t \in Setups \ disturbed, pc'[t] = "passed"
               PROVE  record'[seen'[t]] = Sol
    BY <1>1 DEF PassedInv
  <2>1. CASE pc[t] = "passed" /\ seen'[t] = seen[t]
    <3>1. record[seen[t]] = Sol /\ seen[t] \in Resolvers
      BY <1>0, <2>1 DEF PassedInv, TypeOK, SetupTypeOK
    <3> QED BY <1>1, <2>1, <3>1
  <2>2. CASE record'[seen'[t]] = Sol
    BY <2>2
  <2> QED BY <2>1, <2>2, SetupEffect
<1>4. FoundInv'
  BY <1>0, <1>1 DEF FoundInv
<1> QED BY <1>2, <1>3, <1>4 DEF RunInv

LEMMA RunInvVerify ==
  ASSUME TypeOK, RunInv, NEW v \in Verifiers, RunVerify(v)
  PROVE  RunInv'
<1>0. SeenInv /\ PassedInv /\ FoundInv
  BY DEF RunInv
<1>1. UNCHANGED <<resolver, record, pc, seen, disturbed>>
  BY VerifyEffect DEF nameVars, setupVars
<1>2. SeenInv' /\ PassedInv'
  BY <1>0, <1>1 DEF SeenInv, PassedInv
<1>3. FoundInv'
  BY <1>0, <1>1, VerifyEffect DEF FoundInv
<1> QED BY <1>2, <1>3 DEF RunInv

LEMMA RunInvOwner ==
  ASSUME TypeOK, RunInv, OwnerActs
  PROVE  RunInv'
<1>0. SeenInv /\ PassedInv /\ FoundInv
  BY DEF RunInv
<1>1. UNCHANGED <<pc, seen, at, found, verdict>>
  BY OwnerEffect DEF setupVars, verifyVars
<1>2. \A s \in Setups \ disturbed' : pc'[s] = "idle"
  BY <1>1, OwnerEffect
<1>3. SeenInv' /\ PassedInv'
  BY <1>2 DEF SeenInv, PassedInv, Knowing
<1>4. FoundInv'
  BY <1>1, OwnerEffect DEF FoundInv
<1> QED BY <1>3, <1>4 DEF RunInv

LEMMA RunInvStep == TypeOK /\ RunInv /\ [Next]_vars => RunInv'
<1> SUFFICES ASSUME TypeOK, RunInv, [Next]_vars PROVE RunInv'
  OBVIOUS
<1>1. CASE UNCHANGED vars
  BY <1>1 DEF vars, nameVars, setupVars, verifyVars, RunInv, SeenInv, PassedInv,
              FoundInv
<1> QED BY <1>1, RunInvSetup, RunInvVerify, RunInvOwner DEF Next

LEMMA RunAlways == Spec => [](TypeOK /\ RunInv)
<1>1. Init => RunInv
  BY DEF Init, SetupInit, VerifyInit, RunInv, SeenInv, PassedInv, FoundInv, Knowing
<1> QED BY <1>1, TypeInitially, TypeStep, RunInvStep, PTL DEF Spec

-----------------------------------------------------------------------------
(* The properties.                                                         *)

LEMMA PassedResolves ==
  ASSUME TypeOK, RunInv, NEW s \in Passed \ disturbed
  PROVE  Resolves
<1>1. s \in Setups \ disturbed /\ pc[s] = "passed"
  BY DEF Passed
<1>2. seen[s] = resolver /\ record[seen[s]] = Sol
  BY <1>1 DEF RunInv, SeenInv, PassedInv, Knowing
<1>3. seen[s] \in Resolvers
  BY <1>1 DEF TypeOK, SetupTypeOK
<1> QED BY <1>2, <1>3 DEF Resolves

\* A name whose setup passed resolves, until another tool changes it.
THEOREM EnsPassedMeansResolves == Spec => []PassedMeansResolves
<1>1. TypeOK /\ RunInv => PassedMeansResolves
  BY PassedResolves DEF PassedMeansResolves
<1> QED BY <1>1, RunAlways, PTL

\* What an undisturbed verifier reports of what it read is so.
LEMMA ReportIsTrue ==
  ASSUME TypeOK, RunInv, NEW v \in Verifiers, v \notin disturbed, RunVerify(v),
         verdict'[v] # verdict[v]
  PROVE  /\ verdict'[v] = "match" => Resolves
         /\ verdict'[v] \in {"noResolver", "notSet", "mismatch"} => ~Resolves
<1>1. CASE at[v] = "resolver" /\ resolver = NoResolver /\ verdict'[v] = "noResolver"
  BY <1>1, NameAssumption DEF Resolves
<1>2. CASE at[v] = "solAddr" /\ verdict'[v] \in {"unsupported", StatusOf(record[found[v]])}
  <2>1. found[v] = resolver /\ found[v] \in Resolvers
    BY <1>2 DEF RunInv, FoundInv, TypeOK, VerifyTypeOK
  <2>2. CASE record[resolver] = Sol
    <3>1. StatusOf(record[found[v]]) = "match" /\ Resolves
      BY <2>1, <2>2, NameAssumption DEF StatusOf, Resolves
    <3> QED BY <1>2, <3>1
  <2>3. CASE record[resolver] # Sol
    <3>1. StatusOf(record[found[v]]) \in {"notSet", "mismatch"} /\ ~Resolves
      BY <2>1, <2>3 DEF StatusOf, Resolves
    <3> QED BY <1>2, <3>1
  <2> QED BY <2>2, <2>3
<1> QED BY <1>1, <1>2, VerifyEffect

\* The four reports that rest on what the verifier read are true when they are
\* made, though it reads twice and transactions are mined meanwhile.
THEOREM EnsReadReportsAreTrue == Spec => ReadReportsAreTrue
<1>1. TypeOK /\ RunInv /\ [Next]_vars =>
        [\A v \in Verifiers \ disturbed :
          verdict'[v] # verdict[v] =>
              /\ verdict'[v] = "match" => Resolves
              /\ verdict'[v] \in {"noResolver", "notSet", "mismatch"} => ~Resolves]_vars
  <2> SUFFICES ASSUME TypeOK, RunInv, [Next]_vars, NEW v \in Verifiers \ disturbed,
                      verdict'[v] # verdict[v]
               PROVE  /\ verdict'[v] = "match" => Resolves
                      /\ verdict'[v] \in {"noResolver", "notSet", "mismatch"} => ~Resolves
    OBVIOUS
  <2>1. CASE \E s \in Setups : RunSetup(s)
    BY <2>1 DEF RunSetup, verifyVars
  <2>2. CASE OwnerActs
    BY <2>2 DEF OwnerActs, verifyVars
  <2>3. CASE UNCHANGED vars
    BY <2>3 DEF vars, verifyVars
  <2>4. CASE \E u \in Verifiers : RunVerify(u)
    <3>1. PICK u \in Verifiers : RunVerify(u)
      BY <2>4
    <3>2. u = v
      BY <3>1, VerifyEffect
    <3> QED BY <3>1, <3>2, ReportIsTrue
  <2> QED BY <2>1, <2>2, <2>3, <2>4 DEF Next
<1> QED BY <1>1, RunAlways, PTL DEF Spec, ReadReportsAreTrue
=============================================================================
