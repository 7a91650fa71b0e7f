------------------------------ MODULE EnsName ------------------------------
(***************************************************************************)
(* What the two ENS scripts share: the registry entry of nobleport.eth and *)
(* the Solana records (coin type 501) of the resolvers it may name.  The   *)
(* contracts are on chain and not part of the repository; they are         *)
(* modelled from how the scripts call them.  The owner's other tools may   *)
(* point the name at another resolver, or change a record, at any time.    *)
(***************************************************************************)
EXTENDS Naturals

CONSTANTS
    Resolvers,   \* resolver contracts
    Multicoin,   \* those with addr(node, coinType), EIP-2304
    NoResolver,  \* the zero address
    Sol,         \* the address both scripts hold as a constant
    Unset,       \* an empty record
    Foreign,     \* any other record
    MaxChanges   \* bound on what the owner's other tools do

ASSUME NameAssumption ==
    /\ Multicoin \subseteq Resolvers
    /\ NoResolver \notin Resolvers
    /\ Sol # Unset
    /\ {Sol, Unset} \cap Foreign = {}
    /\ MaxChanges \in Nat

VARIABLES
    resolver,  \* what the registry holds for the name
    record,    \* resolver -> its record for the name
    changes    \* changes made by other tools so far

nameVars == <<resolver, record, changes>>

Values == {Sol, Unset} \union Foreign

NameTypeOK ==
    /\ resolver \in Resolvers \union {NoResolver}
    /\ record \in [Resolvers -> Values]
    /\ changes \in 0 .. MaxChanges

NameInit ==
    /\ resolver \in Resolvers \union {NoResolver}
    /\ record \in [Resolvers -> Values]
    /\ \A r \in Resolvers \ Multicoin : record[r] = Unset
    /\ changes = 0

\* The name resolves to the Solana address.
Resolves == resolver \in Resolvers /\ record[resolver] = Sol

\* registry.setResolver by another tool.
PointTo(r) ==
    /\ changes < MaxChanges
    /\ resolver' = r
    /\ changes' = changes + 1
    /\ UNCHANGED record

\* resolver.setAddr by another tool.
Overwrite(r, value) ==
    /\ changes < MaxChanges
    /\ record' = [record EXCEPT ![r] = value]
    /\ changes' = changes + 1
    /\ UNCHANGED resolver

OtherTool ==
    \/ \E r \in Resolvers \union {NoResolver} : PointTo(r)
    \/ \E r \in Multicoin, value \in Values : Overwrite(r, value)
=============================================================================
