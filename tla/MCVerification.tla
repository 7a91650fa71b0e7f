--------------------------- MODULE MCVerification ---------------------------
(***************************************************************************)
(* Verification with interchangeable requests and providers.               *)
(***************************************************************************)
EXTENDS Verification, TLC

Sym == Permutations(Verifies) \union Permutations(Transitions) \union Permutations(Providers)
=============================================================================
