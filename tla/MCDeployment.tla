---------------------------- MODULE MCDeployment ----------------------------
(***************************************************************************)
(* Deployment with two wallets and one blocked country.                    *)
(***************************************************************************)
EXTENDS Deployment, TLC

Sym == Permutations(Wallets)
=============================================================================
