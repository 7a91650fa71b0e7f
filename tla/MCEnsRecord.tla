---------------------------- MODULE MCEnsRecord ----------------------------
(***************************************************************************)
(* EnsRecord with resolvers of both kinds.                                 *)
(***************************************************************************)
EXTENDS EnsRecord

CONSTANTS public, legacy

MCResolvers == {public, legacy}
MCMulticoin == {public}
=============================================================================
