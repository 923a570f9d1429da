---------------------------- MODULE MCLifecycle ----------------------------
(***************************************************************************)
(* Lifecycle for two identities.                                           *)
(***************************************************************************)
EXTENDS Lifecycle, TLC

CONSTANTS alice, bob

MCSymmetry == Permutations({alice, bob})
=============================================================================
