----------------------------- MODULE MCRatchet -----------------------------
(***************************************************************************)
(* Ratchet for Alice, who scans Bob's contact URI, and Bob.                *)
(***************************************************************************)
EXTENDS Ratchet, TLC

CONSTANTS alice, bob

MCBundles == alice :> 0 @@ bob :> 1
MCImports == alice :> 1 @@ bob :> 0
MCSends == alice :> 6 @@ bob :> 4
=============================================================================
