---------------------------- MODULE MCMessaging ----------------------------
(***************************************************************************)
(* Messaging for Alice, who scans Bob's contact URI, and Bob.              *)
(***************************************************************************)
EXTENDS Messaging, TLC

CONSTANTS alice, bob, f1, f2

MCBundles == alice :> 0 @@ bob :> 1
MCImports == alice :> 1 @@ bob :> 0
MCSends == alice :> 3 @@ bob :> 2
MCCrashes == alice :> 0 @@ bob :> 1
=============================================================================
