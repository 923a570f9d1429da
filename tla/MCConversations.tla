-------------------------- MODULE MCConversations --------------------------
(***************************************************************************)
(* Conversations of a user with a second device and a contact with two.    *)
(***************************************************************************)
EXTENDS Conversations, TLC

CONSTANTS bob, bobPhone, bobLaptop, ownLaptop, laptopBox, ownBox

MCMailboxOf == bobPhone :> bob @@ bobLaptop :> laptopBox @@ ownLaptop :> ownBox
=============================================================================
