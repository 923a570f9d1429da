-------------------------- MODULE MCBackgroundSync --------------------------
(***************************************************************************)
(* BackgroundSync with three cycles and two messages.  A cycle's client    *)
(* runs connect() once.                                                    *)
(***************************************************************************)
EXTENDS BackgroundSync

CONSTANTS c1, c2
=============================================================================
