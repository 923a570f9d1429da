------------------------------ MODULE Request ------------------------------
(***************************************************************************)
(* What a caller of TorHttpClient can rely on: a request to the relay is   *)
(* pending until it succeeds, fails or is abandoned.  Success means that   *)
(* the relay has taken the message; failure does not mean that it has not; *)
(* an abandoned request may still fail, and otherwise never returns.       *)
(***************************************************************************)
VARIABLES
    state,     \* of the request
    reached    \* whether the relay has taken what was sent

request == <<state, reached>>

Free     == {"idle", "ok", "failed"}
Returned == {"ok", "failed"}

RequestInit == state = "idle" /\ reached = FALSE

Ask == state = "idle" /\ state' = "pending" /\ UNCHANGED reached

Reach == state = "pending" /\ ~reached /\ reached' = TRUE /\ UNCHANGED state

Succeed == state = "pending" /\ reached /\ state' = "ok" /\ UNCHANGED reached

Fail == state \in {"pending", "abandoned"} /\ state' = "failed" /\ UNCHANGED reached

Abandon == state = "pending" /\ state' = "abandoned" /\ UNCHANGED reached

\* The caller has the result.
Return == state \in Returned /\ state' = "idle" /\ reached' = FALSE

RequestStep == Reach \/ Succeed \/ Fail \/ Abandon

RequestSpec == RequestInit /\ [][Ask \/ RequestStep \/ Return]_request
=============================================================================
