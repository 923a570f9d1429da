----------------------------- MODULE BlindDrop -----------------------------
(***************************************************************************)
(* What the relay promises of a message, whatever sessions, channels and   *)
(* tables it is built from: it is stored at most once, handed out at most  *)
(* once and never taken back, read only by a key that owns its mailbox,    *)
(* and, when it ends without having been read, ended by expiry or by the   *)
(* loss of whatever it had been handed to.                                 *)
(***************************************************************************)
CONSTANTS Msg, Key,
          Owner      \* Owner[m]: the keys whose hash m is addressed to

VARIABLES fate,      \* where m is in its life
          readers    \* readers[m]: the keys that have read m

dropVars == <<fate, readers>>

Init ==
    /\ fate = [m \in Msg |-> "outside"]
    /\ readers = [m \in Msg |-> {}]

\* All of S, which is at one of the stages From, moves to the stage to.
Move(S, From, to) ==
    /\ \A m \in S : fate[m] \in From
    /\ fate' = [m \in Msg |-> IF m \in S THEN to ELSE fate[m]]

\* A POST is taken into the table, or goes straight to its listeners.
Store(m)    == Move({m}, {"outside"}, "stored") /\ UNCHANGED readers
HandLive(m) == Move({m}, {"outside"}, "handed") /\ UNCHANGED readers

\* A session takes over the messages it fetched, all at once.
Hand(S)     == Move(S, {"stored"}, "handed") /\ UNCHANGED readers

\* The TTL worker deletes messages nobody fetched.
Expire(S)   == Move(S, {"stored"}, "gone") /\ UNCHANGED readers

\* The last copies of some messages end with a session or the process.
Lose(S)     == Move(S, {"handed"}, "gone") /\ UNCHANGED readers

Read(m, k) ==
    /\ k \in Owner[m]
    /\ Move({m}, {"handed", "read"}, "read")
    /\ readers' = [readers EXCEPT ![m] = @ \cup {k}]

Next ==
    \/ \E m \in Msg : Store(m) \/ HandLive(m) \/ \E k \in Key : Read(m, k)
    \/ \E S \in SUBSET Msg : Hand(S) \/ Expire(S) \/ Lose(S)

Spec == Init /\ [][Next]_dropVars
=============================================================================
