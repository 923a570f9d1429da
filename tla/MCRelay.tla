------------------------------ MODULE MCRelay ------------------------------
(***************************************************************************)
(* Relay with two clients, three messages and two connections.             *)
(***************************************************************************)
EXTENDS Relay, TLC

CONSTANTS m1, m2, m3, s1, s2, bob, eve, bobHash, BOBHASH, eveHash

MCHashOf == bob :> bobHash @@ eve :> eveHash
MCHashOfBob == bob :> bobHash
\* Two messages to Bob, and a longer one to his hash in upper case, which is
\* valid hexadecimal and nobody's mailbox; MaxPayload decides if it is accepted.
MCTo == m1 :> bobHash @@ m2 :> bobHash @@ m3 :> BOBHASH
MCLen == m1 :> 1 @@ m2 :> 2 @@ m3 :> 3
MCToBob == [m \in {m1, m2} |-> MCTo[m]]
MCLenBob == [m \in {m1, m2} |-> MCLen[m]]
MCSymmetry == Permutations({s1, s2})
=============================================================================
