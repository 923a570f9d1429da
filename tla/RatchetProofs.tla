--------------------------- MODULE RatchetProofs ---------------------------
(***************************************************************************)
(* Proofs about Ratchet for any number of bundles, imports and messages,   *)
(* any skip limit and any order of delivery: type correctness and forward  *)
(* secrecy.  They rest on what the operations do to the keys of a single   *)
(* session, stated of a session and the set of keys it has used.           *)
(*                                                                         *)
(* From "The two sessions together" on: when one party imports the contact *)
(* of the other once and the message that opens the session arrives first, *)
(* every message that is delivered opens or is refused.  That rests on     *)
(* what two sessions say of each other and of the messages sent, of        *)
(* which either may have seen only a part.                                 *)
(***************************************************************************)
EXTENDS Ratchet, FiniteSetTheorems, SequenceTheorems, TLAPS

\* The keys of p that a root key's X3DH output was made with were numbered.
Old(p, f, root) == \A k \in root[1][2] : k.of = p => k.n \in 0..(f - 1)

\* A root key is one that the session has come by on its way to this one.
Within(r, root) == Len(r) \in 1..Len(root) /\ r[1] = root[1]

\* The keys of a session lie on chains of their own, none of them ahead of one
\* that was put aside.
ChainsApart(s) ==
    /\ s.recv = None => s.skipped = {}
    /\ s.send # None => s.send.root = s.root
    /\ s.recv # None => Within(s.recv.root, s.root)
    /\ s.send # None /\ s.recv # None => s.recv.root # s.send.root
    /\ \A k \in s.skipped :
          /\ Within(k.key.root, s.root)
          /\ s.send # None => k.key.root # s.send.root
          /\ k.key.root = s.recv.root => k.key.step < s.recv.step
    /\ \A k1, k2 \in s.skipped : k1.key = k2.key => k1 = k2

\* A key that was used is out of reach of the session, now and on the roots to
\* come, which are longer.
Gone(p, s, f, c) ==
    /\ c \in Chains /\ Len(c.root) >= 1 /\ Old(p, f, c.root)
    /\ c.root[1] = s.root[1] => Len(c.root) <= Len(s.root)
    /\ ~Derives(s, c)

\* Session s of p, which has numbered its key pairs below f and used the message
\* keys in U.
KeysInv(p, s, U, f) ==
    /\ s \in Sessions /\ Len(s.root) >= 1 /\ Old(p, f, s.root)
    /\ ChainsApart(s)
    /\ \A c \in U : Gone(p, s, f, c)

\* The keys that p has sealed and opened messages with.
UsedBy(p) == {m.key : m \in {x \in Sent : x.from = p}}
Opened(p) == {m.key : m \in {x \in opened : x.from = Peer(p)}}
Used(p)   == UsedBy(p) \cup Opened(p)

Spks(p) == {b.spk : b \in offered[p]}

Types ==
    /\ sess \in [Party -> Sessions \cup {None}]
    /\ spk \in [Party -> KeyPairs \cup {None}]
    /\ opk \in [Party -> SUBSET KeyPairs]
    /\ offered \in [Party -> SUBSET [spk : KeyPairs, otk : KeyPairs]]
    /\ fresh \in [Party -> Nat \ {0}]
    /\ imports \in [Party -> Nat] /\ sends \in [Party -> Nat]
    /\ Sent \subseteq Envelopes

\* Key pairs are their owners' and numbered; signed pre-keys are apart from the
\* ephemeral keys.
Numbered(p, k) == k.of = p /\ k.n < fresh[p]
Owners ==
    \A p \in Party :
        /\ spk[p] # None => spk[p].of = p
        /\ \A k \in opk[p] : Numbered(p, k)
        /\ \A b \in offered[p] : Numbered(p, b.spk) /\ Numbered(p, b.otk)
        /\ sess[p] # None => /\ Numbered(p, sess[p].local)
                             /\ sess[p].local \notin Spks(p)
                             /\ sess[p].remote.of = Peer(p)
                             /\ sess[p].recv = None => sess[p].remote \in Spks(Peer(p))
Letters ==
    /\ \A m \in Sent :
          /\ Numbered(m.from, m.dh) /\ m.dh \notin Spks(m.from)
          /\ m.n < sends[m.from]
    /\ net \cap (opened \cup failed \cup refused) = {}

\* Sequence numbers are the steps taken on the chains.
StepsOK(s) ==
    /\ s.recv # None => s.recv.step = s.nr
    /\ IF s.send # None THEN s.send.step = s.ns ELSE s.ns = 0
Steps == \A p \in Party : sess[p] # None => StepsOK(sess[p])

Secrecy ==
    \A p \in Party :
        IF sess[p] = None THEN Used(p) = {} ELSE KeysInv(p, sess[p], Used(p), fresh[p])

RatchetInv == Types /\ Owners /\ Letters /\ Steps /\ Secrecy

-----------------------------------------------------------------------------
(* Lemmas about the operators *)

\* There are two parties.
LEMMA Peers ==
    /\ \A p \in Party : Peer(p) \in Party /\ Peer(p) # p /\ Peer(Peer(p)) = p
    /\ \A p, q \in Party : q = p \/ q = Peer(p)
<1>1. \A p \in Party : Peer(p) \in Party /\ Peer(p) # p /\ \A q \in Party : q = p \/ q = Peer(p)
  <2> SUFFICES ASSUME NEW p \in Party
               PROVE  Peer(p) \in Party /\ Peer(p) # p /\ \A q \in Party : q = p \/ q = Peer(p)
    OBVIOUS
  <2>1. IsFiniteSet(Party \ {p}) /\ Cardinality(Party \ {p}) = 1
    BY RatchetAssumption, FS_RemoveElement
  <2>2. PICK q : Party \ {p} = {q}
    BY <2>1, FS_Singleton
  <2>3. \E x \in Party : x # p
    BY <2>2
  <2>4. Peer(p) \in Party /\ Peer(p) # p
    BY <2>3, Zenon DEF Peer
  <2> QED BY <2>2, <2>4
<1> QED BY <1>1

\* A root key that is derived from another is longer and of the same session.
LEMMA KdfRootType ==
    ASSUME NEW root \in Roots, Len(root) >= 1, NEW a, NEW b,
           a \in KeyPairs \cup {None}, b \in KeyPairs \cup {None}
    PROVE  LET r == KdfRoot(root, DH(a, b)) IN
           r \in Roots /\ Len(r) = Len(root) + 1 /\ r[1] = root[1]
<1>1. DH(a, b) \in Mixed \cup Seq(Mixed)
  BY DEF DH, Mixed
<1> QED BY <1>1 DEF KdfRoot, Roots

\* What the session of a chain key says of the step n steps on.
LEMMA AdvanceType ==
    ASSUME NEW c \in Chains, NEW n \in Nat
    PROVE  /\ Advance(c, n) \in Chains /\ Advance(c, n) # None
           /\ Advance(c, n).root = c.root /\ Advance(c, n).step = c.step + n
  BY NoneAssumption DEF Advance, Chains

\* The first key of a new chain.
LEMMA ChainOfType ==
    ASSUME NEW r \in Roots
    PROVE  ChainOf(r) \in Chains /\ ChainOf(r) # None /\ ChainOf(r).root = r /\ ChainOf(r).step = 0
  BY NoneAssumption DEF ChainOf, Chains

\* The fields of a session.
LEMMA SessionFields ==
    ASSUME NEW s \in Sessions
    PROVE  /\ s # None /\ s.root \in Roots /\ Len(s.root) \in Nat
           /\ s.send \in Chains \cup {None} /\ s.recv \in Chains \cup {None}
           /\ s.send # None => s.send \in Chains /\ s.send.root \in Roots /\ s.send.step \in Nat
           /\ s.recv # None => s.recv \in Chains /\ s.recv.root \in Roots /\ s.recv.step \in Nat
           /\ \A k \in s.skipped : /\ k \in [dh : KeyPairs, seq : Nat, key : Chains]
                                   /\ k.key \in Chains /\ k.key.root \in Roots /\ k.key.step \in Nat
           /\ s.local \in KeyPairs /\ s.remote \in KeyPairs
           /\ s.ns \in Nat /\ s.nr \in Nat /\ s.pn \in Nat /\ s.otk \in KeyPairs \cup {None}
<1>1. s # None /\ s.root \in Roots /\ Len(s.root) \in Nat
  BY NoneAssumption DEF Sessions, Roots
<1> QED BY <1>1 DEF Sessions, Chains

\* When a session can derive a key.
LEMMA DerivesWhen ==
    ASSUME NEW s, NEW c
    PROVE  Derives(s, c) <=>
             \/ s.send # None /\ s.send.root = c.root /\ s.send.step <= c.step
             \/ s.recv # None /\ s.recv.root = c.root /\ s.recv.step <= c.step
             \/ \E k \in s.skipped : k.key = c
  BY DEF Derives

-----------------------------------------------------------------------------
(* What the operations of the engine do to the keys of a session *)

\* What was used stays so: fewer keys, more key pairs.
LEMMA KeysKept ==
    ASSUME NEW p, NEW s, NEW U, NEW f \in Nat, KeysInv(p, s, U, f),
           NEW V \in SUBSET U, NEW g \in Nat, f <= g
    PROVE  KeysInv(p, s, V, g)
  BY DEF KeysInv, Gone, Old

\* A key that was used is on no later root of the session.
LEMMA UsedIsShort ==
    ASSUME NEW p, NEW s, NEW U, NEW f, KeysInv(p, s, U, f),
           NEW r \in Roots, Len(r) > Len(s.root), r[1] = s.root[1]
    PROVE  \A c \in U : c.root # r
<1> SUFFICES ASSUME NEW c \in U, c.root = r PROVE FALSE
  OBVIOUS
<1>1. Len(r) <= Len(s.root) /\ Len(r) \in Nat /\ Len(s.root) \in Nat
  BY SessionFields DEF KeysInv, Gone, Roots
<1> QED BY <1>1

\* The first message on a sending chain derives it, on a new root.
LEMMA WithSendChainKeeps ==
    ASSUME NEW p, NEW s, NEW U, NEW f, KeysInv(p, s, U, f)
    PROVE  LET t == WithSendChain(s) IN
           /\ KeysInv(p, t, U, f) /\ t.send # None
           /\ t.local = s.local /\ t.remote = s.remote /\ t.recv = s.recv
           /\ t.ns = s.ns /\ t.nr = s.nr /\ t.skipped = s.skipped
           /\ IF s.send # None THEN t = s ELSE t.send.step = 0
<1>f. s \in Sessions /\ Len(s.root) >= 1
  BY DEF KeysInv
<1>1. CASE s.send # None
  BY <1>1 DEF WithSendChain
<1>2. CASE s.send = None
  <2> DEFINE root == KdfRoot(s.root, DH(s.local, s.remote))
             t == [s EXCEPT !.root = root, !.send = ChainOf(root)]
  <2>1. /\ root \in Roots /\ Len(root) = Len(s.root) + 1 /\ root[1] = s.root[1]
        /\ Len(s.root) \in Nat
    BY <1>f, SessionFields, KdfRootType
  <2>2. /\ ChainOf(root) \in Chains /\ ChainOf(root) # None
        /\ ChainOf(root).root = root /\ ChainOf(root).step = 0
    BY <2>1, ChainOfType
  <2>3. WithSendChain(s) = t
    BY <1>2 DEF WithSendChain
  <2> HIDE DEF root
  <2>4. /\ t \in Sessions /\ t.root = root /\ t.send = ChainOf(root)
        /\ t.local = s.local /\ t.remote = s.remote /\ t.recv = s.recv
        /\ t.ns = s.ns /\ t.nr = s.nr /\ t.skipped = s.skipped
    BY <1>f, <2>1, <2>2 DEF Sessions
  <2> HIDE DEF t
  <2>5. ChainsApart(s)
    BY DEF KeysInv
  <2>6. \A r : Within(r, s.root) => Within(r, root) /\ r # root
    BY <2>1 DEF Within
  <2>7. ChainsApart(t)
    BY <2>2, <2>4, <2>5, <2>6 DEF ChainsApart
  <2>8. \A c \in U : Gone(p, t, f, c)
    <3> SUFFICES ASSUME NEW c \in U PROVE Gone(p, t, f, c)
      OBVIOUS
    <3>1. Gone(p, s, f, c)
      BY DEF KeysInv
    <3>2. c.root # root
      BY <2>1, UsedIsShort
    <3>3. ~Derives(t, c)
      BY <2>2, <2>4, <3>1, <3>2, DerivesWhen DEF Gone
    <3>4. c.root \in Roots /\ Len(c.root) \in Nat
      BY <3>1 DEF Gone, Chains, Roots
    <3> QED BY <2>1, <2>4, <3>1, <3>3, <3>4 DEF Gone
  <2>9. Old(p, f, root)
    BY <2>1 DEF KeysInv, Old
  <2>10. KeysInv(p, t, U, f)
    BY <2>1, <2>4, <2>7, <2>8, <2>9 DEF KeysInv
  <2> QED BY <1>2, <2>2, <2>3, <2>4, <2>10
<1> QED BY <1>1, <1>2

\* A message is sealed with a key that was never used, and that is gone then.
LEMMA NextSendKeeps ==
    ASSUME NEW p, NEW s, NEW U, NEW f, KeysInv(p, s, U, f), s.send # None
    PROVE  /\ KeysInv(p, NextSend(s), U \cup {s.send}, f)
           /\ s.send \notin U /\ s.send \in Chains
           /\ NextSend(s).local = s.local /\ NextSend(s).remote = s.remote
           /\ NextSend(s).recv = s.recv /\ NextSend(s).nr = s.nr
           /\ NextSend(s).send # None /\ NextSend(s).send.step = s.send.step + 1
           /\ NextSend(s).ns = s.ns + 1
<1> DEFINE t == NextSend(s)
<1>f. s \in Sessions /\ Len(s.root) >= 1 /\ ChainsApart(s) /\ Old(p, f, s.root)
  BY DEF KeysInv
<1>1. /\ s.send \in Chains /\ s.send.root \in Roots /\ s.send.step \in Nat /\ s.ns \in Nat
      /\ s.send.root = s.root /\ Len(s.root) \in Nat
  BY <1>f, SessionFields DEF ChainsApart
<1>2. /\ Advance(s.send, 1) \in Chains /\ Advance(s.send, 1) # None
      /\ Advance(s.send, 1).root = s.root /\ Advance(s.send, 1).step = s.send.step + 1
  BY <1>1, AdvanceType
<1>3. /\ t \in Sessions /\ t.root = s.root /\ t.send = Advance(s.send, 1)
      /\ t.local = s.local /\ t.remote = s.remote /\ t.recv = s.recv
      /\ t.ns = s.ns + 1 /\ t.nr = s.nr /\ t.skipped = s.skipped
  <2>1. PICK a \in Chains : a = Advance(s.send, 1)
    BY <1>2
  <2>2. t = [s EXCEPT !.send = a, !.ns = @ + 1]
    BY <1>f, <2>1 DEF NextSend, Sessions
  <2> HIDE DEF t
  <2>3. PICK n \in Nat : n = s.ns + 1
    BY <1>1
  <2>4. t = [s EXCEPT !.send = a, !.ns = n]
    BY <1>f, <2>2, <2>3 DEF Sessions
  <2>5. /\ t \in Sessions /\ t.root = s.root /\ t.send = a
        /\ t.local = s.local /\ t.remote = s.remote /\ t.recv = s.recv
        /\ t.ns = n /\ t.nr = s.nr /\ t.skipped = s.skipped
    BY <1>f, <2>1, <2>3, <2>4 DEF Sessions
  <2> QED BY <2>1, <2>3, <2>5
<1> HIDE DEF t
<1>4. ChainsApart(t)
  BY <1>f, <1>1, <1>2, <1>3 DEF ChainsApart
<1>5. s.send \notin U
  BY <1>1, DerivesWhen DEF KeysInv, Gone
<1>6. \A c \in U \cup {s.send} : Gone(p, t, f, c)
  <2> SUFFICES ASSUME NEW c \in U \cup {s.send} PROVE Gone(p, t, f, c)
    OBVIOUS
  <2>1. CASE c \in U
    <3>1. Gone(p, s, f, c)
      BY <2>1 DEF KeysInv
    <3>2. c.step \in Nat
      BY <3>1 DEF Gone, Chains
    <3>3. ~Derives(t, c)
      BY <1>1, <1>2, <1>3, <3>1, <3>2, DerivesWhen DEF Gone
    <3> QED BY <1>3, <3>1, <3>3 DEF Gone
  <2>2. CASE c = s.send
    <3>1. \A k \in s.skipped : k.key # c
      BY <1>f, <1>1, <2>2 DEF ChainsApart
    <3>2. ~Derives(t, c)
      BY <1>f, <1>1, <1>2, <1>3, <2>2, <3>1, DerivesWhen DEF ChainsApart
    <3> QED BY <1>f, <1>1, <1>3, <2>2, <3>2 DEF Gone
  <2> QED BY <2>1, <2>2
<1>7. KeysInv(p, t, U \cup {s.send}, f)
  BY <1>f, <1>3, <1>4, <1>6 DEF KeysInv
<1> QED BY <1>1, <1>2, <1>3, <1>5, <1>7 DEF t

\* Skip, where it does something.
Skipping(s, until) ==
    {[dh |-> s.remote, seq |-> i, key |-> Advance(s.recv, i - s.nr)] : i \in s.nr..(until - 1)}

\* The fields of a session after skipMessageKeys.
LEMMA SkipFields ==
    ASSUME NEW s \in Sessions, NEW until \in Nat
    PROVE  LET t == Skip(s, until) IN
           /\ t \in Sessions
           /\ t.root = s.root /\ t.send = s.send /\ t.local = s.local /\ t.remote = s.remote
           /\ t.ns = s.ns /\ t.pn = s.pn
           /\ s.recv = None <=> t.recv = None
           /\ IF s.recv = None \/ until <= s.nr THEN t = s
              ELSE /\ t.skipped = s.skipped \cup Skipping(s, until)
                   /\ t.recv = Advance(s.recv, until - s.nr) /\ t.nr = until
<1>1. CASE s.recv = None \/ until <= s.nr
  BY <1>1 DEF Skip
<1>2. CASE ~(s.recv = None \/ until <= s.nr)
  <2> DEFINE new == Skipping(s, until)
             t == Skip(s, until)
  <2>1. /\ s.recv \in Chains /\ s.nr \in Nat /\ s.remote \in KeyPairs
    BY <1>2, SessionFields
  <2>2. PICK a \in Chains : a = Advance(s.recv, until - s.nr) /\ a # None
    <3>1. until - s.nr \in Nat
      BY <1>2, <2>1
    <3> QED BY <2>1, <3>1, AdvanceType
  <2>3. new \in SUBSET [dh : KeyPairs, seq : Nat, key : Chains]
    <3> SUFFICES ASSUME NEW i \in s.nr..(until - 1)
                 PROVE  i \in Nat /\ Advance(s.recv, i - s.nr) \in Chains
      BY <2>1 DEF Skipping
    <3>1. i \in Nat /\ i - s.nr \in Nat
      BY <2>1
    <3> QED BY <2>1, <3>1, AdvanceType
  <2>4. t = [s EXCEPT !.skipped = @ \cup new, !.recv = a, !.nr = until]
    BY <1>2, <2>2 DEF Skip, Skipping, Sessions
  <2> HIDE DEF t, new
  <2>5. PICK k \in SUBSET [dh : KeyPairs, seq : Nat, key : Chains] : k = s.skipped \cup new
    BY <2>3 DEF Sessions
  <2>6. t = [s EXCEPT !.skipped = k, !.recv = a, !.nr = until]
    BY <2>4, <2>5 DEF Sessions
  <2>7. /\ t \in Sessions /\ t.skipped = k /\ t.recv = a /\ t.nr = until
        /\ t.root = s.root /\ t.send = s.send /\ t.local = s.local /\ t.remote = s.remote
        /\ t.ns = s.ns /\ t.pn = s.pn
    BY <2>2, <2>5, <2>6 DEF Sessions
  <2> QED BY <1>2, <2>2, <2>5, <2>7 DEF t, new
<1> QED BY <1>1, <1>2

\* The keys that are put aside are those of the steps that the chain is advanced.
LEMMA SkippingKeys ==
    ASSUME NEW s \in Sessions, s.recv # None, NEW until \in Nat
    PROVE  /\ \A k \in Skipping(s, until) :
                 /\ k.key \in Chains /\ k.key.root = s.recv.root
                 /\ k.key.step >= s.recv.step
                 /\ k.key.step < s.recv.step + (until - s.nr)
                 /\ k.seq \in s.nr..(until - 1) /\ k.key.step = s.recv.step + (k.seq - s.nr)
                 /\ k.dh = s.remote
           /\ \A k1, k2 \in Skipping(s, until) : k1.key = k2.key => k1 = k2
<1>1. s.recv \in Chains /\ s.recv.step \in Nat /\ s.nr \in Nat
  BY SessionFields
<1>2. \A i \in s.nr..(until - 1) :
         /\ Advance(s.recv, i - s.nr) \in Chains /\ Advance(s.recv, i - s.nr).root = s.recv.root
         /\ Advance(s.recv, i - s.nr).step = s.recv.step + (i - s.nr)
  <2> SUFFICES ASSUME NEW i \in s.nr..(until - 1)
               PROVE  /\ Advance(s.recv, i - s.nr) \in Chains
                      /\ Advance(s.recv, i - s.nr).root = s.recv.root
                      /\ Advance(s.recv, i - s.nr).step = s.recv.step + (i - s.nr)
    OBVIOUS
  <2>1. i - s.nr \in Nat
    BY <1>1
  <2> QED BY <1>1, <2>1, AdvanceType
<1>3. \A k \in Skipping(s, until) : \E i \in s.nr..(until - 1) :
         /\ k = [dh |-> s.remote, seq |-> i, key |-> Advance(s.recv, i - s.nr)]
         /\ k.seq = i /\ k.key = Advance(s.recv, i - s.nr) /\ k.dh = s.remote
  BY DEF Skipping
<1>4. \A k1, k2 \in Skipping(s, until) : k1.key = k2.key => k1 = k2
  <2> SUFFICES ASSUME NEW k1 \in Skipping(s, until), NEW k2 \in Skipping(s, until), k1.key = k2.key
               PROVE  k1 = k2
    OBVIOUS
  <2>1. k1.seq \in s.nr..(until - 1) /\ k2.seq \in s.nr..(until - 1)
    BY <1>3
  <2>2. s.recv.step + (k1.seq - s.nr) = s.recv.step + (k2.seq - s.nr)
    BY <1>2, <1>3
  <2>3. k1.seq = k2.seq
    BY <1>1, <2>1, <2>2
  <2> QED BY <1>3, <2>3
<1>5. ASSUME NEW k \in Skipping(s, until)
      PROVE  /\ k.key \in Chains /\ k.key.root = s.recv.root
             /\ k.key.step >= s.recv.step
             /\ k.key.step < s.recv.step + (until - s.nr)
             /\ k.seq \in s.nr..(until - 1) /\ k.key.step = s.recv.step + (k.seq - s.nr)
             /\ k.dh = s.remote
  BY <1>1, <1>2, <1>3
<1> QED BY <1>4, <1>5

\* The keys of messages that are passed over were never used.
LEMMA SkipKeeps ==
    ASSUME NEW p, NEW s, NEW U, NEW f, KeysInv(p, s, U, f), NEW until \in Nat
    PROVE  KeysInv(p, Skip(s, until), U, f)
<1> DEFINE t == Skip(s, until)
           new == Skipping(s, until)
<1>f. s \in Sessions /\ Len(s.root) >= 1 /\ ChainsApart(s) /\ Old(p, f, s.root)
  BY DEF KeysInv
<1>1. CASE s.recv = None \/ until <= s.nr
  BY <1>1, <1>f, SkipFields
<1>2. CASE ~(s.recv = None \/ until <= s.nr)
  <2>1. /\ t \in Sessions /\ t.root = s.root /\ t.send = s.send
        /\ t.skipped = s.skipped \cup new /\ t.recv = Advance(s.recv, until - s.nr) /\ t.recv # None
    BY <1>2, <1>f, SkipFields
  <2>2. /\ s.recv \in Chains /\ s.recv.step \in Nat /\ s.nr \in Nat /\ until - s.nr \in Nat
        /\ until - s.nr > 0 /\ s.recv # None
    BY <1>2, <1>f, SessionFields
  <2>3. t.recv.root = s.recv.root /\ t.recv.step = s.recv.step + (until - s.nr)
    BY <2>1, <2>2, AdvanceType
  <2>4. /\ \A k \in new : /\ k.key \in Chains /\ k.key.root = s.recv.root
                          /\ k.key.step >= s.recv.step /\ k.key.step < t.recv.step
        /\ \A k1, k2 \in new : k1.key = k2.key => k1 = k2
    BY <1>f, <2>2, <2>3, SkippingKeys
  <2> HIDE DEF t, new
  <2>5. \A k \in s.skipped : /\ k.key.step \in Nat
                             /\ k.key.root = s.recv.root => k.key.step < s.recv.step
                             /\ Within(k.key.root, s.root)
                             /\ s.send # None => k.key.root # s.send.root
    BY <1>f, SessionFields DEF ChainsApart
  <2>6. \A k \in s.skipped, n \in new : k.key # n.key
    <3> SUFFICES ASSUME NEW k \in s.skipped, NEW n \in new, k.key = n.key PROVE FALSE
      OBVIOUS
    <3>1. n.key.root = s.recv.root /\ n.key.step >= s.recv.step
      BY <2>4
    <3> QED BY <2>2, <2>5, <3>1
  <2>7. ChainsApart(t)
    <3>1. \A k \in t.skipped : /\ Within(k.key.root, t.root)
                               /\ t.send # None => k.key.root # t.send.root
                               /\ k.key.root = t.recv.root => k.key.step < t.recv.step
      <4> SUFFICES ASSUME NEW k \in t.skipped
                   PROVE  /\ Within(k.key.root, t.root)
                          /\ t.send # None => k.key.root # t.send.root
                          /\ k.key.root = t.recv.root => k.key.step < t.recv.step
        OBVIOUS
      <4>1. CASE k \in s.skipped
        BY <2>1, <2>2, <2>3, <2>5, <4>1
      <4>2. CASE k \in new
        BY <1>f, <2>1, <2>2, <2>3, <2>4, <4>2 DEF ChainsApart
      <4> QED BY <2>1, <4>1, <4>2
    <3>2. \A k1, k2 \in t.skipped : k1.key = k2.key => k1 = k2
      BY <1>f, <2>1, <2>4, <2>6 DEF ChainsApart
    <3> QED BY <1>f, <2>1, <2>2, <2>3, <3>1, <3>2 DEF ChainsApart
  <2>8. \A c \in U : Gone(p, t, f, c)
    <3> SUFFICES ASSUME NEW c \in U PROVE Gone(p, t, f, c)
      OBVIOUS
    <3>1. Gone(p, s, f, c)
      BY DEF KeysInv
    <3>2. c.step \in Nat
      BY <3>1 DEF Gone, Chains
    <3>3. \A k \in new : k.key # c
      <4> SUFFICES ASSUME NEW k \in new, k.key = c PROVE FALSE
        OBVIOUS
      <4>1. c.root = s.recv.root /\ c.step >= s.recv.step
        BY <2>4
      <4> QED BY <2>2, <3>1, <3>2, <4>1, DerivesWhen DEF Gone
    <3>4. ~Derives(s, c)
      BY <3>1 DEF Gone
    <3>5. \A k \in t.skipped : k.key # c
      BY <2>1, <3>3, <3>4, DerivesWhen
    <3>6. ~(t.send # None /\ t.send.root = c.root /\ t.send.step <= c.step)
      BY <2>1, <3>4, DerivesWhen
    <3>7. ~(t.recv # None /\ t.recv.root = c.root /\ t.recv.step <= c.step)
      BY <2>2, <2>3, <3>2, <3>4, DerivesWhen
    <3>8. ~Derives(t, c)
      BY <3>5, <3>6, <3>7, DerivesWhen
    <3> QED BY <2>1, <3>1, <3>8 DEF Gone
  <2> QED BY <1>f, <2>1, <2>7, <2>8 DEF KeysInv, t
<1> QED BY <1>1, <1>2

\* The fields of a session after a ratchet turn.
LEMMA TurnFields ==
    ASSUME NEW s \in Sessions, Len(s.root) >= 1, NEW dh \in KeyPairs, NEW dhs \in KeyPairs
    PROVE  LET t == DhRatchetStep(s, dh, dhs) IN
           /\ t \in Sessions /\ t.skipped = s.skipped
           /\ t.recv \in Chains /\ t.recv # None /\ t.recv.step = 0
           /\ t.recv.root = KdfRoot(s.root, DH(s.local, dh))
           /\ t.send \in Chains /\ t.send # None /\ t.send.step = 0
           /\ t.send.root = KdfRoot(t.recv.root, DH(dhs, dh)) /\ t.root = t.send.root
           /\ t.recv.root \in Roots /\ t.send.root \in Roots
           /\ Len(t.recv.root) = Len(s.root) + 1 /\ t.recv.root[1] = s.root[1]
           /\ Len(t.send.root) = Len(s.root) + 2 /\ t.send.root[1] = s.root[1]
           /\ t.local = dhs /\ t.remote = dh /\ t.ns = 0 /\ t.nr = 0 /\ t.pn = s.ns
<1> DEFINE root1 == KdfRoot(s.root, DH(s.local, dh))
           root2 == KdfRoot(root1, DH(dhs, dh))
           t == DhRatchetStep(s, dh, dhs)
<1>1. /\ s.root \in Roots /\ s.local \in KeyPairs /\ s.ns \in Nat /\ Len(s.root) \in Nat
  BY SessionFields
<1>2. root1 \in Roots /\ Len(root1) = Len(s.root) + 1 /\ root1[1] = s.root[1]
  BY <1>1, KdfRootType
<1>3. root2 \in Roots /\ Len(root2) = Len(s.root) + 2 /\ root2[1] = s.root[1]
  <2> HIDE DEF root1
  <2> QED BY <1>1, <1>2, KdfRootType
<1>4. /\ ChainOf(root1) \in Chains /\ ChainOf(root1) # None
      /\ ChainOf(root1).root = root1 /\ ChainOf(root1).step = 0
  <2> HIDE DEF root1
  <2> QED BY <1>2, ChainOfType
<1>5. /\ ChainOf(root2) \in Chains /\ ChainOf(root2) # None
      /\ ChainOf(root2).root = root2 /\ ChainOf(root2).step = 0
  <2> HIDE DEF root2
  <2> QED BY <1>3, ChainOfType
<1>6. PICK c1 \in Chains, c2 \in Chains : c1 = ChainOf(root1) /\ c2 = ChainOf(root2)
  BY <1>4, <1>5
<1>7. t = [s EXCEPT !.pn = s.ns, !.ns = 0, !.nr = 0, !.remote = dh,
                    !.recv = c1, !.local = dhs, !.root = root2, !.send = c2]
  BY <1>6 DEF DhRatchetStep
<1> HIDE DEF root1, root2, t
<1>8. /\ t \in Sessions /\ t.skipped = s.skipped /\ t.recv = c1 /\ t.send = c2
      /\ t.root = root2 /\ t.local = dhs /\ t.remote = dh /\ t.ns = 0 /\ t.nr = 0 /\ t.pn = s.ns
  BY <1>1, <1>3, <1>6, <1>7 DEF Sessions
<1> QED BY <1>2, <1>3, <1>4, <1>5, <1>6, <1>8 DEF root1, root2, t

\* The chains of a ratchet turn are on new roots.
LEMMA TurnKeeps ==
    ASSUME NEW p, NEW s, NEW U, NEW f, KeysInv(p, s, U, f),
           NEW dh \in KeyPairs, NEW dhs \in KeyPairs
    PROVE  KeysInv(p, DhRatchetStep(s, dh, dhs), U, f)
<1>f. s \in Sessions /\ Len(s.root) >= 1 /\ ChainsApart(s) /\ Old(p, f, s.root)
      /\ Len(s.root) \in Nat
  BY SessionFields DEF KeysInv
<1>1. PICK t : t = DhRatchetStep(s, dh, dhs)
  OBVIOUS
<1>2. /\ t \in Sessions /\ t.skipped = s.skipped
      /\ t.recv # None /\ t.send # None /\ t.root = t.send.root
      /\ t.recv.root \in Roots /\ t.send.root \in Roots
      /\ Len(t.recv.root) = Len(s.root) + 1 /\ t.recv.root[1] = s.root[1]
      /\ Len(t.send.root) = Len(s.root) + 2 /\ t.send.root[1] = s.root[1]
  BY <1>f, <1>1, TurnFields
<1>3. \A r : Within(r, s.root) => Within(r, t.root) /\ r # t.recv.root /\ r # t.send.root
  BY <1>f, <1>2 DEF Within
<1>4. ChainsApart(t)
  <2>1. Within(t.recv.root, t.root) /\ t.recv.root # t.send.root
    BY <1>f, <1>2 DEF Within
  <2>2. \A k \in t.skipped : /\ Within(k.key.root, t.root)
                             /\ k.key.root # t.send.root /\ k.key.root # t.recv.root
    BY <1>f, <1>2, <1>3 DEF ChainsApart
  <2>3. \A k1, k2 \in t.skipped : k1.key = k2.key => k1 = k2
    BY <1>f, <1>2 DEF ChainsApart
  <2> QED BY <1>2, <2>1, <2>2, <2>3 DEF ChainsApart
<1>5. \A c \in U : Gone(p, t, f, c)
  <2> SUFFICES ASSUME NEW c \in U PROVE Gone(p, t, f, c)
    OBVIOUS
  <2>1. Gone(p, s, f, c)
    BY DEF KeysInv
  <2>2. c.root # t.recv.root /\ c.root # t.send.root
    BY <1>f, <1>2, UsedIsShort
  <2>3. \A k \in t.skipped : k.key # c
    BY <1>2, <2>1, DerivesWhen DEF Gone
  <2>4. ~Derives(t, c)
    BY <2>2, <2>3, DerivesWhen
  <2>5. c.root \in Roots /\ Len(c.root) \in Nat
    BY <2>1 DEF Gone, Chains, Roots
  <2> QED BY <1>f, <1>2, <2>1, <2>4, <2>5 DEF Gone
<1>6. Old(p, f, t.root)
  BY <1>f, <1>2 DEF Old
<1>7. KeysInv(p, t, U, f)
  BY <1>f, <1>2, <1>4, <1>5, <1>6 DEF KeysInv
<1> QED BY <1>1, <1>7

\* The session after decrypt has taken the next key of its receiving chain.
NextRecv(s) == [s EXCEPT !.recv = Advance(@, 1), !.nr = @ + 1]

\* The next key of the receiving chain was never used, and is gone when the
\* chain has gone on.
LEMMA AdvanceKeeps ==
    ASSUME NEW p, NEW s, NEW U, NEW f, KeysInv(p, s, U, f), s.recv # None
    PROVE  LET t == NextRecv(s) IN
           /\ KeysInv(p, t, U \cup {s.recv}, f)
           /\ s.recv \in Chains /\ s.recv \notin U
           /\ t \in Sessions /\ t.root = s.root /\ t.send = s.send
           /\ t.local = s.local /\ t.remote = s.remote /\ t.skipped = s.skipped
           /\ t.ns = s.ns /\ t.pn = s.pn /\ t.nr = s.nr + 1
           /\ t.recv # None /\ t.recv.root = s.recv.root /\ t.recv.step = s.recv.step + 1
<1>f. s \in Sessions /\ Len(s.root) >= 1 /\ ChainsApart(s) /\ Old(p, f, s.root)
  BY DEF KeysInv
<1>1. /\ s.recv \in Chains /\ s.recv.root \in Roots /\ s.recv.step \in Nat /\ s.nr \in Nat
      /\ Len(s.root) \in Nat
      /\ Within(s.recv.root, s.root)
      /\ \A k \in s.skipped : k.key.step \in Nat
  BY <1>f, SessionFields DEF ChainsApart
<1>2. PICK a \in Chains : /\ a = Advance(s.recv, 1) /\ a # None
                          /\ a.root = s.recv.root /\ a.step = s.recv.step + 1
  BY <1>1, AdvanceType
<1>3. PICK n \in Nat : n = s.nr + 1
  BY <1>1
<1>4. PICK t : t = NextRecv(s)
  OBVIOUS
<1>5. t = [s EXCEPT !.recv = a, !.nr = n]
  BY <1>f, <1>2, <1>3, <1>4 DEF Sessions, NextRecv
<1>6. /\ t \in Sessions /\ t.root = s.root /\ t.send = s.send /\ t.recv = a
      /\ t.local = s.local /\ t.remote = s.remote /\ t.skipped = s.skipped
      /\ t.ns = s.ns /\ t.pn = s.pn /\ t.nr = n
  BY <1>f, <1>2, <1>5 DEF Sessions
<1>7. ChainsApart(t)
  BY <1>f, <1>1, <1>2, <1>6 DEF ChainsApart
<1>8. s.recv \notin U
  BY <1>1, DerivesWhen DEF KeysInv, Gone
<1>9. \A c \in U \cup {s.recv} : Gone(p, t, f, c)
  <2> SUFFICES ASSUME NEW c \in U \cup {s.recv} PROVE Gone(p, t, f, c)
    OBVIOUS
  <2>1. CASE c \in U
    <3>1. Gone(p, s, f, c)
      BY <2>1 DEF KeysInv
    <3>2. c.step \in Nat
      BY <3>1 DEF Gone, Chains
    <3>3. ~Derives(t, c)
      BY <1>1, <1>2, <1>6, <3>1, <3>2, DerivesWhen DEF Gone
    <3> QED BY <1>6, <3>1, <3>3 DEF Gone
  <2>2. CASE c = s.recv
    <3>1. \A k \in s.skipped : k.key # c
      BY <1>f, <1>1, <2>2 DEF ChainsApart
    <3>2. ~Derives(t, c)
      BY <1>f, <1>1, <1>2, <1>6, <2>2, <3>1, DerivesWhen DEF ChainsApart
    <3>3. c.root[1] = s.root[1] /\ Len(c.root) >= 1 /\ Len(c.root) <= Len(s.root)
      BY <1>1, <2>2 DEF Within
    <3>4. Old(p, f, c.root)
      BY <1>f, <3>3 DEF Old
    <3> QED BY <1>1, <1>6, <2>2, <3>2, <3>3, <3>4 DEF Gone
  <2> QED BY <2>1, <2>2
<1>10. KeysInv(p, t, U \cup {s.recv}, f)
  BY <1>f, <1>6, <1>7, <1>9 DEF KeysInv
<1> QED BY <1>1, <1>2, <1>3, <1>4, <1>6, <1>8, <1>10

\* A key that was put aside was never used, and is gone when it is removed.
LEMMA SkippedKeeps ==
    ASSUME NEW p, NEW s, NEW U, NEW f, KeysInv(p, s, U, f), NEW k \in s.skipped
    PROVE  LET t == [s EXCEPT !.skipped = @ \ {k}] IN
           /\ KeysInv(p, t, U \cup {k.key}, f)
           /\ k.key \in Chains /\ k.key \notin U
           /\ t \in Sessions /\ t.root = s.root /\ t.send = s.send /\ t.recv = s.recv
           /\ t.local = s.local /\ t.remote = s.remote /\ t.skipped = s.skipped \ {k}
           /\ t.ns = s.ns /\ t.pn = s.pn /\ t.nr = s.nr
<1>f. s \in Sessions /\ Len(s.root) >= 1 /\ ChainsApart(s) /\ Old(p, f, s.root)
  BY DEF KeysInv
<1>1. /\ k.key \in Chains /\ k.key.root \in Roots /\ k.key.step \in Nat /\ Len(s.root) \in Nat
      /\ s.recv # None => s.recv.step \in Nat
      /\ s.recv # None
      /\ Within(k.key.root, s.root)
  BY <1>f, SessionFields DEF ChainsApart
<1>2. PICK t : t = [s EXCEPT !.skipped = @ \ {k}]
  OBVIOUS
<1>3. /\ t \in Sessions /\ t.root = s.root /\ t.send = s.send /\ t.recv = s.recv
      /\ t.local = s.local /\ t.remote = s.remote /\ t.skipped = s.skipped \ {k}
      /\ t.ns = s.ns /\ t.pn = s.pn /\ t.nr = s.nr
  BY <1>f, <1>2 DEF Sessions
<1>4. ChainsApart(t)
  BY <1>f, <1>1, <1>3 DEF ChainsApart
<1>5. k.key \notin U
  BY DerivesWhen DEF KeysInv, Gone
<1>6. \A c \in U \cup {k.key} : Gone(p, t, f, c)
  <2> SUFFICES ASSUME NEW c \in U \cup {k.key} PROVE Gone(p, t, f, c)
    OBVIOUS
  <2>1. CASE c \in U
    <3>1. Gone(p, s, f, c)
      BY <2>1 DEF KeysInv
    <3>2. ~Derives(t, c)
      BY <1>3, <3>1, DerivesWhen DEF Gone
    <3> QED BY <1>3, <3>1, <3>2 DEF Gone
  <2>2. CASE c = k.key
    <3>1. \A j \in t.skipped : j.key # c
      BY <1>f, <1>3, <2>2 DEF ChainsApart
    <3>2. ~Derives(t, c)
      BY <1>f, <1>1, <1>3, <2>2, <3>1, DerivesWhen DEF ChainsApart
    <3>3. c.root[1] = s.root[1] /\ Len(c.root) >= 1 /\ Len(c.root) <= Len(s.root)
      BY <1>1, <2>2 DEF Within
    <3>4. Old(p, f, c.root)
      BY <1>f, <3>3 DEF Old
    <3> QED BY <1>1, <1>3, <2>2, <3>2, <3>3, <3>4 DEF Gone
  <2> QED BY <2>1, <2>2
<1>7. KeysInv(p, t, U \cup {k.key}, f)
  BY <1>f, <1>3, <1>4, <1>6 DEF KeysInv
<1> QED BY <1>1, <1>2, <1>3, <1>5, <1>7

\* The session is advanced to the key of m, on the chain of m.
LEMMA NextKeeps ==
    ASSUME NEW p, NEW s, NEW U, NEW f, KeysInv(p, s, U, f), StepsOK(s),
           NEW m \in Envelopes, NEW dhs \in KeyPairs, s.recv = None => Turns(s, m),
           NEW t, t = Skip(OnChain(s, m, dhs), m.seq),
           NEW u, u = NextRecv(t)
    PROVE  /\ KeysInv(p, u, U \cup {t.recv}, f) /\ StepsOK(u)
           /\ t.recv \in Chains /\ t.recv \notin U /\ u.recv # None
           /\ u.remote = m.dh /\ u.local = IF Turns(s, m) THEN dhs ELSE s.local
<1>1. PICK o : o = OnChain(s, m, dhs)
  OBVIOUS
<1>m. m.pn \in Nat /\ m.seq \in Nat /\ m.dh \in KeyPairs
  BY DEF Envelopes
<1>2. /\ KeysInv(p, o, U, f) /\ StepsOK(o) /\ o.recv # None
      /\ o.remote = m.dh /\ o.local = IF Turns(s, m) THEN dhs ELSE s.local
  <2>1. CASE Turns(s, m)
    <3>1. PICK k : k = Skip(s, m.pn)
      OBVIOUS
    <3>2. KeysInv(p, k, U, f)
      BY <1>m, <3>1, SkipKeeps
    <3>3. k \in Sessions /\ Len(k.root) >= 1
      BY <3>2 DEF KeysInv
    <3>4. o = DhRatchetStep(k, m.dh, dhs)
      BY <1>1, <2>1, <3>1 DEF OnChain
    <3>5. KeysInv(p, o, U, f)
      BY <1>m, <3>2, <3>4, TurnKeeps
    <3>6. /\ o.recv # None /\ o.recv.step = 0 /\ o.nr = 0 /\ o.send.step = 0 /\ o.ns = 0
          /\ o.remote = m.dh /\ o.local = dhs
      BY <1>m, <3>3, <3>4, TurnFields
    <3> QED BY <2>1, <3>5, <3>6 DEF StepsOK
  <2>2. CASE ~Turns(s, m)
    BY <1>1, <2>2 DEF OnChain, Turns
  <2> QED BY <2>1, <2>2
<1>o. o \in Sessions
  BY <1>2 DEF KeysInv
<1>3. t = Skip(o, m.seq)
  BY <1>1
<1>4. /\ KeysInv(p, t, U, f) /\ t.recv # None /\ t.remote = o.remote /\ t.local = o.local
  BY <1>2, <1>3, <1>m, <1>o, SkipKeeps, SkipFields
<1>5. StepsOK(t)
  <2>1. CASE m.seq <= o.nr
    BY <1>2, <1>3, <1>m, <1>o, <2>1, SkipFields
  <2>2. CASE ~(m.seq <= o.nr)
    <3>1. t.recv = Advance(o.recv, m.seq - o.nr) /\ t.nr = m.seq /\ t.send = o.send /\ t.ns = o.ns
      BY <1>2, <1>3, <1>m, <1>o, <2>2, SkipFields
    <3>2. o.recv \in Chains /\ o.nr \in Nat /\ m.seq - o.nr \in Nat
      BY <1>2, <1>m, <1>o, <2>2, SessionFields
    <3>3. t.recv.step = o.recv.step + (m.seq - o.nr)
      BY <3>1, <3>2, AdvanceType
    <3> QED BY <1>2, <1>m, <3>1, <3>2, <3>3 DEF StepsOK
  <2> QED BY <2>1, <2>2
<1>7. /\ KeysInv(p, u, U \cup {t.recv}, f)
      /\ t.recv \in Chains /\ t.recv \notin U /\ u.recv # None
      /\ u.remote = t.remote /\ u.local = t.local
      /\ u.nr = t.nr + 1 /\ u.recv.step = t.recv.step + 1 /\ u.send = t.send /\ u.ns = t.ns
  BY <1>4, AdvanceKeeps
<1>8. StepsOK(u)
  BY <1>4, <1>5, <1>7 DEF StepsOK
<1> QED BY <1>2, <1>4, <1>7, <1>8

\* A list of DH outputs, and the second of them.
LEMMA FourMixed ==
    ASSUME NEW a \in Mixed, NEW b \in Mixed, NEW c \in Mixed, NEW d \in Mixed
    PROVE  <<a, b, c, d>> \in Seq(Mixed) /\ <<a, b, c, d>>[2] = b
  OBVIOUS

\* The same, without a one-time pre-key.
LEMMA ThreeMixed ==
    ASSUME NEW a \in Mixed, NEW b \in Mixed, NEW c \in Mixed
    PROVE  <<a, b, c>> \in Seq(Mixed) /\ Len(<<a, b, c>>) = 3 /\ <<a, b, c>>[2] = b
  OBVIOUS

\* One more.
LEMMA OneMoreMixed ==
    ASSUME NEW base \in Seq(Mixed), Len(base) = 3, NEW d \in Mixed
    PROVE  Append(base, d) \in Seq(Mixed) /\ Append(base, d)[2] = base[2]
<1>1. PICK longer : longer = Append(base, d)
  OBVIOUS
<1>2. longer \in Seq(Mixed) /\ \A i \in 1..Len(base) : longer[i] = base[i]
  BY <1>1, AppendProperties, SMTT(40)
<1>3. 2 \in 1..Len(base)
  OBVIOUS
<1>4. longer[2] = base[2]
  BY <1>2, <1>3, Zenon
<1> QED BY <1>1, <1>2, <1>4, Zenon

\* The first root key of a session.
LEMMA FirstRoot ==
    ASSUME NEW x \in Seq(Mixed), NEW a, NEW b,
           a \in KeyPairs \cup {None}, b \in KeyPairs \cup {None}
    PROVE  LET r == KdfRoot(<<x>>, DH(a, b)) IN r \in Roots /\ Len(r) = 2 /\ r[1] = x
<1>1. PICK first : first = <<x>>
  OBVIOUS
<1>2. first \in Roots /\ Len(first) = 1 /\ first[1] = x
  BY <1>1 DEF Roots
<1>3. Len(first) >= 1
  BY <1>2
<1>4. PICK r : r = KdfRoot(first, DH(a, b))
  OBVIOUS
<1>5. r \in Roots /\ Len(r) = Len(first) + 1 /\ r[1] = first[1]
  BY <1>2, <1>3, <1>4, KdfRootType
<1> QED BY <1>1, <1>2, <1>4, <1>5

\* A session that is initiated from a bundle is apart from everything before it:
\* its X3DH output was made with a new key pair.
LEMMA AliceKeeps ==
    ASSUME NEW p \in Party, NEW U, NEW f \in Nat, NEW s, KeysInv(p, s, U, f) \/ U = {},
           NEW bundle \in [spk : KeyPairs, otk : KeyPairs],
           bundle.spk.of = Peer(p), bundle.otk.of = Peer(p)
    PROVE  LET t == AliceSession(p, KeyPair(p, f), bundle) IN
           /\ KeysInv(p, t, U, f + 1) /\ StepsOK(t)
           /\ t.local = KeyPair(p, f) /\ t.remote = bundle.spk /\ t.send # None
           /\ Len(t.root) = 2 /\ t.root[1][2] = DH(KeyPair(p, f), Identity(Peer(p)))
<1>k. PICK ek : ek = KeyPair(p, f)
  OBVIOUS
<1>e. ek \in KeyPairs /\ ek.of = p /\ ek.n = f
  BY <1>k DEF KeyPair, KeyPairs
<1>1. /\ Identity(Peer(p)) \in KeyPairs /\ Identity(Peer(p)).of = Peer(p)
      /\ Identity(p) \in KeyPairs
      /\ bundle.spk \in KeyPairs /\ bundle.otk \in KeyPairs
  BY Peers DEF KeyPair, KeyPairs, Identity
<1>2. /\ DH(Identity(p), bundle.spk) \in Mixed /\ DH(ek, Identity(Peer(p))) \in Mixed
      /\ DH(ek, bundle.spk) \in Mixed /\ DH(ek, bundle.otk) \in Mixed
  BY <1>e, <1>1 DEF DH, Mixed
<1>x. PICK x3dh : x3dh = <<DH(Identity(p), bundle.spk), DH(ek, Identity(Peer(p))),
                           DH(ek, bundle.spk), DH(ek, bundle.otk)>>
  OBVIOUS
<1>3. x3dh \in Seq(Mixed) /\ x3dh[2] = DH(ek, Identity(Peer(p)))
  BY <1>2, <1>x, FourMixed
<1>r. PICK root : root = KdfRoot(<<x3dh>>, DH(ek, bundle.spk))
  OBVIOUS
<1>5. root \in Roots /\ Len(root) = 2 /\ root[1] = x3dh
  BY <1>e, <1>1, <1>3, <1>r, FirstRoot
<1> DEFINE t == AliceSession(p, KeyPair(p, f), bundle)
<1>c. PICK c : c = ChainOf(root)
  OBVIOUS
<1>6. c \in Chains /\ c # None /\ c.root = root /\ c.step = 0
  BY <1>5, <1>c, ChainOfType
<1>7. t = [root |-> root, send |-> c, recv |-> None, local |-> ek, remote |-> bundle.spk,
           ns |-> 0, nr |-> 0, pn |-> 0, skipped |-> {}, otk |-> bundle.otk]
  BY <1>k, <1>x, <1>r, <1>c DEF AliceSession
<1> HIDE DEF t
<1>8. /\ t \in Sessions /\ t.root = root /\ t.send = c /\ t.recv = None /\ t.skipped = {}
      /\ t.local = ek /\ t.remote = bundle.spk /\ t.ns = 0
  BY <1>e, <1>1, <1>5, <1>6, <1>7 DEF Sessions
<1>9. Old(p, f + 1, root)
  <2>1. \A k \in root[1][2] : k = ek \/ k = Identity(Peer(p))
    BY <1>3, <1>5 DEF DH
  <2>2. f \in 0..(f + 1 - 1) /\ Peer(p) # p
    BY Peers
  <2> QED BY <1>e, <1>1, <2>1, <2>2 DEF Old
<1>10. ChainsApart(t)
  BY <1>6, <1>8 DEF ChainsApart
<1>11. ASSUME NEW c1 \in U PROVE Gone(p, t, f + 1, c1)
  <2>1. Gone(p, s, f, c1)
    BY <1>11 DEF KeysInv
  <2>2. c1.root[1] # x3dh
    <3> SUFFICES ASSUME c1.root[1] = x3dh PROVE FALSE
      OBVIOUS
    <3>1. ek \in c1.root[1][2]
      BY <1>3 DEF DH
    <3>2. ek.n \in 0..(f - 1)
      BY <1>e, <2>1, <3>1 DEF Gone, Old
    <3> QED BY <1>e, <3>2
  <2>3. ~Derives(t, c1)
    BY <1>5, <1>6, <1>8, <2>2, DerivesWhen
  <2>4. Old(p, f + 1, c1.root)
    BY <2>1 DEF Gone, Old
  <2> QED BY <1>5, <1>8, <2>1, <2>2, <2>3, <2>4 DEF Gone
<1>12. Len(t.root) >= 1 /\ Old(p, f + 1, t.root)
  <2>1. t.root = root /\ Len(root) = 2
    BY <1>5, <1>8
  <2>2. Old(p, f + 1, t.root)
    BY <1>9, <2>1, Zenon
  <2>3. Len(t.root) >= 1
    BY <2>1
  <2> QED BY <2>2, <2>3
<1>13. KeysInv(p, t, U, f + 1)
  BY <1>8, <1>10, <1>11, <1>12, Zenon DEF KeysInv
<1>14. Len(t.root) = 2 /\ t.root[1][2] = DH(KeyPair(p, f), Identity(Peer(p)))
  BY <1>k, <1>3, <1>5, <1>8
<1>15. /\ KeysInv(p, t, U, f + 1) /\ StepsOK(t)
       /\ t.local = KeyPair(p, f) /\ t.remote = bundle.spk /\ t.send # None
  BY <1>e, <1>k, <1>6, <1>8, <1>13 DEF StepsOK
<1> QED BY <1>14, <1>15 DEF t

\* A session that answers a first message.
LEMMA BobKeeps ==
    ASSUME NEW p \in Party, NEW m \in Envelopes, m.from = Peer(p), m.dh.of = Peer(p),
           spk[p] \in KeyPairs \cup {None}, opk[p] \subseteq KeyPairs, fresh[p] \in Nat \ {0}
    PROVE  LET t == BobSession(p, m) IN
           /\ KeysInv(p, t, {}, fresh[p]) /\ StepsOK(t) /\ t.recv # None /\ t.send = None
           /\ t.local = NewKey(p) /\ t.remote = m.dh
           /\ Len(t.root) = 2 /\ t.root[1][2] = DH(Identity(p), m.dh)
<1>1. /\ m.dh \in KeyPairs /\ Identity(m.from) \in KeyPairs /\ Identity(p) \in KeyPairs
      /\ NewKey(p) \in KeyPairs
      /\ Identity(p).n = 0 /\ m.otk \in KeyPairs \cup {None}
  BY DEF KeyPair, KeyPairs, Identity, NewKey, Envelopes
<1>2. /\ DH(spk[p], Identity(m.from)) \in Mixed /\ DH(Identity(p), m.dh) \in Mixed
      /\ DH(spk[p], m.dh) \in Mixed /\ DH(m.otk, m.dh) \in Mixed
  BY <1>1 DEF DH, Mixed
<1>b. PICK base : base = <<DH(spk[p], Identity(m.from)), DH(Identity(p), m.dh), DH(spk[p], m.dh)>>
  OBVIOUS
<1>3. base \in Seq(Mixed) /\ Len(base) = 3 /\ base[2] = DH(Identity(p), m.dh)
  BY <1>2, <1>b, ThreeMixed
<1>x. PICK x3dh : x3dh = IF m.otk \in opk[p] THEN Append(base, DH(m.otk, m.dh)) ELSE base
  OBVIOUS
<1>4. x3dh \in Seq(Mixed) /\ x3dh[2] = DH(Identity(p), m.dh)
  <2>1. PICK d \in Mixed : d = DH(m.otk, m.dh)
    BY <1>2
  <2>3. Append(base, d) \in Seq(Mixed) /\ Append(base, d)[2] = base[2]
    BY <1>3, OneMoreMixed
  <2> QED BY <1>3, <1>x, <2>1, <2>3
<1>r. PICK root : root = KdfRoot(<<x3dh>>, DH(spk[p], m.dh))
  OBVIOUS
<1>6. root \in Roots /\ Len(root) = 2 /\ root[1] = x3dh
  BY <1>1, <1>4, <1>r, FirstRoot
<1>c. PICK c : c = ChainOf(root)
  OBVIOUS
<1>7. c \in Chains /\ c # None /\ c.root = root /\ c.step = 0
  BY <1>6, <1>c, ChainOfType
<1> DEFINE t == BobSession(p, m)
<1>8. t = [root |-> root, send |-> None, recv |-> c, local |-> NewKey(p), remote |-> m.dh,
           ns |-> 0, nr |-> 0, pn |-> 0, skipped |-> {}, otk |-> None]
  BY <1>b, <1>x, <1>r, <1>c DEF BobSession
<1> HIDE DEF t
<1>9. /\ t \in Sessions /\ t.root = root /\ t.send = None /\ t.recv = c /\ t.skipped = {}
      /\ t.local = NewKey(p) /\ t.remote = m.dh /\ t.nr = 0 /\ t.ns = 0
  BY <1>1, <1>6, <1>7, <1>8 DEF Sessions
<1>10. Old(p, fresh[p], root)
  <2>1. \A k \in root[1][2] : k = Identity(p) \/ k = m.dh
    BY <1>4, <1>6 DEF DH
  <2>2. 0 \in 0..(fresh[p] - 1)
    OBVIOUS
  <2> QED BY <1>1, <2>1, <2>2, Peers DEF Old
<1>11. ChainsApart(t)
  <2>1. Within(t.recv.root, t.root)
    <3>1. t.recv.root = root /\ t.root = root /\ Len(root) = 2
      BY <1>6, <1>7, <1>9
    <3>2. 2 \in 1..2
      OBVIOUS
    <3> QED BY <3>1, <3>2 DEF Within
  <2> QED BY <1>7, <1>9, <2>1 DEF ChainsApart
<1>12. KeysInv(p, t, {}, fresh[p])
  <2>1. Len(t.root) >= 1
    <3>1. t.root = root /\ Len(root) = 2
      BY <1>6, <1>9
    <3> QED BY <3>1
  <2> QED BY <1>9, <1>10, <1>11, <2>1 DEF KeysInv
<1>13. Len(t.root) = 2 /\ t.root[1][2] = DH(Identity(p), m.dh)
  BY <1>4, <1>6, <1>9
<1>14. /\ KeysInv(p, t, {}, fresh[p]) /\ StepsOK(t) /\ t.recv # None /\ t.send = None
       /\ t.local = NewKey(p) /\ t.remote = m.dh
  BY <1>7, <1>9, <1>12 DEF StepsOK
<1> QED BY <1>13, <1>14 DEF t

-----------------------------------------------------------------------------
(* What the actions do *)

\* What one has of the invariant about a party.
LEMMA PartyFacts ==
    ASSUME RatchetInv, NEW p \in Party
    PROVE  /\ Peer(p) \in Party /\ Peer(p) # p /\ Peer(Peer(p)) = p
           /\ fresh[p] \in Nat \ {0} /\ imports[p] \in Nat /\ sends[p] \in Nat
           /\ NewKey(p) \in KeyPairs /\ NewKey(p) = KeyPair(p, fresh[p])
           /\ NewKey(p).of = p /\ NewKey(p).n = fresh[p]
           /\ spk[p] \in KeyPairs \cup {None} /\ opk[p] \subseteq KeyPairs
           /\ \A b \in offered[p] : /\ b \in [spk : KeyPairs, otk : KeyPairs]
                                    /\ b.spk.of = p /\ b.otk.of = p
                                    /\ b.spk.n \in Nat /\ b.spk.n < fresh[p]
           /\ sess[p] # None => /\ sess[p] \in Sessions /\ StepsOK(sess[p])
                                /\ KeysInv(p, sess[p], Used(p), fresh[p])
           /\ sess[p] = None => Used(p) = {}
<1>1. /\ fresh[p] \in Nat \ {0} /\ imports[p] \in Nat /\ sends[p] \in Nat
      /\ spk[p] \in KeyPairs \cup {None} /\ opk[p] \subseteq KeyPairs
      /\ offered[p] \subseteq [spk : KeyPairs, otk : KeyPairs]
      /\ sess[p] \in Sessions \cup {None}
  BY DEF RatchetInv, Types
<1>2. NewKey(p) \in KeyPairs /\ NewKey(p).of = p /\ NewKey(p).n = fresh[p]
  BY <1>1 DEF NewKey, KeyPair, KeyPairs
<1>3. ASSUME NEW b \in offered[p]
      PROVE  /\ b \in [spk : KeyPairs, otk : KeyPairs]
             /\ b.spk.of = p /\ b.otk.of = p /\ b.spk.n \in Nat /\ b.spk.n < fresh[p]
  <2>1. b \in [spk : KeyPairs, otk : KeyPairs] /\ b.spk \in KeyPairs
    BY <1>1
  <2> QED BY <2>1 DEF RatchetInv, Owners, Numbered, KeyPairs
<1>4. sess[p] # None => StepsOK(sess[p])
  BY DEF RatchetInv, Steps
<1>5. /\ sess[p] # None => KeysInv(p, sess[p], Used(p), fresh[p])
      /\ sess[p] = None => Used(p) = {}
  BY DEF RatchetInv, Secrecy
<1> QED BY <1>1, <1>2, <1>3, <1>4, <1>5, Peers DEF NewKey

\* A message under way.
LEMMA LetterFacts ==
    ASSUME RatchetInv, NEW m \in Sent
    PROVE  /\ m \in Envelopes /\ m.from \in Party /\ m.dh \in KeyPairs /\ m.dh.of = m.from
           /\ m.dh.n \in Nat /\ m.dh.n < fresh[m.from] /\ m.dh \notin Spks(m.from)
           /\ m.n \in Nat /\ m.n < sends[m.from] /\ m.key \in Chains
<1>1. m \in Envelopes
  BY DEF RatchetInv, Types
<1>2. m.from \in Party /\ m.dh \in KeyPairs /\ m.n \in Nat /\ m.key \in Chains /\ m.dh.n \in Nat
  BY <1>1 DEF Envelopes, KeyPairs
<1> QED BY <1>1, <1>2 DEF RatchetInv, Letters, Numbered

\* The invariant, about the parties whose session, keys and messages a step
\* leaves alone, but for new key pairs of theirs.
LEMMA SecrecyElsewhere ==
    ASSUME RatchetInv, NEW q \in Party, NEW U, Used(q) = U, NEW g \in Nat, fresh[q] <= g,
           NEW V \in SUBSET U
    PROVE  IF sess[q] = None THEN V = {} ELSE KeysInv(q, sess[q], V, g)
  BY PartyFacts, KeysKept

\* Keys are used when messages are sealed and opened.
LEMMA UsedSame ==
    ASSUME UNCHANGED <<net, opened, failed, refused>>, NEW q
    PROVE  Used(q)' = Used(q)
<1>1. UNCHANGED Sent /\ UNCHANGED opened
  BY DEF Sent
<1>2. UsedBy(q)' = UsedBy(q) /\ Opened(q)' = Opened(q)
  BY <1>1 DEF UsedBy, Opened
<1> QED BY <1>2 DEF Used

\* Before anything there are no messages.
LEMMA RatchetInit == Init => RatchetInv
<1> SUFFICES ASSUME Init PROVE RatchetInv
  OBVIOUS
<1>1. Types
  BY DEF Init, Types, Sent
<1>2. Owners
  BY DEF Init, Owners
<1>3. Letters
  BY DEF Init, Letters, Sent
<1>4. Steps
  BY DEF Init, Steps
<1>5. Secrecy
  BY DEF Init, Secrecy, Used, UsedBy, Opened, Sent
<1> QED BY <1>1, <1>2, <1>3, <1>4, <1>5 DEF RatchetInv

\* A bundle is exported.
LEMMA BundleInv ==
    ASSUME RatchetInv, NEW p \in Party, GeneratePreKeyBundle(p)
    PROVE  RatchetInv'
<1>1. PICK f \in Nat \ {0} : f = fresh[p]
  BY PartyFacts
<1>2. PICK k, otk : k = KeyPair(p, f) /\ otk = KeyPair(p, f + 1)
  OBVIOUS
<1>3. /\ k \in KeyPairs /\ otk \in KeyPairs
      /\ k.of = p /\ k.n = f /\ otk.of = p /\ otk.n = f + 1
  BY <1>1, <1>2 DEF KeyPair, KeyPairs
<1>4. PICK b : b = [spk |-> k, otk |-> otk]
  OBVIOUS
<1>5. b \in [spk : KeyPairs, otk : KeyPairs] /\ b.spk = k /\ b.otk = otk
  BY <1>3, <1>4
<1>6. /\ spk' = [spk EXCEPT ![p] = k] /\ opk' = [opk EXCEPT ![p] = @ \cup {otk}]
      /\ offered' = [offered EXCEPT ![p] = @ \cup {b}] /\ fresh' = [fresh EXCEPT ![p] = @ + 2]
      /\ UNCHANGED <<sess, imports, sends, net, opened, failed, refused>>
  BY <1>1, <1>2, <1>4 DEF GeneratePreKeyBundle, NewKey, counts
<1>7. Types
  BY DEF RatchetInv
<1>8. /\ fresh' \in [Party -> Nat \ {0}] /\ fresh'[p] = f + 2
      /\ \A q \in Party : q # p => fresh'[q] = fresh[q]
  BY <1>1, <1>6, <1>7 DEF Types
<1>9. \A q \in Party : fresh[q] \in Nat /\ fresh'[q] \in Nat /\ fresh[q] <= fresh'[q]
  BY <1>1, <1>7, <1>8 DEF Types
<1>10. /\ offered'[p] = offered[p] \cup {b} /\ opk'[p] = opk[p] \cup {otk} /\ spk'[p] = k
       /\ \A q \in Party : q # p => /\ offered'[q] = offered[q] /\ opk'[q] = opk[q]
                                    /\ spk'[q] = spk[q]
  BY <1>6, <1>7 DEF Types
<1>11. Types'
  <2>1. spk' \in [Party -> KeyPairs \cup {None}] /\ opk' \in [Party -> SUBSET KeyPairs]
    BY <1>3, <1>6, <1>7 DEF Types
  <2>2. offered' \in [Party -> SUBSET [spk : KeyPairs, otk : KeyPairs]]
    BY <1>5, <1>6, <1>7 DEF Types
  <2> QED BY <1>6, <1>7, <1>8, <2>1, <2>2 DEF Types, Sent
<1>12. \A q \in Party, j \in KeyPairs : Numbered(q, j) => Numbered(q, j)'
  BY <1>9 DEF Numbered, KeyPairs
<1>13. \A q \in Party : Spks(q)' = IF q = p THEN Spks(q) \cup {k} ELSE Spks(q)
  BY <1>5, <1>10 DEF Spks
<1>14. Owners'
  <2> SUFFICES ASSUME NEW q \in Party
               PROVE  /\ spk'[q] # None => spk'[q].of = q
                      /\ \A j \in opk'[q] : Numbered(q, j)'
                      /\ \A c \in offered'[q] : Numbered(q, c.spk)' /\ Numbered(q, c.otk)'
                      /\ sess'[q] # None => /\ Numbered(q, sess[q].local)'
                                            /\ sess[q].local \notin Spks(q)'
                                            /\ sess[q].remote.of = Peer(q)
                                            /\ sess[q].recv = None
                                                  => sess[q].remote \in Spks(Peer(q))'
    BY <1>6 DEF Owners
  <2>1. Owners
    BY DEF RatchetInv
  <2>2. /\ opk[q] \subseteq KeyPairs
        /\ \A c \in offered[q] : c.spk \in KeyPairs /\ c.otk \in KeyPairs
    BY <1>7 DEF Types
  <2>3. Numbered(p, k)' /\ Numbered(p, otk)'
    BY <1>1, <1>3, <1>8 DEF Numbered
  <2>4. spk'[q] # None => spk'[q].of = q
    BY <1>3, <1>10, <2>1 DEF Owners
  <2>5. \A j \in opk'[q] : Numbered(q, j)'
    BY <1>10, <1>12, <2>1, <2>2, <2>3 DEF Owners
  <2>6. \A c \in offered'[q] : Numbered(q, c.spk)' /\ Numbered(q, c.otk)'
    BY <1>5, <1>10, <1>12, <2>1, <2>2, <2>3 DEF Owners
  <2>7. ASSUME sess[q] # None
        PROVE  /\ Numbered(q, sess[q].local)' /\ sess[q].local \notin Spks(q)'
               /\ sess[q].remote.of = Peer(q)
               /\ sess[q].recv = None => sess[q].remote \in Spks(Peer(q))'
    <3>1. sess[q].local \in KeyPairs /\ Peer(q) \in Party
      BY <2>7, PartyFacts, SessionFields
    <3>2. PICK l \in KeyPairs : l = sess[q].local
      BY <3>1
    <3>3. Numbered(q, l) /\ l \notin Spks(q)
      BY <2>1, <2>7, <3>2 DEF Owners
    <3>4. Numbered(q, l)'
      BY <1>12, <3>3
    <3>5. q = p => l # k
      BY <1>1, <1>3, <3>3 DEF Numbered, KeyPairs
    <3>6. sess[q].remote.of = Peer(q) /\ (sess[q].recv = None => sess[q].remote \in Spks(Peer(q)))
      BY <2>1, <2>7 DEF Owners
    <3>7. l \notin Spks(q)'
      BY <1>13, <3>3, <3>5
    <3>8. Spks(Peer(q)) \subseteq Spks(Peer(q))'
      BY <1>13, <3>1
    <3> QED BY <1>6, <3>2, <3>4, <3>6, <3>7, <3>8 DEF Numbered
  <2> QED BY <1>6, <2>4, <2>5, <2>6, <2>7
<1>15. Letters'
  <2>1. \A m \in Sent : Numbered(m.from, m.dh)' /\ m.dh \notin Spks(m.from)'
    <3> SUFFICES ASSUME NEW m \in Sent
                 PROVE  Numbered(m.from, m.dh)' /\ m.dh \notin Spks(m.from)'
      OBVIOUS
    <3>1. /\ m.from \in Party /\ m.dh \in KeyPairs /\ m.dh.of = m.from
          /\ m.dh.n \in Nat /\ m.dh.n < fresh[m.from] /\ m.dh \notin Spks(m.from)
      BY LetterFacts
    <3>2. m.from = p => m.dh # k
      BY <1>1, <1>3, <3>1
    <3> QED BY <1>9, <1>13, <3>1, <3>2 DEF Numbered
  <2> QED BY <1>6, <2>1 DEF Letters, RatchetInv, Sent
<1>16. Steps'
  BY <1>6 DEF RatchetInv, Steps
<1>17. Secrecy'
  <2> SUFFICES ASSUME NEW q \in Party
               PROVE  IF sess[q] = None THEN Used(q)' = {}
                      ELSE KeysInv(q, sess[q], Used(q)', fresh'[q])
    BY <1>6 DEF Secrecy
  <2>1. Used(q)' = Used(q)
    BY <1>6, UsedSame
  <2>2. PICK g \in Nat : g = fresh'[q]
    BY <1>9
  <2>3. PICK U : U = Used(q)
    OBVIOUS
  <2>4. IF sess[q] = None THEN U = {} ELSE KeysInv(q, sess[q], U, g)
    BY <1>9, <2>2, <2>3, SecrecyElsewhere
  <2> QED BY <2>1, <2>2, <2>3, <2>4
<1> QED BY <1>11, <1>14, <1>15, <1>16, <1>17 DEF RatchetInv

\* The ownership of a party's session, when it is replaced by t and its key pairs
\* are numbered below g.
LEMMA OwnersStep ==
    ASSUME RatchetInv, NEW p \in Party, NEW t \in Sessions, NEW g \in Nat,
           sess' = [sess EXCEPT ![p] = t], fresh' = [fresh EXCEPT ![p] = g], fresh[p] <= g,
           NEW o \in SUBSET opk[p], opk' = [opk EXCEPT ![p] = o],
           UNCHANGED <<spk, offered>>,
           t.local.of = p, t.local.n < g, t.local \notin Spks(p),
           t.remote.of = Peer(p), t.recv = None => t.remote \in Spks(Peer(p))
    PROVE  /\ Owners' /\ sess'[p] = t /\ fresh'[p] = g
           /\ sess' \in [Party -> Sessions \cup {None}]
           /\ fresh' \in [Party -> Nat \ {0}] /\ opk' \in [Party -> SUBSET KeyPairs]
           /\ \A q \in Party : q # p => sess'[q] = sess[q] /\ fresh'[q] = fresh[q]
           /\ \A q \in Party : fresh[q] \in Nat /\ fresh'[q] \in Nat /\ fresh[q] <= fresh'[q]
<1>1. Types /\ Owners
  BY DEF RatchetInv
<1>2. /\ sess'[p] = t /\ sess' \in [Party -> Sessions \cup {None}]
      /\ \A q \in Party : q # p => sess'[q] = sess[q]
  BY <1>1 DEF Types
<1>3. /\ fresh'[p] = g /\ fresh' \in [Party -> Nat \ {0}]
      /\ \A q \in Party : q # p => fresh'[q] = fresh[q]
      /\ \A q \in Party : fresh[q] \in Nat /\ fresh'[q] \in Nat /\ fresh[q] <= fresh'[q]
  BY <1>1 DEF Types
<1>4. /\ opk' \in [Party -> SUBSET KeyPairs]
      /\ \A q \in Party : opk'[q] \subseteq opk[q]
  BY <1>1 DEF Types
<1>5. \A q \in Party, j \in KeyPairs : Numbered(q, j) => Numbered(q, j)'
  BY <1>3 DEF Numbered, KeyPairs
<1>6. \A q : Spks(q)' = Spks(q)
  BY DEF Spks
<1>7. ASSUME NEW q \in Party
      PROVE  /\ spk'[q] # None => spk'[q].of = q
             /\ \A j \in opk'[q] : Numbered(q, j)'
             /\ \A c \in offered'[q] : Numbered(q, c.spk)' /\ Numbered(q, c.otk)'
  <2>1. /\ opk[q] \subseteq KeyPairs
        /\ \A c \in offered[q] : c.spk \in KeyPairs /\ c.otk \in KeyPairs
    BY <1>1 DEF Types
  <2> QED BY <1>1, <1>4, <1>5, <2>1 DEF Owners
<1>8. ASSUME NEW q \in Party, sess'[q] # None
      PROVE  /\ Numbered(q, sess[q].local)' /\ (sess[q].local \notin Spks(q))'
             /\ sess'[q].remote.of = Peer(q)
             /\ sess'[q].recv = None => (sess[q].remote \in Spks(Peer(q)))'
  <2>1. CASE q = p
    BY <1>2, <1>3, <1>6, <2>1 DEF Numbered
  <2>2. CASE q # p
    <3>1. sess'[q] = sess[q] /\ sess[q] # None
      BY <1>2, <1>8, <2>2
    <3>2. sess[q].local \in KeyPairs
      BY <3>1, PartyFacts, SessionFields
    <3>3. PICK l \in KeyPairs : l = sess[q].local
      BY <3>2
    <3>4. Numbered(q, l)'
      BY <1>1, <1>5, <3>1, <3>3 DEF Owners
    <3> QED BY <1>1, <1>6, <3>1, <3>3, <3>4 DEF Owners, Numbered
  <2> QED BY <2>1, <2>2
<1>9. Owners'
  BY <1>7, <1>8 DEF Owners
<1> QED BY <1>2, <1>3, <1>4, <1>9

\* The messages of a step that sends none.
LEMMA LettersStep ==
    ASSUME RatchetInv, UNCHANGED <<offered, sends>>,
           \A q \in Party : fresh[q] \in Nat /\ fresh'[q] \in Nat /\ fresh[q] <= fresh'[q],
           Sent' = Sent, (net \cap (opened \cup failed \cup refused) = {})'
    PROVE  Letters'
<1>1. \A m \in Sent : /\ Numbered(m.from, m.dh)' /\ m.dh \notin Spks(m.from)'
                      /\ m.n < sends'[m.from]
  <2> SUFFICES ASSUME NEW m \in Sent
               PROVE  /\ Numbered(m.from, m.dh)' /\ m.dh \notin Spks(m.from)'
                      /\ m.n < sends'[m.from]
    OBVIOUS
  <2>1. /\ m.from \in Party /\ m.dh \in KeyPairs /\ m.dh.of = m.from
        /\ m.dh.n \in Nat /\ m.dh.n < fresh[m.from] /\ m.dh \notin Spks(m.from)
        /\ m.n < sends[m.from]
    BY LetterFacts
  <2>2. Spks(m.from)' = Spks(m.from)
    BY DEF Spks
  <2> QED BY <2>1, <2>2 DEF Numbered
<1> QED BY <1>1 DEF Letters

\* A contact is imported.
LEMMA ImportInv ==
    ASSUME RatchetInv, NEW p \in Party, InitiateSession(p)
    PROVE  RatchetInv'
<1>1. PICK b \in offered[Peer(p)] : sess' = [sess EXCEPT ![p] = AliceSession(p, NewKey(p), b)]
  BY DEF InitiateSession
<1>2. /\ fresh' = [fresh EXCEPT ![p] = @ + 1] /\ imports' = [imports EXCEPT ![p] = @ + 1]
      /\ UNCHANGED <<spk, opk, offered, sends, net, opened, failed, refused>>
  BY DEF InitiateSession, stores
<1>3. PICK f \in Nat \ {0} : f = fresh[p]
  BY PartyFacts
<1>4. /\ b \in [spk : KeyPairs, otk : KeyPairs]
      /\ b.spk.of = Peer(p) /\ b.otk.of = Peer(p) /\ Peer(p) \in Party /\ Peer(p) # p
  BY PartyFacts
<1>5. PICK t : t = AliceSession(p, KeyPair(p, f), b)
  OBVIOUS
<1>6. PICK U : U = Used(p)
  OBVIOUS
<1>7. PICK s : s = sess[p]
  OBVIOUS
<1>8. KeysInv(p, s, U, f) \/ U = {}
  BY <1>3, <1>6, <1>7, PartyFacts
<1>9. KeysInv(p, t, U, f + 1) /\ StepsOK(t) /\ t.local = KeyPair(p, f) /\ t.remote = b.spk
  BY <1>4, <1>5, <1>8, AliceKeeps
<1>10. /\ t \in Sessions /\ t.local.of = p /\ t.local.n = f /\ t.remote.of = Peer(p)
       /\ t.remote \in Spks(Peer(p))
  BY <1>4, <1>9 DEF KeysInv, KeyPair, Spks
<1>11. t.local \notin Spks(p)
  BY <1>3, <1>10, PartyFacts DEF Spks
<1>12. /\ sess' = [sess EXCEPT ![p] = t] /\ fresh' = [fresh EXCEPT ![p] = f + 1]
       /\ opk' = [opk EXCEPT ![p] = opk[p]]
  <2>1. opk \in [Party -> SUBSET KeyPairs]
    BY DEF RatchetInv, Types
  <2>2. opk' = [opk EXCEPT ![p] = opk[p]]
    BY <1>2, <2>1
  <2> QED BY <1>1, <1>2, <1>3, <1>5, <2>2 DEF NewKey
<1>13. /\ Owners' /\ sess'[p] = t /\ fresh'[p] = f + 1
       /\ sess' \in [Party -> Sessions \cup {None}]
       /\ fresh' \in [Party -> Nat \ {0}] /\ opk' \in [Party -> SUBSET KeyPairs]
       /\ \A q \in Party : q # p => sess'[q] = sess[q] /\ fresh'[q] = fresh[q]
       /\ \A q \in Party : fresh[q] \in Nat /\ fresh'[q] \in Nat /\ fresh[q] <= fresh'[q]
  <2>1. PICK o \in SUBSET opk[p] : o = opk[p]
    OBVIOUS
  <2>2. PICK g \in Nat : g = f + 1
    OBVIOUS
  <2>3. /\ sess' = [sess EXCEPT ![p] = t] /\ fresh' = [fresh EXCEPT ![p] = g]
        /\ opk' = [opk EXCEPT ![p] = o] /\ fresh[p] <= g
        /\ t.local.n < g
    BY <1>3, <1>10, <1>12, <2>1, <2>2
  <2>4. UNCHANGED <<spk, offered>> /\ (t.recv = None => t.remote \in Spks(Peer(p)))
    BY <1>2, <1>10
  <2>5. /\ Owners' /\ sess'[p] = t /\ fresh'[p] = g
        /\ sess' \in [Party -> Sessions \cup {None}]
        /\ fresh' \in [Party -> Nat \ {0}] /\ opk' \in [Party -> SUBSET KeyPairs]
        /\ \A q \in Party : q # p => sess'[q] = sess[q] /\ fresh'[q] = fresh[q]
        /\ \A q \in Party : fresh[q] \in Nat /\ fresh'[q] \in Nat /\ fresh[q] <= fresh'[q]
    BY <1>10, <1>11, <2>3, <2>4, OwnersStep
  <2> QED BY <2>2, <2>5
<1>14. Sent' = Sent /\ Sent \subseteq Envelopes
  BY <1>2 DEF Sent, RatchetInv, Types
<1>15. Types'
  <2>1. imports' \in [Party -> Nat]
    BY <1>2 DEF RatchetInv, Types
  <2> QED BY <1>2, <1>13, <1>14, <2>1 DEF RatchetInv, Types
<1>16. Letters'
  <2>1. (net \cap (opened \cup failed \cup refused) = {})'
    BY <1>2 DEF RatchetInv, Letters
  <2> QED BY <1>2, <1>13, <1>14, <2>1, LettersStep
<1>17. Steps'
  BY <1>9, <1>13 DEF RatchetInv, Steps
<1>18. Secrecy'
  <2> SUFFICES ASSUME NEW q \in Party
               PROVE  IF sess'[q] = None THEN Used(q)' = {}
                      ELSE KeysInv(q, sess'[q], Used(q)', fresh'[q])
    BY DEF Secrecy
  <2>1. Used(q)' = Used(q)
    BY <1>2, UsedSame
  <2>2. CASE q = p
    <3>1. sess'[p] # None
      BY <1>10, <1>13, NoneAssumption
    <3> QED BY <1>6, <1>9, <1>13, <2>1, <2>2, <3>1
  <2>3. CASE q # p
    BY <1>13, <2>1, <2>3, PartyFacts
  <2> QED BY <2>2, <2>3
<1> QED BY <1>13, <1>15, <1>16, <1>17, <1>18 DEF RatchetInv

\* Sealing a message uses its key.
LEMMA UsedSealed ==
    ASSUME NEW m, net' = net \cup {m}, UNCHANGED <<opened, failed, refused>>
    PROVE  /\ Sent' = Sent \cup {m}
           /\ \A q : q = m.from => Used(q)' = Used(q) \cup {m.key}
           /\ \A q : q # m.from => Used(q)' = Used(q)
<1>1. Sent' = Sent \cup {m} /\ opened' = opened
  BY DEF Sent
<1>2. \A q : Opened(q)' = Opened(q)
  BY <1>1 DEF Opened
<1>3. ASSUME NEW q, q = m.from PROVE UsedBy(q)' = UsedBy(q) \cup {m.key}
  <2>1. \A x : x \in {y \in Sent' : y.from = q} <=> x \in {y \in Sent : y.from = q} \/ x = m
    BY <1>1, <1>3
  <2> QED BY <2>1 DEF UsedBy
<1>4. ASSUME NEW q, q # m.from PROVE UsedBy(q)' = UsedBy(q)
  <2>1. {y \in Sent' : y.from = q} = {y \in Sent : y.from = q}
    BY <1>1, <1>4
  <2> QED BY <2>1 DEF UsedBy
<1> QED BY <1>1, <1>2, <1>3, <1>4 DEF Used

\* A message is encrypted.
LEMMA EncryptInv ==
    ASSUME RatchetInv, NEW p \in Party, Encrypt(p)
    PROVE  RatchetInv'
<1>1. PICK s0 : s0 = sess[p]
  OBVIOUS
<1>2. PICK s : s = WithSendChain(s0)
  OBVIOUS
<1>3. PICK n : n = sends[p]
  OBVIOUS
<1>4. PICK m : m = Sealed(p, n, s)
  OBVIOUS
<1>5. PICK t : t = NextSend(s)
  OBVIOUS
<1>6. /\ s0 # None /\ net' = net \cup {m} /\ sess' = [sess EXCEPT ![p] = t]
      /\ sends' = [sends EXCEPT ![p] = @ + 1]
      /\ UNCHANGED <<spk, opk, offered, fresh, imports, opened, failed, refused>>
  BY <1>1, <1>2, <1>3, <1>4, <1>5 DEF Encrypt, stores
<1>7. PICK U, f : U = Used(p) /\ f = fresh[p]
  OBVIOUS
<1>8. /\ KeysInv(p, s0, U, f) /\ StepsOK(s0) /\ f \in Nat \ {0} /\ n \in Nat
      /\ Peer(p) \in Party
  BY <1>1, <1>3, <1>6, <1>7, PartyFacts
<1>9. /\ Numbered(p, s0.local) /\ s0.local \notin Spks(p) /\ s0.remote.of = Peer(p)
      /\ s0.recv = None => s0.remote \in Spks(Peer(p))
  BY <1>1, <1>6 DEF RatchetInv, Owners
<1>10. /\ KeysInv(p, s, U, f) /\ s.send # None
       /\ s.local = s0.local /\ s.remote = s0.remote /\ s.recv = s0.recv
       /\ s.ns = s0.ns /\ s.nr = s0.nr
       /\ IF s0.send # None THEN s = s0 ELSE s.send.step = 0
  BY <1>2, <1>8, WithSendChainKeeps
<1>11. /\ KeysInv(p, t, U \cup {s.send}, f) /\ s.send \in Chains
       /\ t.local = s.local /\ t.remote = s.remote /\ t.recv = s.recv /\ t.nr = s.nr
       /\ t.send.step = s.send.step + 1 /\ t.ns = s.ns + 1
  BY <1>5, <1>10, NextSendKeeps
<1>12. s.send.step = s.ns
  <2>1. CASE s0.send # None
    BY <1>8, <1>10, <2>1 DEF StepsOK
  <2>2. CASE s0.send = None
    BY <1>8, <1>10, <2>2 DEF StepsOK
  <2> QED BY <2>1, <2>2
<1>13. StepsOK(t)
  <2>1. t.send # None
    BY <1>5, <1>10, NextSendKeeps
  <2> QED BY <1>8, <1>10, <1>11, <1>12, <2>1 DEF StepsOK
<1>14. t \in Sessions /\ s \in Sessions /\ t # None
  BY <1>10, <1>11, NoneAssumption DEF KeysInv
<1>15. /\ m \in Envelopes /\ m.from = p /\ m.n = n /\ m.dh = s.local /\ m.key = s.send
  <2>1. /\ s.local \in KeyPairs /\ s.ns \in Nat /\ s.pn \in Nat /\ s.otk \in KeyPairs \cup {None}
    BY <1>14, SessionFields
  <2> QED BY <1>4, <1>8, <1>11, <2>1 DEF Sealed, Envelopes
<1>16. /\ Owners' /\ sess'[p] = t
       /\ sess' \in [Party -> Sessions \cup {None}]
       /\ \A q \in Party : q # p => sess'[q] = sess[q]
       /\ \A q \in Party : fresh[q] \in Nat /\ fresh'[q] \in Nat /\ fresh[q] <= fresh'[q]
  <2>1. PICK o \in SUBSET opk[p] : o = opk[p]
    OBVIOUS
  <2>2. PICK g \in Nat : g = f
    BY <1>8
  <2>t. fresh \in [Party -> Nat \ {0}] /\ opk \in [Party -> SUBSET KeyPairs]
    BY DEF RatchetInv, Types
  <2>3. /\ sess' = [sess EXCEPT ![p] = t] /\ fresh' = [fresh EXCEPT ![p] = g]
        /\ opk' = [opk EXCEPT ![p] = o] /\ fresh[p] <= g
    BY <1>6, <1>7, <2>1, <2>2, <2>t
  <2>4. /\ UNCHANGED <<spk, offered>> /\ (t.recv = None => t.remote \in Spks(Peer(p)))
        /\ t.local.of = p /\ t.local.n < g /\ t.local \notin Spks(p) /\ t.remote.of = Peer(p)
    BY <1>6, <1>7, <1>9, <1>10, <1>11, <2>2 DEF Numbered
  <2> QED BY <1>14, <2>3, <2>4, OwnersStep
<1>17. /\ Sent' = Sent \cup {m} /\ Used(p)' = Used(p) \cup {s.send}
       /\ \A q \in Party : q # p => Used(q)' = Used(q)
  BY <1>6, <1>15, UsedSealed
<1>18. /\ sends' \in [Party -> Nat] /\ sends'[p] = n + 1
       /\ \A q \in Party : sends[q] \in Nat /\ sends[q] <= sends'[q]
  BY <1>3, <1>6 DEF RatchetInv, Types
<1>19. Types'
  BY <1>6, <1>15, <1>16, <1>17, <1>18 DEF RatchetInv, Types
<1>20. Letters'
  <2>1. \A q : Spks(q)' = Spks(q)
    BY <1>6 DEF Spks
  <2>2. ASSUME NEW x \in Sent'
        PROVE  Numbered(x.from, x.dh)' /\ x.dh \notin Spks(x.from)' /\ x.n < sends'[x.from]
    <3>1. CASE x \in Sent
      <4>1. /\ x.from \in Party /\ x.dh.of = x.from /\ x.dh.n < fresh[x.from]
            /\ x.dh \notin Spks(x.from) /\ x.n \in Nat /\ x.n < sends[x.from]
        BY <3>1, LetterFacts
      <4>2. x.n < sends'[x.from]
        BY <1>18, <4>1
      <4> QED BY <1>6, <2>1, <4>1, <4>2 DEF Numbered
    <3>2. CASE x = m
      BY <1>6, <1>8, <1>9, <1>10, <1>15, <1>18, <2>1, <3>2 DEF Numbered
    <3> QED BY <1>17, <2>2, <3>1, <3>2
  <2>3. m \notin opened \cup failed \cup refused
    <3> SUFFICES ASSUME m \in opened \cup failed \cup refused PROVE FALSE
      OBVIOUS
    <3>1. m \in Sent
      BY DEF Sent
    <3>2. m.n < sends[m.from]
      BY <3>1, LetterFacts
    <3> QED BY <1>3, <1>8, <1>15, <3>2
  <2>4. (net \cap (opened \cup failed \cup refused) = {})'
    BY <1>6, <2>3 DEF RatchetInv, Letters
  <2> QED BY <2>2, <2>4 DEF Letters
<1>21. Steps'
  BY <1>13, <1>16 DEF RatchetInv, Steps
<1>22. Secrecy'
  <2> SUFFICES ASSUME NEW q \in Party
               PROVE  IF sess'[q] = None THEN Used(q)' = {}
                      ELSE KeysInv(q, sess'[q], Used(q)', fresh'[q])
    BY DEF Secrecy
  <2>1. CASE q = p
    BY <1>6, <1>7, <1>11, <1>14, <1>16, <1>17, <2>1
  <2>2. CASE q # p
    BY <1>6, <1>16, <1>17, <2>2, PartyFacts
  <2> QED BY <2>1, <2>2
<1> QED BY <1>16, <1>19, <1>20, <1>21, <1>22 DEF RatchetInv

\* What a delivered message leaves: it was opened with its own key, or not.
LEMMA OpenEffect ==
    ASSUME NEW p \in Party, NEW m \in net, m.from = Peer(p), net' = net \ {m},
           NEW key, Open(m, key)
    PROVE  /\ Sent' = Sent
           /\ Opened(p)' \subseteq Opened(p) \cup {key}
           /\ \A q \in Party : q # p => Opened(q)' = Opened(q)
           /\ net \cap (opened \cup failed \cup refused) = {}
                => (net \cap (opened \cup failed \cup refused) = {})'
<1>1. CASE opened' = opened \cup {m} /\ UNCHANGED <<failed, refused>> /\ key = m.key
  <2>1. Sent' = Sent
    BY <1>1 DEF Sent
  <2>2. \A x : x \in {y \in opened' : y.from = Peer(p)}
                 <=> x \in {y \in opened : y.from = Peer(p)} \/ x = m
    BY <1>1
  <2>3. Opened(p)' \subseteq Opened(p) \cup {key}
    BY <1>1, <2>2 DEF Opened
  <2>4. ASSUME NEW q \in Party, q # p PROVE Opened(q)' = Opened(q)
    <3>1. m.from # Peer(q)
      BY <2>4, Peers
    <3>2. {y \in opened' : y.from = Peer(q)} = {y \in opened : y.from = Peer(q)}
      BY <1>1, <3>1
    <3> QED BY <3>2 DEF Opened
  <2> QED BY <1>1, <2>1, <2>3, <2>4
<1>2. CASE failed' = failed \cup {m} /\ UNCHANGED <<opened, refused>>
  <2>1. Sent' = Sent
    BY <1>2 DEF Sent
  <2>2. \A q \in Party : Opened(q)' = Opened(q)
    BY <1>2 DEF Opened
  <2> QED BY <1>2, <2>1, <2>2
<1> QED BY <1>1, <1>2 DEF Open

\* The session that decrypt works on.
LEMMA SessionReady ==
    ASSUME RatchetInv, NEW p \in Party, NEW m \in net, m.from = Peer(p)
    PROVE  LET s == Session(p, m) IN
           /\ KeysInv(p, s, Used(p), fresh[p]) /\ StepsOK(s)
           /\ s.recv = None => /\ Turns(s, m) /\ sess[p] # None
                               /\ s.remote \in Spks(Peer(p))
           /\ s.remote.of = Peer(p) /\ s.local \notin Spks(p) /\ s.local.of = p
           /\ IF sess[p] = None THEN s.local = NewKey(p) /\ ~Turns(s, m)
              ELSE s = sess[p] /\ s.local.n < fresh[p]
<1>m. /\ m \in Envelopes /\ m.dh.of = Peer(p) /\ m.dh \notin Spks(Peer(p))
  BY LetterFacts DEF Sent
<1>p. /\ spk[p] \in KeyPairs \cup {None} /\ opk[p] \subseteq KeyPairs /\ fresh[p] \in Nat \ {0}
      /\ NewKey(p).of = p /\ NewKey(p).n = fresh[p]
  BY PartyFacts
<1>1. CASE sess[p] = None
  <2>1. PICK s : s = BobSession(p, m)
    OBVIOUS
  <2>2. /\ KeysInv(p, s, {}, fresh[p]) /\ StepsOK(s) /\ s.recv # None
        /\ s.local = NewKey(p) /\ s.remote = m.dh
    BY <1>m, <1>p, <2>1, BobKeeps
  <2>3. Used(p) = {}
    BY <1>1, PartyFacts
  <2>4. NewKey(p) \notin Spks(p)
    BY <1>p, PartyFacts DEF Spks
  <2> QED BY <1>1, <1>m, <1>p, <2>1, <2>2, <2>3, <2>4 DEF Session, Turns
<1>2. CASE sess[p] # None
  <2>1. Session(p, m) = sess[p]
    BY <1>2 DEF Session
  <2>2. KeysInv(p, sess[p], Used(p), fresh[p]) /\ StepsOK(sess[p])
    BY <1>2, PartyFacts
  <2>3. /\ Numbered(p, sess[p].local) /\ sess[p].local \notin Spks(p)
        /\ sess[p].remote.of = Peer(p)
        /\ sess[p].recv = None => sess[p].remote \in Spks(Peer(p))
    BY <1>2 DEF RatchetInv, Owners
  <2> QED BY <1>2, <1>m, <2>1, <2>2, <2>3 DEF Turns, Numbered
<1> QED BY <1>1, <1>2

\* The session that decrypt leaves behind, and the key that it has used up.
LEMMA DecryptEffect ==
    ASSUME RatchetInv, NEW p \in Party, NEW m \in net, Decrypt(p, m),
           NEW s, s = Session(p, m)
    PROVE  \E u, g, K :
              /\ u \in Sessions /\ g \in Nat
              /\ KeysInv(p, u, Used(p) \cup K, g) /\ StepsOK(u)
              /\ sess' = [sess EXCEPT ![p] = u] /\ fresh' = [fresh EXCEPT ![p] = g]
              /\ fresh[p] <= g
              /\ u.local.of = p /\ u.local.n < g /\ u.local \notin Spks(p)
              /\ u.remote.of = Peer(p) /\ (u.recv = None => u.remote \in Spks(Peer(p)))
              /\ Sent' = Sent /\ Opened(p)' \subseteq Opened(p) \cup K
              /\ \A q \in Party : q # p => Opened(q)' = Opened(q)
              /\ (net \cap (opened \cup failed \cup refused) = {})'
<1>1. /\ m.from = Peer(p) /\ net' = net \ {m}
      /\ fresh' = [fresh EXCEPT ![p] =
                     IF sess[p] = None \/ Renews(sess[p], m) THEN @ + 1 ELSE @]
      /\ \/ DecryptSkipped(p, s, m)
         \/ DecryptRefused(s, m, NewKey(p)) /\ sess' = [sess EXCEPT ![p] = s]
         \/ DecryptNext(p, s, m, NewKey(p))
  BY DEF Decrypt, Deliverable, Consume
<1>2. PICK U, f : U = Used(p) /\ f = fresh[p]
  OBVIOUS
<1>3. /\ KeysInv(p, s, U, f) /\ StepsOK(s)
      /\ s.recv = None => /\ Turns(s, m) /\ sess[p] # None /\ s.remote \in Spks(Peer(p))
      /\ s.remote.of = Peer(p) /\ s.local \notin Spks(p) /\ s.local.of = p
      /\ IF sess[p] = None THEN s.local = NewKey(p) /\ ~Turns(s, m)
         ELSE s = sess[p] /\ s.local.n < f
  BY <1>1, <1>2, SessionReady
<1>4. /\ f \in Nat \ {0} /\ NewKey(p) \in KeyPairs /\ NewKey(p).of = p /\ NewKey(p).n = f
      /\ \A b \in offered[p] : b.spk.n \in Nat /\ b.spk.n < f
  BY <1>2, PartyFacts
<1>5. /\ m \in Envelopes /\ m.dh.of = Peer(p) /\ m \in Sent
  BY <1>1, LetterFacts DEF Sent
<1>6. net \cap (opened \cup failed \cup refused) = {} /\ fresh \in [Party -> Nat \ {0}]
  BY DEF RatchetInv, Letters, Types
<1>g. PICK g : g = IF sess[p] = None \/ Renews(sess[p], m) THEN f + 1 ELSE f
  OBVIOUS
<1>7. /\ g \in Nat /\ f <= g /\ fresh' = [fresh EXCEPT ![p] = g] /\ s.local.n < g
      /\ sess[p] # None /\ Renews(s, m) => NewKey(p).n < g
  <2>1. g \in Nat /\ f <= g
    BY <1>4, <1>g
  <2>2. fresh' = [fresh EXCEPT ![p] = g]
    BY <1>1, <1>2, <1>6, <1>g
  <2>3. s.local.n < g
    <3>1. s.local.n \in Nat
      BY <1>3, SessionFields DEF KeysInv, KeyPairs
    <3> QED BY <1>3, <1>4, <1>g, <3>1
  <2>4. ASSUME sess[p] # None, Renews(s, m) PROVE NewKey(p).n < g
    BY <1>3, <1>4, <1>g, <2>4
  <2> QED BY <2>1, <2>2, <2>3, <2>4
<1>8. s \in Sessions
  BY <1>3 DEF KeysInv
<1>9. CASE DecryptRefused(s, m, NewKey(p)) /\ sess' = [sess EXCEPT ![p] = s]
  <2>1. refused' = refused \cup {m} /\ UNCHANGED <<opened, failed>>
    BY <1>9 DEF DecryptRefused
  <2>2. Sent' = Sent
    BY <1>1, <2>1 DEF Sent
  <2>3. \A q : Opened(q)' = Opened(q)
    BY <2>1 DEF Opened
  <2>4. (net \cap (opened \cup failed \cup refused) = {})'
    BY <1>1, <1>6, <2>1
  <2>5. KeysInv(p, s, U, g)
    BY <1>3, <1>4, <1>7, KeysKept
  <2>6. PICK K : K = {}
    OBVIOUS
  <2>7. KeysInv(p, s, Used(p) \cup K, g)
    <3>1. Used(p) \cup K = U
      BY <1>2, <2>6
    <3> QED BY <2>5, <3>1
  <2> QED BY <1>2, <1>3, <1>7, <1>8, <1>9, <2>2, <2>3, <2>4, <2>6, <2>7
<1>10. CASE DecryptSkipped(p, s, m)
  <2>1. PICK k \in SkippedKeys(s, m) : /\ sess' = [sess EXCEPT ![p] = [s EXCEPT !.skipped = @ \ {k}]]
                                       /\ Open(m, k.key)
    BY <1>10 DEF DecryptSkipped
  <2>2. k \in s.skipped
    BY DEF SkippedKeys
  <2>3. PICK u : u = [s EXCEPT !.skipped = @ \ {k}]
    OBVIOUS
  <2>4. /\ KeysInv(p, u, U \cup {k.key}, f)
        /\ u \in Sessions /\ u.send = s.send /\ u.recv = s.recv
        /\ u.local = s.local /\ u.remote = s.remote /\ u.ns = s.ns /\ u.nr = s.nr
    BY <1>3, <2>2, <2>3, SkippedKeeps
  <2>5. StepsOK(u)
    BY <1>3, <2>4 DEF StepsOK
  <2>6. KeysInv(p, u, U \cup {k.key}, g)
    BY <1>4, <1>7, <2>4, KeysKept
  <2>7. /\ Sent' = Sent /\ Opened(p)' \subseteq Opened(p) \cup {k.key}
        /\ \A q \in Party : q # p => Opened(q)' = Opened(q)
        /\ (net \cap (opened \cup failed \cup refused) = {})'
    BY <1>1, <1>6, <2>1, OpenEffect
  <2>8. PICK K : K = {k.key}
    OBVIOUS
  <2>9. KeysInv(p, u, Used(p) \cup K, g)
    BY <1>2, <2>6, <2>8
  <2> QED BY <1>2, <1>3, <1>7, <2>1, <2>3, <2>4, <2>5, <2>7, <2>8, <2>9
<1>11. CASE DecryptNext(p, s, m, NewKey(p))
  <2>1. PICK dhs \in KeyPairs : dhs = NewKey(p)
    BY <1>4
  <2>2. PICK t : t = Skip(OnChain(s, m, dhs), m.seq)
    OBVIOUS
  <2>3. PICK u : u = NextRecv(t)
    OBVIOUS
  <2>4. /\ SkippedKeys(s, m) = {} /\ sess' = [sess EXCEPT ![p] = u] /\ Open(m, t.recv)
    BY <1>11, <2>1, <2>2, <2>3 DEF DecryptNext, NextRecv
  <2>5. /\ KeysInv(p, u, U \cup {t.recv}, f) /\ StepsOK(u) /\ u.recv # None
        /\ u.remote = m.dh /\ u.local = IF Turns(s, m) THEN dhs ELSE s.local
    <3>1. KeysInv(p, s, U, f) /\ StepsOK(s) /\ m \in Envelopes /\ (s.recv = None => Turns(s, m))
      BY <1>3, <1>5
    <3>2. /\ KeysInv(p, u, U \cup {t.recv}, f) /\ StepsOK(u)
          /\ t.recv \in Chains /\ t.recv \notin U /\ u.recv # None
          /\ u.remote = m.dh /\ u.local = IF Turns(s, m) THEN dhs ELSE s.local
      BY <2>2, <2>3, <3>1, NextKeeps
    <3> QED BY <3>2
  <2>6. u.local.of = p /\ u.local.n < g /\ u.local \notin Spks(p)
    <3>1. CASE Turns(s, m)
      <4>1. u.local = NewKey(p)
        BY <2>1, <2>5, <3>1
      <4>2. sess[p] # None /\ Renews(s, m)
        BY <1>3, <2>4, <3>1 DEF Renews
      <4>3. NewKey(p) \notin Spks(p)
        BY <1>4 DEF Spks
      <4> QED BY <1>4, <1>7, <4>1, <4>2, <4>3
    <3>2. CASE ~Turns(s, m)
      BY <1>3, <1>7, <2>5, <3>2
    <3> QED BY <3>1, <3>2
  <2>7. u \in Sessions /\ KeysInv(p, u, U \cup {t.recv}, g)
    <3>1. u \in Sessions
      BY <2>5 DEF KeysInv
    <3> QED BY <1>4, <1>7, <2>5, <3>1, KeysKept
  <2>8. /\ Sent' = Sent /\ Opened(p)' \subseteq Opened(p) \cup {t.recv}
        /\ \A q \in Party : q # p => Opened(q)' = Opened(q)
        /\ (net \cap (opened \cup failed \cup refused) = {})'
    BY <1>1, <1>6, <2>4, OpenEffect
  <2>9. PICK K : K = {t.recv}
    OBVIOUS
  <2>10. KeysInv(p, u, Used(p) \cup K, g)
    BY <1>2, <2>7, <2>9
  <2> QED BY <1>2, <1>5, <1>7, <2>4, <2>5, <2>6, <2>7, <2>8, <2>9, <2>10
<1> QED BY <1>1, <1>9, <1>10, <1>11
\* A message is decrypted.
LEMMA DecryptInv ==
    ASSUME RatchetInv, NEW p \in Party, NEW m \in net, Decrypt(p, m)
    PROVE  RatchetInv'
<1>1. PICK s : s = Session(p, m)
  OBVIOUS
<1>2. PICK u, g, K :
              /\ u \in Sessions /\ g \in Nat
              /\ KeysInv(p, u, Used(p) \cup K, g) /\ StepsOK(u)
              /\ sess' = [sess EXCEPT ![p] = u] /\ fresh' = [fresh EXCEPT ![p] = g]
              /\ fresh[p] <= g
              /\ u.local.of = p /\ u.local.n < g /\ u.local \notin Spks(p)
              /\ u.remote.of = Peer(p) /\ (u.recv = None => u.remote \in Spks(Peer(p)))
              /\ Sent' = Sent /\ Opened(p)' \subseteq Opened(p) \cup K
              /\ \A q \in Party : q # p => Opened(q)' = Opened(q)
              /\ (net \cap (opened \cup failed \cup refused) = {})'
  BY <1>1, DecryptEffect
<1>3. PICK o \in SUBSET opk[p] : opk' = [opk EXCEPT ![p] = o]
  <2>1. PICK o : o = IF sess[p] = None THEN opk[p] \ {m.otk} ELSE opk[p]
    OBVIOUS
  <2>2. opk' = [opk EXCEPT ![p] = o]
    BY <2>1 DEF Decrypt, Consume, RatchetInv, Types
  <2>3. o \in SUBSET opk[p]
    BY <2>1
  <2> QED BY <2>2, <2>3
<1>4. UNCHANGED <<spk, offered, imports, sends>>
  BY DEF Decrypt, counts
<1>5. /\ Owners' /\ sess'[p] = u /\ fresh'[p] = g
      /\ sess' \in [Party -> Sessions \cup {None}]
      /\ fresh' \in [Party -> Nat \ {0}] /\ opk' \in [Party -> SUBSET KeyPairs]
      /\ \A q \in Party : q # p => sess'[q] = sess[q] /\ fresh'[q] = fresh[q]
      /\ \A q \in Party : fresh[q] \in Nat /\ fresh'[q] \in Nat /\ fresh[q] <= fresh'[q]
  BY <1>2, <1>3, <1>4, OwnersStep
<1>6. Types'
  <2>1. Sent' \subseteq Envelopes
    BY <1>2 DEF RatchetInv, Types
  <2> QED BY <1>4, <1>5, <2>1 DEF RatchetInv, Types
<1>7. Letters'
  BY <1>2, <1>4, <1>5, LettersStep
<1>8. Steps'
  BY <1>2, <1>5 DEF RatchetInv, Steps
<1>9. \A q : UsedBy(q)' = UsedBy(q)
  BY <1>2 DEF UsedBy
<1>10. Secrecy'
  <2> SUFFICES ASSUME NEW q \in Party
               PROVE  IF sess'[q] = None THEN Used(q)' = {}
                      ELSE KeysInv(q, sess'[q], Used(q)', fresh'[q])
    BY DEF Secrecy
  <2>1. CASE q = p
    <3>1. PICK V : V = Used(p)'
      OBVIOUS
    <3>2. PICK W : W = Used(p) \cup K
      OBVIOUS
    <3>3. V \in SUBSET W
      BY <1>2, <1>9, <3>1, <3>2 DEF Used
    <3>4. KeysInv(p, u, V, g)
      BY <1>2, <3>2, <3>3, KeysKept
    <3>5. u # None
      BY <1>2, NoneAssumption
    <3> QED BY <1>5, <2>1, <3>1, <3>4, <3>5
  <2>2. CASE q # p
    <3>1. Used(q)' = Used(q)
      BY <1>2, <1>9, <2>2 DEF Used
    <3> QED BY <1>5, <2>2, <3>1, PartyFacts
  <2> QED BY <2>1, <2>2
<1> QED BY <1>5, <1>6, <1>7, <1>8, <1>10 DEF RatchetInv

\* Every step keeps the invariant.
LEMMA RatchetNext == RatchetInv /\ [Next]_vars => RatchetInv'
<1> SUFFICES ASSUME RatchetInv, [Next]_vars PROVE RatchetInv'
  OBVIOUS
<1>1. ASSUME NEW p \in Party, GeneratePreKeyBundle(p) PROVE RatchetInv'
  BY <1>1, BundleInv
<1>2. ASSUME NEW p \in Party, InitiateSession(p) PROVE RatchetInv'
  BY <1>2, ImportInv
<1>3. ASSUME NEW p \in Party, Encrypt(p) PROVE RatchetInv'
  BY <1>3, EncryptInv
<1>4. ASSUME NEW p \in Party, NEW m \in net, Decrypt(p, m) PROVE RatchetInv'
  BY <1>4, DecryptInv
<1>5. CASE UNCHANGED vars
  <2>1. /\ UNCHANGED <<sess, spk, opk, offered, fresh, imports, sends>>
        /\ UNCHANGED <<net, opened, failed, refused>>
    BY <1>5 DEF vars, stores, counts
  <2>2. UNCHANGED Sent
    BY <2>1 DEF Sent
  <2>3. Types'
    BY <2>1, <2>2 DEF RatchetInv, Types
  <2>4. Owners'
    BY <2>1 DEF RatchetInv, Owners, Numbered, Spks
  <2>5. Letters'
    BY <2>1, <2>2 DEF RatchetInv, Letters, Numbered, Spks
  <2>6. Steps'
    BY <2>1 DEF RatchetInv, Steps
  <2>7. Secrecy'
    BY <2>1, UsedSame DEF RatchetInv, Secrecy
  <2> QED BY <2>3, <2>4, <2>5, <2>6, <2>7 DEF RatchetInv
<1> QED BY <1>1, <1>2, <1>3, <1>4, <1>5 DEF Next

\* Every state of the two engines satisfies the invariant.
THEOREM RatchetInvariant == Spec => []RatchetInv
<1> QED BY RatchetInit, RatchetNext, PTL DEF Spec

-----------------------------------------------------------------------------
(* The theorems *)

(***************************************************************************)
(* A stored session holds key pairs of its owner and of its peer that have *)
(* been generated, its sequence numbers are the positions of its chains,   *)
(* and no message is delivered while it is still on its way.               *)
(***************************************************************************)
THEOREM RatchetTypeCorrect == Spec => []TypeOK
<1>1. RatchetInv => TypeOK
  <2> SUFFICES ASSUME RatchetInv PROVE TypeOK
    OBVIOUS
  <2>1. ASSUME NEW p \in Party
        PROVE  /\ spk[p] = None \/ spk[p].of = p
               /\ \A k \in opk[p] : k.of = p /\ k.n < fresh[p]
    BY DEF RatchetInv, Owners, Numbered
  <2>2. ASSUME NEW p \in Party, sess[p] # None
        PROVE  /\ sess[p].local.of = p /\ sess[p].local.n < fresh[p]
               /\ sess[p].remote.of = Peer(p)
               /\ sess[p].recv # None => sess[p].recv.step = sess[p].nr
               /\ sess[p].send # None => sess[p].send.step = sess[p].ns
    <3>1. StepsOK(sess[p])
      BY <2>2, PartyFacts
    <3> QED BY <2>2, <3>1 DEF RatchetInv, Owners, Numbered, StepsOK
  <2>3. net \cap (opened \cup failed \cup refused) = {}
    BY DEF RatchetInv, Letters
  <2> QED BY <2>1, <2>2, <2>3 DEF TypeOK
<1> QED BY <1>1, RatchetInvariant, PTL

(***************************************************************************)
(* Forward secrecy, whatever is lost, delayed or reordered and however     *)
(* often the parties import each other anew: the key of a message that     *)
(* decrypt has opened can be derived from neither stored session.          *)
(***************************************************************************)
THEOREM ForwardSecrecyHolds == Spec => []ForwardSecrecy
<1>1. RatchetInv => ForwardSecrecy
  <2> SUFFICES ASSUME RatchetInv, NEW m \in opened, NEW p \in Party, sess[p] # None
               PROVE  ~Derives(sess[p], m.key)
    BY DEF ForwardSecrecy
  <2>1. m \in Sent
    BY DEF Sent
  <2>2. m.from \in Party
    BY <2>1, LetterFacts
  <2>3. m.key \in Used(p)
    <3>1. CASE m.from = p
      BY <2>1, <3>1 DEF Used, UsedBy
    <3>2. CASE m.from = Peer(p)
      BY <3>2 DEF Used, Opened
    <3> QED BY <2>2, <3>1, <3>2, Peers
  <2>4. KeysInv(p, sess[p], Used(p), fresh[p])
    BY PartyFacts
  <2> QED BY <2>3, <2>4 DEF KeysInv, Gone
<1> QED BY <1>1, RatchetInvariant, PTL
-----------------------------------------------------------------------------
(* The two sessions together *)

\* The key of m, as skipMessageKeys puts it aside.
SkippedKey(m) == [dh |-> m.dh, seq |-> m.seq, key |-> m.key]

(***************************************************************************)
(* The messages M of the owner of session x: each chain has a key pair of  *)
(* its own, and numbers its messages; on the current one they are all      *)
(* those below ns.                                                         *)
(***************************************************************************)
Sends(x, M) ==
    /\ \A m \in M : m.seq \in Nat /\ m.key.step = m.seq
    /\ \A m1, m2 \in M : m1.dh = m2.dh =>
          m1.key.root = m2.key.root /\ (m1.seq = m2.seq => m1 = m2)
    /\ \A m \in M : m.dh = x.local =>
          x.send # None /\ m.key.root = x.root /\ m.seq < x.ns /\ m.pn = x.pn
    /\ \A i \in 0..(x.ns - 1) : \E m \in M : m.dh = x.local /\ m.seq = i

\* How many messages session x has sent on the receiving chain of s.
Limit(s, x) == IF s.remote = x.local THEN x.ns ELSE x.pn

(***************************************************************************)
(* What session s has received of the messages M of session x, those in O  *)
(* being opened.  On the receiving chain it is as far as nr, on x's next   *)
(* chain nowhere, and of older chains it has the keys of all that is not   *)
(* opened.                                                                 *)
(***************************************************************************)
Receives(s, x, M, O) ==
    /\ \A k \in s.skipped : /\ \E m \in M \ O : k = SkippedKey(m)
                            /\ k.dh = s.remote => k.seq < s.nr
    /\ \A m \in M : m.dh = s.remote =>
          /\ s.recv # None /\ m.key.root = s.recv.root /\ m.seq < Limit(s, x)
          /\ m \in O => m.seq < s.nr
          /\ m \notin O /\ m.seq < s.nr => SkippedKey(m) \in s.skipped
    /\ s.recv # None =>
          /\ s.nr <= Limit(s, x)
          /\ \A i \in 0..(Limit(s, x) - 1) : \E m \in M : m.dh = s.remote /\ m.seq = i
    /\ \A m \in M : m.dh = x.local /\ s.remote # x.local =>
          m \notin O /\ SkippedKey(m) \notin s.skipped
    /\ \A m \in M \ O : m.dh \notin {s.remote, x.local} => SkippedKey(m) \in s.skipped

\* The root key of session s once it has a sending chain.
SendRoot(s) == IF s.send # None THEN s.root ELSE KdfRoot(s.root, DH(s.local, s.remote))

\* Session s has turned onto the sending chain of x, which has not seen that of s.
Leads(s, x) ==
    /\ s.remote = x.local /\ x.remote # s.local
    /\ s.recv # None /\ s.recv.root = x.root /\ x.send # None
    /\ SendRoot(s) = KdfRoot(x.root, DH(s.local, x.local))

\* Session s has sent S, session x has sent X, and those in O are opened.
Linked(s, x, S, X, O) ==
    /\ Leads(s, x)
    /\ Sends(s, S) /\ Sends(x, X)
    /\ Receives(s, x, X, O) /\ Receives(x, s, S, O)

Joined(s, x, S, X, O) == Linked(s, x, S, X, O) \/ Linked(x, s, X, S, O)

-----------------------------------------------------------------------------
\* What a party receives depends on these fields alone.
LEMMA ReceivesSame ==
    ASSUME NEW s, NEW x, NEW M, NEW O, Receives(s, x, M, O),
           NEW t, t.skipped = s.skipped, t.remote = s.remote, t.recv = s.recv, t.nr = s.nr,
           NEW y, y.local = x.local, y.ns = x.ns, y.pn = x.pn
    PROVE  Receives(t, y, M, O)
  BY DEF Receives, Limit

\* Opening a message of the other direction changes nothing.
LEMMA ReceivesMore ==
    ASSUME NEW s, NEW x, NEW M, NEW O, Receives(s, x, M, O), NEW m, m \notin M
    PROVE  Receives(s, x, M, O \cup {m})
<1>1. M \ (O \cup {m}) = M \ O /\ \A n \in M : n \in O \cup {m} <=> n \in O
  OBVIOUS
<1> QED BY <1>1 DEF Receives

\* The session and the message that sealing leaves.
LEMMA SealedFields ==
    ASSUME NEW p, NEW s, NEW U, NEW f, KeysInv(p, s, U, f), StepsOK(s), NEW n,
           NEW w, w = WithSendChain(s), NEW m, m = Sealed(p, n, w), NEW u, u = NextSend(w)
    PROVE  /\ s.ns \in Nat /\ s.pn \in Nat /\ u \in Sessions
           /\ w.root = SendRoot(s) /\ u.root = w.root /\ u.send # None
           /\ s.send # None => w.root = s.root
           /\ u.ns = s.ns + 1 /\ u.pn = s.pn /\ u.local = s.local /\ u.remote = s.remote
           /\ u.recv = s.recv /\ u.nr = s.nr /\ u.skipped = s.skipped
           /\ m.from = p /\ m.dh = s.local /\ m.seq = s.ns /\ m.pn = s.pn
           /\ m.key.root = w.root /\ m.key.step = s.ns
           /\ s.ns = 0 => m.otk = s.otk
           /\ u.otk = s.otk
<1>1. s \in Sessions /\ Len(s.root) >= 1
  BY DEF KeysInv
<1>2. /\ KeysInv(p, w, U, f) /\ w.send # None
      /\ w.local = s.local /\ w.remote = s.remote /\ w.recv = s.recv
      /\ w.ns = s.ns /\ w.nr = s.nr /\ w.skipped = s.skipped
      /\ IF s.send # None THEN w = s ELSE w.send.step = 0
  BY WithSendChainKeeps
<1>3. w.pn = s.pn /\ w.otk = s.otk
  BY <1>1 DEF WithSendChain, Sessions
<1>4. /\ KeysInv(p, u, U \cup {w.send}, f)
      /\ u.local = w.local /\ u.remote = w.remote /\ u.recv = w.recv /\ u.nr = w.nr
      /\ u.send # None /\ u.ns = w.ns + 1
  BY <1>2, NextSendKeeps
<1>5. /\ w \in Sessions /\ u \in Sessions /\ w.send.root = w.root
  BY <1>2, <1>4 DEF KeysInv, ChainsApart
<1>6. u.root = w.root /\ u.pn = w.pn /\ u.skipped = w.skipped /\ u.otk = w.otk
  BY <1>5 DEF NextSend, Sessions
<1>7. w.send.step = s.ns
  BY <1>2 DEF StepsOK
<1>8. s.ns \in Nat /\ s.pn \in Nat
  BY <1>1, SessionFields
<1>9. w.root = SendRoot(s)
  BY <1>1 DEF WithSendChain, SendRoot, Sessions
<1>10. /\ m.from = p /\ m.dh = w.local /\ m.seq = w.ns /\ m.pn = w.pn /\ m.key = w.send
       /\ w.ns = 0 => m.otk = w.otk
  BY DEF Sealed
<1> QED BY <1>2, <1>3, <1>4, <1>5, <1>6, <1>7, <1>8, <1>9, <1>10

\* Sealing adds a message to the current chain.
LEMMA SealSends ==
    ASSUME NEW s, NEW M, Sends(s, M), s.ns \in Nat,
           NEW u, u.send # None, u.ns = s.ns + 1, u.pn = s.pn, u.local = s.local,
           s.send # None => u.root = s.root,
           NEW m, m.dh = s.local, m.seq = s.ns, m.pn = s.pn, m.key.root = u.root,
           m.key.step = s.ns
    PROVE  Sends(u, M \cup {m}) /\ m \notin M
<1>1. \A x \in M : x.dh = s.local => /\ s.send # None /\ x.key.root = u.root /\ x.seq < s.ns
                                     /\ x.pn = s.pn
  BY DEF Sends
<1>2. m \notin M /\ \A x \in M : x.dh = m.dh => x.seq # m.seq /\ x.key.root = m.key.root
  BY <1>1
<1>3. \A x \in M \cup {m} : x.seq \in Nat /\ x.key.step = x.seq
  BY DEF Sends
<1>4. \A m1, m2 \in M \cup {m} : m1.dh = m2.dh =>
          m1.key.root = m2.key.root /\ (m1.seq = m2.seq => m1 = m2)
  BY <1>2 DEF Sends
<1>5. \A x \in M \cup {m} : x.dh = u.local =>
          u.send # None /\ x.key.root = u.root /\ x.seq < u.ns /\ x.pn = u.pn
  <2> SUFFICES ASSUME NEW x \in M \cup {m}, x.dh = u.local
               PROVE  x.key.root = u.root /\ x.seq < u.ns /\ x.pn = u.pn
    OBVIOUS
  <2>1. CASE x = m
    BY <2>1
  <2>2. CASE x \in M
    <3>1. x.seq < s.ns /\ x.seq \in Nat
      BY <1>1, <2>2 DEF Sends
    <3>2. x.seq < s.ns + 1
      BY <3>1
    <3> QED BY <1>1, <2>2, <3>2
  <2> QED BY <2>1, <2>2
<1>6. \A i \in 0..(u.ns - 1) : \E x \in M \cup {m} : x.dh = u.local /\ x.seq = i
  <2> SUFFICES ASSUME NEW i \in 0..(u.ns - 1)
               PROVE  \E x \in M \cup {m} : x.dh = u.local /\ x.seq = i
    OBVIOUS
  <2>1. CASE i = s.ns
    BY <2>1
  <2>2. CASE i # s.ns
    <3>1. i \in 0..(s.ns - 1)
      BY <2>2
    <3> QED BY <3>1 DEF Sends
  <2> QED BY <2>1, <2>2
<1> QED BY <1>2, <1>3, <1>4, <1>5, <1>6 DEF Sends

\* The side that leads goes on doing so when it seals a message.
LEMMA LeaderSeals ==
    ASSUME NEW s, NEW x, NEW S, NEW X, NEW O, Linked(s, x, S, X, O), s.ns \in Nat,
           NEW u, u.root = SendRoot(s), u.send # None,
           u.ns = s.ns + 1, u.pn = s.pn, u.local = s.local, u.remote = s.remote,
           u.recv = s.recv, u.nr = s.nr, u.skipped = s.skipped,
           NEW m, m \notin O, m.dh = s.local, m.seq = s.ns, m.pn = s.pn, m.key.root = u.root,
           m.key.step = s.ns
    PROVE  Linked(u, x, S \cup {m}, X, O)
<1>1. /\ Leads(s, x) /\ Sends(s, S) /\ Sends(x, X)
      /\ Receives(s, x, X, O) /\ Receives(x, s, S, O)
  BY DEF Linked
<1>2. Leads(u, x)
  BY <1>1 DEF Leads, SendRoot
<1>3. s.send # None => u.root = s.root
  BY DEF SendRoot
<1>4. Sends(u, S \cup {m})
  BY <1>1, <1>3, SealSends
<1>5. Receives(u, x, X, O)
  BY <1>1, ReceivesSame
<1>6. Receives(x, u, S \cup {m}, O)
  <2>1. x.remote # s.local
    BY <1>1 DEF Leads
  <2>2. Limit(x, u) = Limit(x, s) /\ u.local = s.local
    BY <2>1 DEF Limit
  <2>3. SkippedKey(m) \notin x.skipped
    <3> SUFFICES ASSUME SkippedKey(m) \in x.skipped PROVE FALSE
      OBVIOUS
    <3>1. PICK n \in S \ O : SkippedKey(m) = SkippedKey(n)
      BY <1>1 DEF Receives
    <3>2. n.dh = s.local
      BY <3>1 DEF SkippedKey
    <3> QED BY <1>1, <2>1, <3>1, <3>2 DEF Receives
  <2>4. \A k \in x.skipped : /\ \E n \in (S \cup {m}) \ O : k = SkippedKey(n)
                             /\ k.dh = x.remote => k.seq < x.nr
    BY <1>1 DEF Receives
  <2>5. \A n \in S \cup {m} : n.dh = x.remote => n \in S
    BY <2>1
  <2>6. \A n \in S \cup {m} : n.dh # u.local => n \in S
    OBVIOUS
  <2>7. \A n \in S \cup {m} : n.dh = u.local /\ x.remote # u.local =>
          n \notin O /\ SkippedKey(n) \notin x.skipped
    BY <1>1, <2>2, <2>3 DEF Receives
  <2>8. x.recv # None =>
          /\ x.nr <= Limit(x, u)
          /\ \A i \in 0..(Limit(x, u) - 1) : \E n \in S \cup {m} : n.dh = x.remote /\ n.seq = i
    BY <1>1, <2>2 DEF Receives
  <2> QED BY <1>1, <2>2, <2>4, <2>5, <2>6, <2>7, <2>8 DEF Receives
<1> QED BY <1>1, <1>2, <1>4, <1>5, <1>6 DEF Linked

\* So does it when the other side seals one.
LEMMA FollowerSeals ==
    ASSUME NEW x, NEW s, NEW X, NEW S, NEW O, Linked(x, s, X, S, O), s.ns \in Nat, x.nr \in Nat,
           NEW u, u.root = SendRoot(s), u.send # None,
           u.ns = s.ns + 1, u.pn = s.pn, u.local = s.local, u.remote = s.remote,
           u.recv = s.recv, u.nr = s.nr, u.skipped = s.skipped,
           NEW m, m \notin O, m.dh = s.local, m.seq = s.ns, m.pn = s.pn, m.key.root = u.root,
           m.key.step = s.ns
    PROVE  Linked(x, u, X, S \cup {m}, O)
<1>1. /\ Leads(x, s) /\ Sends(s, S) /\ Sends(x, X)
      /\ Receives(x, s, S, O) /\ Receives(s, x, X, O)
  BY DEF Linked
<1>2. s.send # None /\ u.root = s.root /\ x.remote = s.local /\ x.recv # None /\ x.recv.root = s.root
  BY <1>1 DEF Leads, SendRoot
<1>3. Leads(x, u)
  BY <1>1, <1>2 DEF Leads
<1>4. Sends(u, S \cup {m})
  BY <1>1, <1>2, SealSends
<1>5. Receives(u, x, X, O)
  BY <1>1, ReceivesSame
<1>6. Receives(x, u, S \cup {m}, O)
  <2>0. PICK T : T = S \cup {m}
    OBVIOUS
  <2>1. Limit(x, s) = s.ns /\ Limit(x, u) = s.ns + 1
    BY <1>2 DEF Limit
  <2>2. x.nr <= s.ns
    BY <1>1, <1>2, <2>1 DEF Receives
  <2>3. \A k \in x.skipped : /\ \E n \in T \ O : k = SkippedKey(n)
                             /\ k.dh = x.remote => k.seq < x.nr
    BY <1>1, <2>0 DEF Receives
  <2>4. \A n \in S : n.dh = x.remote =>
          /\ n.key.root = x.recv.root /\ n.seq < s.ns + 1
          /\ n \in O => n.seq < x.nr
          /\ n \notin O /\ n.seq < x.nr => SkippedKey(n) \in x.skipped
    <3> SUFFICES ASSUME NEW n \in S, n.dh = x.remote PROVE n.seq < s.ns + 1
      BY <1>1 DEF Receives
    <3>1. n.seq < s.ns /\ n.seq \in Nat
      BY <1>1, <2>1 DEF Receives, Sends
    <3> QED BY <3>1
  <2>5. /\ m.key.root = x.recv.root /\ m.seq < s.ns + 1 /\ ~(m.seq < x.nr)
    BY <1>2, <2>2
  <2>6. \A i \in 0..(s.ns + 1 - 1) : \E n \in T : n.dh = x.remote /\ n.seq = i
    <3> SUFFICES ASSUME NEW i \in 0..s.ns
                 PROVE  \E n \in T : n.dh = x.remote /\ n.seq = i
      OBVIOUS
    <3>1. CASE i = s.ns
      BY <1>2, <2>0, <3>1
    <3>2. CASE i # s.ns
      <4>1. i \in 0..(s.ns - 1)
        BY <3>2
      <4> QED BY <1>1, <1>2, <2>0, <2>1, <4>1 DEF Receives
    <3> QED BY <3>1, <3>2
  <2>7. x.nr <= s.ns + 1
    BY <2>2
  <2>8. \A n \in T \ O : n.dh \notin {x.remote, u.local} => SkippedKey(n) \in x.skipped
    BY <1>1, <1>2, <2>0 DEF Receives
  <2>9. \A n \in T : n.dh = x.remote =>
          /\ x.recv # None /\ n.key.root = x.recv.root /\ n.seq < Limit(x, u)
          /\ n \in O => n.seq < x.nr
          /\ n \notin O /\ n.seq < x.nr => SkippedKey(n) \in x.skipped
    <3> SUFFICES ASSUME NEW n \in T, n.dh = x.remote
                 PROVE  /\ n.key.root = x.recv.root /\ n.seq < s.ns + 1
                        /\ n \in O => n.seq < x.nr
                        /\ n \notin O /\ n.seq < x.nr => SkippedKey(n) \in x.skipped
      BY <1>2, <2>1
    <3>1. CASE n = m
      BY <2>5, <3>1
    <3>2. CASE n \in S
      BY <2>4, <3>2
    <3> QED BY <2>0, <3>1, <3>2
  <2>10. x.remote = u.local
    BY <1>2
  <2>11. /\ x.nr <= Limit(x, u)
         /\ \A i \in 0..(Limit(x, u) - 1) : \E n \in T : n.dh = x.remote /\ n.seq = i
    BY <2>1, <2>6, <2>7
  <2>12. Receives(x, u, T, O)
    BY <2>3, <2>8, <2>9, <2>10, <2>11 DEF Receives
  <2> QED BY <2>0, <2>12
<1> QED BY <1>1, <1>3, <1>4, <1>5, <1>6 DEF Linked

\* Encrypt keeps the two sessions joined.
LEMMA JoinedSeals ==
    ASSUME NEW p, NEW s, NEW U, NEW f, KeysInv(p, s, U, f), StepsOK(s), NEW n,
           NEW w, w = WithSendChain(s), NEW m, m = Sealed(p, n, w), NEW u, u = NextSend(w),
           NEW x \in Sessions, NEW S, NEW X, NEW O, Joined(s, x, S, X, O), m \notin O
    PROVE  Joined(u, x, S \cup {m}, X, O)
<1>1. /\ s.ns \in Nat /\ u.root = SendRoot(s) /\ u.send # None
      /\ u.ns = s.ns + 1 /\ u.pn = s.pn /\ u.local = s.local /\ u.remote = s.remote
      /\ u.recv = s.recv /\ u.nr = s.nr /\ u.skipped = s.skipped
      /\ m.dh = s.local /\ m.seq = s.ns /\ m.pn = s.pn
      /\ m.key.root = u.root /\ m.key.step = s.ns
  BY SealedFields
<1>2. x.nr \in Nat
  BY SessionFields
<1>3. CASE Linked(s, x, S, X, O)
  BY <1>1, <1>3, LeaderSeals DEF Joined
<1>4. CASE Linked(x, s, X, S, O)
  BY <1>1, <1>2, <1>4, FollowerSeals DEF Joined
<1> QED BY <1>3, <1>4 DEF Joined

-----------------------------------------------------------------------------
(* Opening *)

\* A session that has opened m and kept the rest is joined as before.
LEMMA JoinedOpens ==
    ASSUME NEW s, NEW x, NEW S, NEW X, NEW O, Joined(s, x, S, X, O), NEW m, m \notin S,
           NEW u, u.root = s.root, u.send = s.send, u.local = s.local, u.remote = s.remote,
           u.ns = s.ns, u.pn = s.pn, u.recv = None <=> s.recv = None,
           s.recv # None => u.recv.root = s.recv.root,
           Receives(u, x, X, O \cup {m})
    PROVE  Joined(u, x, S, X, O \cup {m})
<1>1. Sends(s, S) => Sends(u, S)
  BY DEF Sends
<1>2. Receives(x, s, S, O) => Receives(x, u, S, O \cup {m})
  <2> SUFFICES ASSUME Receives(x, s, S, O) PROVE Receives(x, u, S, O \cup {m})
    OBVIOUS
  <2>1. Receives(x, u, S, O)
    BY ReceivesSame
  <2> QED BY <2>1, ReceivesMore
<1>3. CASE Linked(s, x, S, X, O)
  <2>1. Leads(u, x)
    BY <1>3 DEF Linked, Leads, SendRoot
  <2> QED BY <1>1, <1>2, <1>3, <2>1 DEF Linked, Joined
<1>4. CASE Linked(x, s, X, S, O)
  <2>1. Leads(x, u)
    BY <1>4 DEF Linked, Leads
  <2> QED BY <1>1, <1>2, <1>4, <2>1 DEF Linked, Joined
<1> QED BY <1>3, <1>4 DEF Joined

\* What Joined says of one side.
LEMMA JoinedSides ==
    ASSUME NEW s, NEW x, NEW S, NEW X, NEW O, Joined(s, x, S, X, O)
    PROVE  Sends(s, S) /\ Sends(x, X) /\ Receives(s, x, X, O) /\ Receives(x, s, S, O)
  BY DEF Joined, Linked

\* A key that was put aside for m is that of m, and its use opens no other.
LEMMA SkippedOpens ==
    ASSUME NEW s \in Sessions, NEW x, NEW X, NEW O, Sends(x, X), Receives(s, x, X, O),
           NEW m \in X, m \notin O, NEW k \in SkippedKeys(s, m),
           NEW u, u.skipped = s.skipped \ {k}, u.remote = s.remote, u.recv = s.recv,
           u.nr = s.nr
    PROVE  k.key = m.key /\ Receives(u, x, X, O \cup {m})
<1>1. k \in s.skipped /\ k.dh = m.dh /\ k.seq = m.seq
  BY DEF SkippedKeys
<1>2. PICK n \in X \ O : k = SkippedKey(n)
  BY <1>1 DEF Receives
<1>3. n.dh = m.dh /\ n.seq = m.seq
  BY <1>1, <1>2 DEF SkippedKey
<1>4. n = m
  BY <1>3 DEF Sends
<1>5. k = SkippedKey(m) /\ k.key = m.key
  BY <1>2, <1>4 DEF SkippedKey
<1>6. \A y \in X : SkippedKey(y) = k => y = m
  <2> SUFFICES ASSUME NEW y \in X, SkippedKey(y) = k PROVE y = m
    OBVIOUS
  <2>1. y.dh = m.dh /\ y.seq = m.seq
    BY <1>5 DEF SkippedKey
  <2> QED BY <2>1 DEF Sends
<1>7. \A y \in X \ (O \cup {m}) : SkippedKey(y) \in s.skipped => SkippedKey(y) \in u.skipped
  BY <1>6
<1>8. Limit(u, x) = Limit(s, x)
  BY DEF Limit
<1>9. \A j \in u.skipped : /\ \E y \in X \ (O \cup {m}) : j = SkippedKey(y)
                             /\ j.dh = u.remote => j.seq < u.nr
  BY <1>5 DEF Receives
<1>10. \A y \in X : y.dh = u.remote =>
          /\ u.recv # None /\ y.key.root = u.recv.root /\ y.seq < Limit(u, x)
          /\ y \in O \cup {m} => y.seq < u.nr
          /\ y \notin O \cup {m} /\ y.seq < u.nr => SkippedKey(y) \in u.skipped
  <2> SUFFICES ASSUME NEW y \in X, y.dh = u.remote
               PROVE  /\ y \in O \cup {m} => y.seq < u.nr
                      /\ y \notin O \cup {m} /\ y.seq < u.nr => SkippedKey(y) \in u.skipped
    BY <1>8 DEF Receives
  <2>1. m.dh = s.remote => m.seq < s.nr
    BY <1>1 DEF Receives
  <2> QED BY <1>7, <2>1 DEF Receives
<1>11. \A y \in X : y.dh = x.local /\ u.remote # x.local =>
          y \notin O \cup {m} /\ SkippedKey(y) \notin u.skipped
  BY <1>1, <1>5 DEF Receives
<1>12. \A y \in X \ (O \cup {m}) : y.dh \notin {u.remote, x.local} => SkippedKey(y) \in u.skipped
  BY <1>7 DEF Receives
<1>13. u.recv # None =>
          /\ u.nr <= Limit(u, x)
          /\ \A i \in 0..(Limit(u, x) - 1) : \E y \in X : y.dh = u.remote /\ y.seq = i
  BY <1>8 DEF Receives
<1> QED BY <1>5, <1>9, <1>10, <1>11, <1>12, <1>13 DEF Receives

\* The key that skipMessageKeys puts aside for a message of the chain is its own.
LEMMA SkippingKey ==
    ASSUME NEW s \in Sessions, s.recv # None, s.recv.step = s.nr, NEW until \in Nat,
           NEW n \in Envelopes, n.dh = s.remote, n.key.root = s.recv.root, n.key.step = n.seq
    PROVE  /\ n.seq \in s.nr..(until - 1) => SkippedKey(n) \in Skipping(s, until)
           /\ \A k \in Skipping(s, until) : k.seq = n.seq => k = SkippedKey(n)
<1>1. s.recv \in Chains /\ s.nr \in Nat /\ n.seq \in Nat /\ n.key \in Chains
  BY SessionFields DEF Envelopes
<1>2. \A i \in s.nr..(until - 1) : i = n.seq => Advance(s.recv, i - s.nr) = n.key
  <2> SUFFICES ASSUME NEW i \in s.nr..(until - 1), i = n.seq
               PROVE  Advance(s.recv, i - s.nr) = n.key
    OBVIOUS
  <2>1. PICK d \in Nat : d = i - s.nr /\ s.nr + d = n.seq
    BY <1>1
  <2>2. /\ Advance(s.recv, d) \in Chains /\ Advance(s.recv, d).root = s.recv.root
        /\ Advance(s.recv, d).step = s.recv.step + d
    BY <1>1, AdvanceType
  <2>3. \A a \in Chains : a.root = n.key.root /\ a.step = n.key.step => a = n.key
    BY <1>1 DEF Chains
  <2> QED BY <2>1, <2>2, <2>3
<1> DEFINE Entry(i) == [dh |-> s.remote, seq |-> i, key |-> Advance(s.recv, i - s.nr)]
<1>3. \A i \in s.nr..(until - 1) : Entry(i).seq = i /\ (i = n.seq => Entry(i) = SkippedKey(n))
  BY <1>2 DEF SkippedKey
<1>4. Skipping(s, until) = {Entry(i) : i \in s.nr..(until - 1)}
  BY DEF Skipping
<1> HIDE DEF Entry
<1>5. \A k \in Skipping(s, until) : k.seq = n.seq => k = SkippedKey(n)
  BY <1>3, <1>4
<1>6. n.seq \in s.nr..(until - 1) => SkippedKey(n) \in Skipping(s, until)
  BY <1>3, <1>4
<1> QED BY <1>5, <1>6

(***************************************************************************)
(* What skipMessageKeys puts aside is the keys of messages of X that were  *)
(* sent and are not opened: they are below the position until, up to which *)
(* the other side has sent.                                                *)
(***************************************************************************)
LEMMA SkippingSent ==
    ASSUME NEW s \in Sessions, s.recv # None, s.recv.step = s.nr, NEW x, NEW X, NEW O,
           X \subseteq Envelopes, Sends(x, X), Receives(s, x, X, O),
           NEW until \in Nat, until <= Limit(s, x), Limit(s, x) \in Nat,
           NEW k \in Skipping(s, until)
    PROVE  /\ \E n \in X \ O : k = SkippedKey(n) /\ n.dh = s.remote /\ n.seq = k.seq
           /\ k.dh = s.remote /\ k.seq \in s.nr..(until - 1) /\ k.seq \in Nat
<1>1. s.nr \in Nat
  BY SessionFields
<1>2. k.dh = s.remote /\ k.seq \in s.nr..(until - 1)
  BY SkippingKeys
<1>3. k.seq \in 0..(Limit(s, x) - 1) /\ k.seq \in Nat /\ ~(k.seq < s.nr)
  BY <1>1, <1>2
<1>4. PICK n \in X : n.dh = s.remote /\ n.seq = k.seq
  BY <1>3 DEF Receives
<1>5. n \notin O /\ n.key.root = s.recv.root /\ n.key.step = n.seq
  BY <1>3, <1>4 DEF Receives, Sends
<1>6. k = SkippedKey(n)
  BY <1>4, <1>5, SkippingKey
<1> QED BY <1>2, <1>3, <1>4, <1>5, <1>6

\* The next message of the receiving chain that is opened has the key that the
\* chain is advanced to.
LEMMA NextOpens ==
    ASSUME NEW s \in Sessions, StepsOK(s), NEW x, NEW X, NEW O,
           X \subseteq Envelopes, Sends(x, X), Receives(s, x, X, O), Limit(s, x) \in Nat,
           NEW m \in X, m \notin O, m.dh = s.remote, SkippedKey(m) \notin s.skipped,
           NEW t, t = Skip(s, m.seq),
           NEW u, u.skipped = t.skipped, u.remote = t.remote, u.recv # None,
           u.recv.root = t.recv.root, u.nr = t.nr + 1
    PROVE  /\ t.recv = m.key /\ s.recv # None /\ t.recv.root = s.recv.root
           /\ Receives(u, x, X, O \cup {m})
<1>1. /\ s.recv # None /\ m.key.root = s.recv.root /\ m.seq < Limit(s, x) /\ ~(m.seq < s.nr)
  BY DEF Receives
<1>2. /\ s.recv \in Chains /\ s.recv.step = s.nr /\ s.nr \in Nat
  BY <1>1, SessionFields DEF StepsOK
<1>3. /\ m.seq \in Nat /\ m.key.step = m.seq /\ m.key \in Chains
  BY DEF Sends, Envelopes
<1>4. /\ t.remote = s.remote
      /\ IF m.seq <= s.nr THEN t = s
         ELSE /\ t.skipped = s.skipped \cup Skipping(s, m.seq)
              /\ t.recv = Advance(s.recv, m.seq - s.nr) /\ t.nr = m.seq
  BY <1>1, <1>3, SkipFields
<1>5. t.nr = m.seq /\ t.recv \in Chains /\ t.recv.root = s.recv.root /\ t.recv.step = m.seq
  <2>1. CASE m.seq <= s.nr
    BY <1>1, <1>2, <1>3, <1>4, <2>1
  <2>2. CASE ~(m.seq <= s.nr)
    <3>1. PICK d \in Nat : d = m.seq - s.nr /\ s.nr + d = m.seq
      BY <1>2, <1>3, <2>2
    <3>2. /\ Advance(s.recv, d) \in Chains /\ Advance(s.recv, d).root = s.recv.root
          /\ Advance(s.recv, d).step = s.recv.step + d
      BY <1>2, AdvanceType
    <3> QED BY <1>2, <1>4, <2>2, <3>1, <3>2
  <2> QED BY <2>1, <2>2
<1>6. t.recv = m.key
  BY <1>1, <1>3, <1>5 DEF Chains
<1>7. t.skipped = s.skipped \cup Skipping(s, m.seq)
  <2>1. CASE m.seq <= s.nr
    <3>1. s.nr..(m.seq - 1) = {}
      BY <1>2, <1>3, <2>1
    <3>2. Skipping(s, m.seq) = {}
      BY <3>1 DEF Skipping
    <3> QED BY <1>4, <2>1, <3>2
  <2>2. CASE ~(m.seq <= s.nr)
    BY <1>4, <2>2
  <2> QED BY <2>1, <2>2
<1>8. /\ u.nr = m.seq + 1 /\ u.remote = s.remote /\ Limit(u, x) = Limit(s, x)
      /\ u.recv.root = s.recv.root
      /\ u.skipped = s.skipped \cup Skipping(s, m.seq) /\ m.seq <= Limit(s, x)
  BY <1>1, <1>3, <1>4, <1>5, <1>7 DEF Limit
<1>9. \A k \in Skipping(s, m.seq) :
        /\ \E n \in X \ O : k = SkippedKey(n) /\ n.dh = s.remote /\ n.seq = k.seq
        /\ k.dh = s.remote /\ k.seq \in s.nr..(m.seq - 1) /\ k.seq \in Nat
  BY <1>1, <1>2, <1>3, <1>8, SkippingSent
<1>10. \A n \in X : n.dh = s.remote /\ n.seq \in s.nr..(m.seq - 1) =>
          SkippedKey(n) \in Skipping(s, m.seq)
  <2> SUFFICES ASSUME NEW n \in X, n.dh = s.remote, n.seq \in s.nr..(m.seq - 1)
               PROVE  SkippedKey(n) \in Skipping(s, m.seq)
    OBVIOUS
  <2>1. n \in Envelopes /\ n.key.root = s.recv.root /\ n.key.step = n.seq
    BY DEF Receives, Sends
  <2> QED BY <1>1, <1>2, <1>3, <2>1, SkippingKey
<1>11. \A n \in X : n.dh = m.dh /\ n.seq = m.seq => n = m
  BY DEF Sends
<1>12. \A k \in u.skipped : /\ \E n \in X \ (O \cup {m}) : k = SkippedKey(n)
                            /\ k.dh = u.remote => k.seq < u.nr
  <2> SUFFICES ASSUME NEW k \in u.skipped
               PROVE  /\ \E n \in X \ (O \cup {m}) : k = SkippedKey(n)
                      /\ k.dh = s.remote => k.seq < m.seq + 1
    BY <1>8
  <2>1. CASE k \in s.skipped
    <3>1. PICK n \in X \ O : k = SkippedKey(n)
      BY <2>1 DEF Receives
    <3>2. k.dh = n.dh /\ k.seq = n.seq /\ n.seq \in Nat
      BY <3>1 DEF SkippedKey, Sends
    <3>3. n # m
      BY <2>1, <3>1
    <3>4. k.dh = s.remote => k.seq < s.nr
      BY <2>1 DEF Receives
    <3>5. k.dh = s.remote => k.seq < m.seq + 1
      BY <1>1, <1>2, <1>3, <3>2, <3>4
    <3> QED BY <3>1, <3>3, <3>5
  <2>2. CASE k \in Skipping(s, m.seq)
    <3>1. PICK n \in X \ O : k = SkippedKey(n) /\ n.dh = s.remote /\ n.seq = k.seq
      BY <1>9, <2>2
    <3>2. k.seq \in Nat /\ k.seq < m.seq
      BY <1>2, <1>3, <1>9, <2>2
    <3>3. n # m /\ k.seq < m.seq + 1
      BY <1>3, <3>1, <3>2
    <3> QED BY <3>1, <3>3
  <2> QED BY <1>8, <2>1, <2>2
<1>13. \A n \in X : n.dh = u.remote =>
          /\ u.recv # None /\ n.key.root = u.recv.root /\ n.seq < Limit(u, x)
          /\ n \in O \cup {m} => n.seq < u.nr
          /\ n \notin O \cup {m} /\ n.seq < u.nr => SkippedKey(n) \in u.skipped
  <2> SUFFICES ASSUME NEW n \in X, n.dh = s.remote
               PROVE  /\ n \in O \cup {m} => n.seq < m.seq + 1
                      /\ n \notin O \cup {m} /\ n.seq < m.seq + 1 => SkippedKey(n) \in u.skipped
    BY <1>8 DEF Receives
  <2>1. n.seq \in Nat
    BY DEF Sends
  <2>2. n \in O => n.seq < s.nr
    BY DEF Receives
  <2>3. n \in O \cup {m} => n.seq < m.seq + 1
    BY <1>1, <1>2, <1>3, <2>1, <2>2
  <2>4. ASSUME n \notin O \cup {m}, n.seq < m.seq + 1 PROVE SkippedKey(n) \in u.skipped
    <3>1. n.seq # m.seq
      BY <1>11, <2>4
    <3>2. CASE n.seq < s.nr
      BY <1>8, <2>4, <3>2 DEF Receives
    <3>3. CASE ~(n.seq < s.nr)
      <4>1. n.seq \in s.nr..(m.seq - 1)
        BY <1>2, <1>3, <2>1, <2>4, <3>1, <3>3
      <4> QED BY <1>8, <1>10, <4>1
    <3> QED BY <3>2, <3>3
  <2> QED BY <2>3, <2>4
<1>14. \A n \in X : n.dh = x.local /\ u.remote # x.local =>
          n \notin O \cup {m} /\ SkippedKey(n) \notin u.skipped
  <2> SUFFICES ASSUME NEW n \in X, n.dh = x.local, s.remote # x.local
               PROVE  n \notin O \cup {m} /\ SkippedKey(n) \notin u.skipped
    BY <1>8
  <2>1. SkippedKey(n) \notin Skipping(s, m.seq)
    BY <1>9 DEF SkippedKey
  <2> QED BY <1>8, <2>1 DEF Receives
<1>15. \A n \in X \ (O \cup {m}) : n.dh \notin {u.remote, x.local} => SkippedKey(n) \in u.skipped
  BY <1>8 DEF Receives
<1>16. /\ u.nr <= Limit(u, x)
       /\ \A i \in 0..(Limit(u, x) - 1) : \E n \in X : n.dh = u.remote /\ n.seq = i
  <2>1. m.seq + 1 <= Limit(s, x)
    BY <1>1, <1>3
  <2> QED BY <1>1, <1>8, <2>1 DEF Receives
<1>17. Receives(u, x, X, O \cup {m})
  BY <1>12, <1>13, <1>14, <1>15, <1>16 DEF Receives
<1> QED BY <1>1, <1>5, <1>6, <1>17

(***************************************************************************)
(* A message of another chain than the receiving one, whose key was not    *)
(* put aside, is on the sending chain of the other side, which leads; the  *)
(* ratchet step makes the receiver lead.                                   *)
(***************************************************************************)
LEMMA TurnFollows ==
    ASSUME NEW s, NEW x, NEW S, NEW X, NEW O, Joined(s, x, S, X, O),
           NEW m \in X, m \notin O, m.dh # s.remote, SkippedKeys(s, m) = {}
    PROVE  /\ Linked(x, s, X, S, O) /\ m.dh = x.local /\ s.remote # x.local /\ m.pn = x.pn
           /\ x.root = KdfRoot(s.root, DH(s.local, x.local))
<1>1. Sends(x, X) /\ Receives(s, x, X, O)
  BY JoinedSides
<1>2. SkippedKey(m) \notin s.skipped
  BY DEF SkippedKeys, SkippedKey
<1>3. m.dh = x.local
  BY <1>1, <1>2 DEF Receives
<1>4. Linked(x, s, X, S, O)
  BY <1>3 DEF Joined, Linked, Leads
<1>5. m.pn = x.pn /\ x.send # None
  BY <1>1, <1>3 DEF Sends
<1>6. x.remote = s.local /\ x.root = KdfRoot(s.root, DH(x.local, s.local))
  BY <1>4, <1>5 DEF Linked, Leads, SendRoot
<1>7. DH(x.local, s.local) = DH(s.local, x.local)
  BY DEF DH
<1> QED BY <1>3, <1>4, <1>5, <1>6, <1>7

\* What the receiver has of the chains of x once it has turned.
LEMMA TurnReceives ==
    ASSUME NEW s \in Sessions, StepsOK(s), NEW x \in Sessions, NEW X, NEW O,
           X \subseteq Envelopes, Sends(x, X), Receives(s, x, X, O), s.remote # x.local,
           x.send # None, NEW t, t = Skip(s, x.pn),
           NEW u, u.skipped = t.skipped, u.remote = x.local,
           u.recv # None, u.recv.root = x.root, u.nr = 0
    PROVE  /\ Receives(u, x, X, O)
           /\ \A k \in u.skipped : k.dh # x.local
<1>1. x.pn \in Nat /\ x.ns \in Nat /\ s.nr \in Nat
  BY SessionFields
<1>2. Limit(s, x) = x.pn /\ Limit(u, x) = x.ns
  BY DEF Limit
<1>3. /\ s.skipped \subseteq u.skipped
      /\ \A k \in u.skipped : k \in s.skipped \/ (s.recv # None /\ k \in Skipping(s, x.pn))
      /\ s.recv # None /\ ~(x.pn <= s.nr) => Skipping(s, x.pn) \subseteq u.skipped
  BY <1>1, SkipFields
<1>4. s.recv # None => \A k \in Skipping(s, x.pn) :
        /\ \E n \in X \ O : k = SkippedKey(n) /\ n.dh = s.remote /\ n.seq = k.seq
        /\ k.dh = s.remote /\ k.seq \in s.nr..(x.pn - 1) /\ k.seq \in Nat
  BY <1>1, <1>2, SkippingSent DEF StepsOK
<1>5. \A k \in u.skipped : \E n \in X \ O : k = SkippedKey(n)
  BY <1>3, <1>4 DEF Receives
<1>6. \A n \in X : n.dh = x.local => n \notin O /\ SkippedKey(n) \notin s.skipped
  BY DEF Receives
<1>7. \A k \in u.skipped : k.dh # x.local
  <2> SUFFICES ASSUME NEW k \in u.skipped, k.dh = x.local PROVE FALSE
    OBVIOUS
  <2>1. k \in s.skipped
    BY <1>3, <1>4
  <2>2. PICK n \in X \ O : k = SkippedKey(n)
    BY <1>5
  <2>3. n.dh = x.local
    BY <2>2 DEF SkippedKey
  <2> QED BY <1>6, <2>1, <2>2, <2>3
<1>8. \A n \in X : n.dh = x.local =>
        n.key.root = x.root /\ n.seq < x.ns /\ n.seq \in Nat /\ ~(n.seq < 0)
  <2> SUFFICES ASSUME NEW n \in X, n.dh = x.local
               PROVE  n.key.root = x.root /\ n.seq < x.ns /\ n.seq \in Nat /\ ~(n.seq < 0)
    OBVIOUS
  <2>1. n.key.root = x.root /\ n.seq < x.ns /\ n.seq \in Nat
    BY DEF Sends
  <2> QED BY <2>1
<1>9. \A n \in X : n.dh = u.remote =>
          /\ u.recv # None /\ n.key.root = u.recv.root /\ n.seq < Limit(u, x)
          /\ n \in O => n.seq < u.nr
          /\ n \notin O /\ n.seq < u.nr => SkippedKey(n) \in u.skipped
  BY <1>2, <1>6, <1>8
<1>10. \A n \in X \ O : n.dh # x.local => SkippedKey(n) \in u.skipped
  <2> SUFFICES ASSUME NEW n \in X \ O, n.dh # x.local PROVE SkippedKey(n) \in u.skipped
    OBVIOUS
  <2>1. CASE n.dh # s.remote
    BY <1>3, <2>1 DEF Receives
  <2>2. CASE n.dh = s.remote
    <3>1. /\ s.recv # None /\ n.key.root = s.recv.root /\ n.seq < x.pn
          /\ n.seq < s.nr => SkippedKey(n) \in s.skipped
      BY <1>2, <2>2 DEF Receives
    <3>2. n.seq \in Nat /\ n.key.step = n.seq /\ n \in Envelopes
      BY DEF Sends
    <3>3. CASE n.seq < s.nr
      BY <1>3, <3>1, <3>3
    <3>4. CASE ~(n.seq < s.nr)
      <4>1. n.seq \in s.nr..(x.pn - 1) /\ ~(x.pn <= s.nr)
        BY <1>1, <3>1, <3>2, <3>4
      <4>2. s.recv.step = s.nr
        BY <3>1 DEF StepsOK
      <4>3. SkippedKey(n) \in Skipping(s, x.pn)
        BY <1>1, <2>2, <3>1, <3>2, <4>1, <4>2, SkippingKey
      <4> QED BY <1>3, <3>1, <4>1, <4>3
    <3> QED BY <3>3, <3>4
  <2> QED BY <2>1, <2>2
<1>11. /\ u.nr <= Limit(u, x)
       /\ \A i \in 0..(Limit(u, x) - 1) : \E n \in X : n.dh = u.remote /\ n.seq = i
  BY <1>1, <1>2 DEF Sends
<1>12. Receives(u, x, X, O)
  BY <1>5, <1>7, <1>9, <1>10, <1>11 DEF Receives
<1> QED BY <1>7, <1>12

\* The ratchet step joins the two sessions the other way round.
LEMMA TurnLinks ==
    ASSUME NEW s \in Sessions, Len(s.root) >= 1, StepsOK(s), NEW x \in Sessions,
           NEW S, NEW X, NEW O, X \subseteq Envelopes, Joined(s, x, S, X, O),
           NEW m \in X, m \notin O, Turns(s, m), SkippedKeys(s, m) = {},
           NEW dhs \in KeyPairs, dhs # s.local, \A n \in S : n.dh # dhs,
           NEW u, u = OnChain(s, m, dhs)
    PROVE  /\ u \in Sessions /\ StepsOK(u) /\ u.remote = m.dh /\ SkippedKeys(u, m) = {}
           /\ Linked(u, x, S, X, O)
<1>1. /\ Linked(x, s, X, S, O) /\ m.dh = x.local /\ s.remote # x.local /\ m.pn = x.pn
      /\ x.root = KdfRoot(s.root, DH(s.local, x.local))
  <2>1. m.dh # s.remote
    BY DEF Turns
  <2> QED BY <2>1, TurnFollows
<1>2. /\ Leads(x, s) /\ Sends(x, X) /\ Sends(s, S) /\ Receives(x, s, S, O)
      /\ Receives(s, x, X, O) /\ x.send # None
  <2>1. x.send # None
    BY <1>1 DEF Linked, Sends
  <2> QED BY <1>1, <2>1 DEF Linked
<1>3. x.pn \in Nat /\ x.ns \in Nat /\ x.local \in KeyPairs /\ s.ns \in Nat
  BY SessionFields
<1>4. PICK t : t = Skip(s, x.pn)
  OBVIOUS
<1>5. /\ t \in Sessions /\ t.root = s.root /\ t.local = s.local /\ t.ns = s.ns
  BY <1>3, <1>4, SkipFields
<1>6. u = DhRatchetStep(t, x.local, dhs)
  BY <1>1, <1>4 DEF OnChain
<1>7. /\ u \in Sessions /\ u.skipped = t.skipped
      /\ u.recv # None /\ u.recv.step = 0 /\ u.send # None /\ u.send.step = 0
      /\ u.recv.root = KdfRoot(t.root, DH(t.local, x.local))
      /\ u.root = KdfRoot(u.recv.root, DH(dhs, x.local))
      /\ u.local = dhs /\ u.remote = x.local /\ u.ns = 0 /\ u.nr = 0 /\ u.pn = t.ns
  BY <1>3, <1>5, <1>6, TurnFields
<1>8. u.recv.root = x.root
  BY <1>1, <1>5, <1>7
<1>9. StepsOK(u)
  BY <1>7 DEF StepsOK
<1>10. Receives(u, x, X, O) /\ \A k \in u.skipped : k.dh # x.local
  BY <1>1, <1>2, <1>4, <1>7, <1>8, TurnReceives
<1>11. SkippedKeys(u, m) = {}
  BY <1>1, <1>10 DEF SkippedKeys
<1>12. x.remote = s.local
  BY <1>2 DEF Leads
<1>13. Leads(u, x)
  BY <1>2, <1>7, <1>8, <1>12 DEF Leads, SendRoot
<1>14. Sends(u, S)
  <2>1. 0..(u.ns - 1) = {}
    BY <1>7
  <2> QED BY <1>2, <1>7, <2>1 DEF Sends
<1>15. Receives(x, u, S, O)
  <2>1. Limit(x, u) = s.ns /\ Limit(x, s) = s.ns
    BY <1>5, <1>7, <1>12 DEF Limit
  <2> QED BY <1>2, <1>7, <1>12, <2>1 DEF Receives
<1>16. Linked(u, x, S, X, O)
  BY <1>2, <1>10, <1>13, <1>14, <1>15 DEF Linked
<1> QED BY <1>1, <1>7, <1>9, <1>11, <1>16

\* Decrypt finds the key of a message of the other side, whether it was put
\* aside or is the next one, and leaves the two sessions joined.
LEMMA JoinedDecrypts ==
    ASSUME NEW p, NEW s, NEW U, NEW f, KeysInv(p, s, U, f), StepsOK(s), NEW x \in Sessions,
           NEW S, NEW X, NEW O, X \subseteq Envelopes, Joined(s, x, S, X, O),
           NEW m \in X, m \notin O, m \notin S,
           NEW dhs \in KeyPairs, Turns(s, m) => dhs # s.local /\ \A n \in S : n.dh # dhs
    PROVE  /\ \A k \in SkippedKeys(s, m) :
                 k.key = m.key /\ Joined([s EXCEPT !.skipped = @ \ {k}], x, S, X, O \cup {m})
           /\ SkippedKeys(s, m) = {} =>
                 LET t == Skip(OnChain(s, m, dhs), m.seq) IN
                 t.recv = m.key /\ Joined(NextRecv(t), x, S, X, O \cup {m})
<1>1. s \in Sessions /\ Len(s.root) >= 1 /\ m \in Envelopes /\ m.seq \in Nat
  BY DEF KeysInv, Envelopes
<1>2. Sends(s, S) /\ Sends(x, X) /\ Receives(s, x, X, O) /\ Receives(x, s, S, O)
  BY JoinedSides
<1>3. ASSUME NEW k \in SkippedKeys(s, m)
      PROVE  k.key = m.key /\ Joined([s EXCEPT !.skipped = @ \ {k}], x, S, X, O \cup {m})
  <2>1. k \in s.skipped
    BY <1>3 DEF SkippedKeys
  <2>2. PICK u : u = [s EXCEPT !.skipped = @ \ {k}]
    OBVIOUS
  <2>3. /\ u.root = s.root /\ u.send = s.send /\ u.recv = s.recv
        /\ u.local = s.local /\ u.remote = s.remote /\ u.skipped = s.skipped \ {k}
        /\ u.ns = s.ns /\ u.pn = s.pn /\ u.nr = s.nr
    BY <2>1, <2>2, SkippedKeeps
  <2>4. k.key = m.key /\ Receives(u, x, X, O \cup {m})
    BY <1>1, <1>2, <1>3, <2>3, SkippedOpens
  <2>5. Joined(u, x, S, X, O \cup {m})
    BY <2>3, <2>4, JoinedOpens
  <2> QED BY <2>2, <2>4, <2>5
<1>4. ASSUME SkippedKeys(s, m) = {},
             NEW t, t = Skip(OnChain(s, m, dhs), m.seq), NEW u, u = NextRecv(t)
      PROVE  t.recv = m.key /\ Joined(u, x, S, X, O \cup {m})
  <2>1. PICK c : c = OnChain(s, m, dhs)
    OBVIOUS
  <2>2. /\ c \in Sessions /\ StepsOK(c) /\ c.remote = m.dh /\ SkippedKeys(c, m) = {}
        /\ Joined(c, x, S, X, O)
    <3>1. CASE Turns(s, m)
      <4>1. Linked(c, x, S, X, O)
        BY <1>1, <1>4, <2>1, <3>1, TurnLinks
      <4>2. /\ c \in Sessions /\ StepsOK(c) /\ c.remote = m.dh /\ SkippedKeys(c, m) = {}
        BY <1>1, <1>4, <2>1, <3>1, TurnLinks
      <4> QED BY <4>1, <4>2 DEF Joined
    <3>2. CASE ~Turns(s, m)
      BY <1>1, <1>4, <2>1, <3>2 DEF OnChain, Turns
    <3> QED BY <3>1, <3>2
  <2>3. Receives(c, x, X, O) /\ Limit(c, x) \in Nat
    BY <2>2, JoinedSides, SessionFields DEF Limit
  <2>4. /\ t = Skip(c, m.seq) /\ t \in Sessions
        /\ t.root = c.root /\ t.send = c.send /\ t.local = c.local /\ t.remote = c.remote
        /\ t.ns = c.ns /\ t.pn = c.pn
    BY <1>1, <1>4, <2>1, <2>2, SkipFields
  <2>5. c.recv # None /\ t.recv # None
    <3>1. SkippedKey(m) \notin c.skipped
      BY <2>2 DEF SkippedKeys, SkippedKey
    <3>2. c.recv # None
      BY <2>2, <2>3 DEF Receives
    <3> QED BY <1>1, <1>4, <2>1, <2>2, <3>2, SkipFields
  <2>6. /\ u.root = t.root /\ u.send = t.send /\ u.local = t.local /\ u.remote = t.remote
        /\ u.skipped = t.skipped /\ u.ns = t.ns /\ u.pn = t.pn /\ u.nr = t.nr + 1
        /\ u.recv # None /\ u.recv.root = t.recv.root
    <3>0. t.recv \in Chains /\ 1 \in Nat
      BY <2>4, <2>5, SessionFields
    <3>1. PICK a : /\ a = Advance(t.recv, 1)
                   /\ a \in Chains /\ a # None /\ a.root = t.recv.root
      <4>1. /\ Advance(t.recv, 1) \in Chains /\ Advance(t.recv, 1) # None
            /\ Advance(t.recv, 1).root = t.recv.root
        BY <3>0, AdvanceType
      <4> QED BY <4>1
    <3>2. PICK i : i = t.nr + 1
      OBVIOUS
    <3>3. u = [t EXCEPT !.recv = a, !.nr = i]
      BY <1>4, <2>4, <3>1, <3>2 DEF NextRecv, Sessions
    <3> QED BY <2>4, <3>1, <3>2, <3>3 DEF Sessions
  <2>7. /\ t.recv = m.key /\ t.recv.root = c.recv.root /\ Receives(u, x, X, O \cup {m})
    <3>1. /\ c \in Sessions /\ StepsOK(c) /\ m.dh = c.remote
          /\ Sends(x, X) /\ Receives(c, x, X, O) /\ Limit(c, x) \in Nat
      BY <1>2, <2>2, <2>3
    <3>3. SkippedKey(m) \notin c.skipped
      BY <2>2 DEF SkippedKeys, SkippedKey
    <3>2. /\ t = Skip(c, m.seq) /\ u.skipped = t.skipped /\ u.remote = t.remote
          /\ u.recv # None /\ u.recv.root = t.recv.root /\ u.nr = t.nr + 1
      BY <2>4, <2>6
    <3> QED BY <3>1, <3>2, <3>3, NextOpens
  <2>8. /\ u.root = c.root /\ u.send = c.send /\ u.local = c.local /\ u.remote = c.remote
        /\ u.ns = c.ns /\ u.pn = c.pn /\ (u.recv = None <=> c.recv = None)
        /\ c.recv # None => u.recv.root = c.recv.root
    BY <2>4, <2>5, <2>6, <2>7
  <2>9. Joined(u, x, S, X, O \cup {m})
    BY <2>2, <2>7, <2>8, JoinedOpens
  <2> QED BY <2>7, <2>9
<1>5. ASSUME SkippedKeys(s, m) = {}
      PROVE  LET t == Skip(OnChain(s, m, dhs), m.seq) IN
             t.recv = m.key /\ Joined(NextRecv(t), x, S, X, O \cup {m})
  BY <1>4, <1>5
<1> QED BY <1>3, <1>5

-----------------------------------------------------------------------------
(* The first message *)

(***************************************************************************)
(* Session x of a was made from the bundle o of its peer, has received     *)
(* nothing, and has sent X, the first of which names the one-time pre-key  *)
(* of the bundle.                                                          *)
(***************************************************************************)
Knocks(a, x, o, X) ==
    /\ x.root = AliceSession(a, x.local, o).root /\ x.remote = o.spk /\ x.otk = o.otk
    /\ x.send # None /\ x.recv = None /\ x.skipped = {} /\ x.pn = 0
    /\ Sends(x, X)
    /\ \A m \in X : m.dh = x.local /\ (m.seq = 0 => m.otk = o.otk)

\* Appending to a triple.
LEMMA FourthAppended ==
    ASSUME NEW c, NEW d, NEW e, NEW g
    PROVE  Append(<<c, d, e>>, g) = <<c, d, e, g>>
<1> DEFINE S == {c, d, e, g}
<1>s. c \in S /\ d \in S /\ e \in S /\ g \in S
  OBVIOUS
<1> HIDE DEF S
<1>0. PICK base, longer, four :
        base = <<c, d, e>> /\ longer = Append(base, g) /\ four = <<c, d, e, g>>
  OBVIOUS
<1>1. base \in Seq(S) /\ Len(base) = 3 /\ base[1] = c /\ base[2] = d /\ base[3] = e
  BY <1>s, <1>0
<1>2. longer \in Seq(S) /\ Len(longer) = Len(base) + 1 /\ longer[Len(base) + 1] = g
      /\ \A i \in 1..Len(base) : longer[i] = base[i]
  BY <1>s, <1>0, <1>1, AppendProperties, SMTT(40)
<1>3. four \in Seq(S) /\ Len(four) = 4 /\ four[1] = c /\ four[2] = d /\ four[3] = e /\ four[4] = g
  BY <1>s, <1>0
<1>4. Len(longer) = 4
  BY <1>1, <1>2
<1>5. longer[1] = c /\ longer[2] = d /\ longer[3] = e /\ longer[4] = g
  BY <1>1, <1>2
<1>6. \A i \in 1..4 : longer[i] = four[i]
  <2> SUFFICES ASSUME NEW i \in 1..4 PROVE longer[i] = four[i]
    OBVIOUS
  <2>1. i = 1 \/ i = 2 \/ i = 3 \/ i = 4
    OBVIOUS
  <2> QED BY <1>3, <1>5, <2>1, Zenon
<1>7. longer = four
  BY <1>2, <1>3, <1>4, <1>6, SeqEqual
<1> QED BY <1>0, <1>7

\* The two sides of X3DH come to the same root.
LEMMA SameRoot ==
    ASSUME NEW a \in Party, NEW b \in Party, b = Peer(a), NEW o, o.spk = spk[b],
           o.otk \in opk[b], NEW m, m.from = a, m.otk = o.otk
    PROVE  BobSession(b, m).root = AliceSession(a, m.dh, o).root
<1>1. PICK k1, k2, k3, k4 :
        /\ k1 = DH(spk[b], Identity(a)) /\ k2 = DH(Identity(b), m.dh)
        /\ k3 = DH(spk[b], m.dh) /\ k4 = DH(m.otk, m.dh)
  OBVIOUS
<1>2. /\ k1 = DH(Identity(a), o.spk) /\ k2 = DH(m.dh, Identity(b))
      /\ k3 = DH(m.dh, o.spk) /\ k4 = DH(m.dh, o.otk)
  BY <1>1 DEF DH
<1>3. PICK base, longer, four :
        base = <<k1, k2, k3>> /\ longer = Append(base, k4) /\ four = <<k1, k2, k3, k4>>
  OBVIOUS
<1>4. longer = four
  BY <1>3, FourthAppended
<1>5. BobSession(b, m).root = KdfRoot(<<longer>>, k3)
  <2>1. m.otk \in opk[b]
    OBVIOUS
  <2> QED BY <1>1, <1>3, <2>1 DEF BobSession
<1>6. AliceSession(a, m.dh, o).root = KdfRoot(<<four>>, k3)
  BY <1>2, <1>3 DEF AliceSession
<1> QED BY <1>4, <1>5, <1>6

\* The responder's session is joined to the one that knocked.
LEMMA AnswerLinks ==
    ASSUME NEW a \in Party, NEW b \in Party, b = Peer(a), NEW o, o.spk = spk[b],
           o.otk \in opk[b], NEW x \in Sessions, NEW X, Knocks(a, x, o, X),
           o.spk # NewKey(b),
           NEW m \in X, m.from = a, m.seq = 0, NEW s, s = BobSession(b, m)
    PROVE  Joined(s, x, {}, X, {})
<1>1. m.otk = o.otk /\ m.dh = x.local
  BY DEF Knocks
<1>2. PICK root : root = BobSession(b, m).root
  OBVIOUS
<1>3. root = x.root
  BY <1>1, <1>2, SameRoot DEF Knocks
<1>4. /\ s.root = root /\ s.send = None /\ s.recv = ChainOf(root) /\ s.local = NewKey(b)
      /\ s.remote = x.local /\ s.ns = 0 /\ s.nr = 0 /\ s.pn = 0 /\ s.skipped = {}
  BY <1>1, <1>2 DEF BobSession
<1>5. s.recv # None /\ s.recv.root = root
  <2>1. root \in Roots
    BY <1>3, SessionFields
  <2> QED BY <1>4, <2>1, ChainOfType
<1>6. /\ Sends(x, X) /\ x.send # None /\ x.recv = None /\ x.skipped = {} /\ x.remote = o.spk
      /\ \A n \in X : n.dh = x.local
  BY DEF Knocks
<1>7. x.ns \in Nat
  BY SessionFields
<1>8. Leads(s, x)
  BY <1>3, <1>4, <1>5, <1>6 DEF Leads, SendRoot
<1>9. Sends(s, {})
  <2>1. 0..(s.ns - 1) = {}
    BY <1>4
  <2> QED BY <2>1 DEF Sends
<1>10. Receives(x, s, {}, {})
  BY <1>6 DEF Receives
<1>11. Receives(s, x, X, {})
  <2>1. Limit(s, x) = x.ns
    BY <1>4 DEF Limit
  <2>2. \A n \in X : n.key.root = s.recv.root /\ n.seq < x.ns /\ ~(n.seq < 0)
    <3> SUFFICES ASSUME NEW n \in X
                 PROVE  n.key.root = s.recv.root /\ n.seq < x.ns /\ ~(n.seq < 0)
      OBVIOUS
    <3>1. n.key.root = x.root /\ n.seq < x.ns /\ n.seq \in Nat
      BY <1>6 DEF Sends
    <3> QED BY <1>3, <1>5, <3>1
  <2>3. /\ s.nr <= x.ns
        /\ \A i \in 0..(x.ns - 1) : \E n \in X : n.dh = s.remote /\ n.seq = i
    BY <1>4, <1>6, <1>7 DEF Sends
  <2> QED BY <1>4, <1>5, <1>6, <2>1, <2>2, <2>3 DEF Receives
<1> QED BY <1>6, <1>8, <1>9, <1>10, <1>11 DEF Joined, Linked

-----------------------------------------------------------------------------
(* The two parties *)

\* One party imports the contact of the other, once, who has exported one bundle.
Initiates(a) == MaxImports[a] <= 1 /\ MaxImports[Peer(a)] = 0 /\ MaxBundles[Peer(a)] <= 1
OneImport    == \E a \in Party : Initiates(a)

SentOf(p) == {m \in Sent : m.from = p}

(***************************************************************************)
(* What the sessions of a, who initiates, and of its peer say of the       *)
(* messages between them: before the import there is neither; then a       *)
(* knocks, with the bundle that its peer still holds the keys of; and from *)
(* the first message that is answered on the two sessions are joined.      *)
(***************************************************************************)
AgreeInv(a) ==
    LET b == Peer(a) IN
    /\ imports[b] = 0 /\ failed = {}
    /\ \A o \in offered[b] : offered[b] = {o} /\ o.spk = spk[b]
    /\ sess[a] = None => /\ sess[b] = None /\ Sent = {}
                         /\ \A o \in offered[b] : o.otk \in opk[b]
    /\ sess[a] # None => offered[b] # {} /\ ~(imports[a] < MaxImports[a])
    /\ sess[a] # None /\ sess[b] = None =>
          /\ SentOf(b) = {} /\ opened = {}
          /\ \E o \in offered[b] : o.otk \in opk[b] /\ Knocks(a, sess[a], o, SentOf(a))
    /\ sess[b] # None => Joined(sess[b], sess[a], SentOf(b), SentOf(a), opened)

\* What the invariant says, of both parties by name.
LEMMA AgreeFacts ==
    ASSUME RatchetInv, NEW a \in Party, Initiates(a), AgreeInv(a), NEW b, b = Peer(a)
    PROVE  /\ b \in Party /\ b # a /\ a = Peer(b) /\ \A q \in Party : q = a \/ q = b
           /\ MaxImports[a] <= 1 /\ MaxImports[b] = 0 /\ MaxBundles[b] <= 1
           /\ imports[b] = 0 /\ failed = {}
           /\ \A o \in offered[b] : offered[b] = {o} /\ o.spk = spk[b]
           /\ sess[a] = None => /\ sess[b] = None /\ Sent = {}
                                /\ \A o \in offered[b] : o.otk \in opk[b]
           /\ sess[a] # None => offered[b] # {} /\ ~(imports[a] < MaxImports[a])
           /\ sess[a] # None /\ sess[b] = None =>
                 /\ SentOf(b) = {} /\ opened = {}
                 /\ \E o \in offered[b] : o.otk \in opk[b] /\ Knocks(a, sess[a], o, SentOf(a))
           /\ sess[b] # None => Joined(sess[b], sess[a], SentOf(b), SentOf(a), opened)
  BY Peers DEF AgreeInv, Initiates

\* Before anything there is nothing to agree on.
LEMMA AgreeInit ==
    ASSUME Init, NEW a \in Party
    PROVE  AgreeInv(a)
<1>1. Peer(a) \in Party
  BY Peers
<1>2. Sent = {}
  BY DEF Init, Sent
<1> QED BY <1>1, <1>2 DEF Init, AgreeInv

\* The messages of a party, when none is added.
LEMMA SentSame ==
    ASSUME Sent' = Sent, NEW q
    PROVE  SentOf(q)' = SentOf(q)
  BY DEF SentOf

\* A party that exports one bundle has exported none before it.
LEMMA FirstBundle ==
    ASSUME NEW b \in Party, MaxBundles[b] <= 1, \A o \in offered[b] : offered[b] = {o},
           GeneratePreKeyBundle(b)
    PROVE  offered[b] = {}
<1> SUFFICES ASSUME NEW c \in offered[b] PROVE FALSE
  OBVIOUS
<1>1. Cardinality(offered[b]) = 1
  <2>1. offered[b] = {c}
    OBVIOUS
  <2> QED BY <2>1, FS_Singleton
<1>2. Cardinality(offered[b]) < MaxBundles[b] /\ MaxBundles[b] \in Nat
  BY RatchetAssumption DEF GeneratePreKeyBundle
<1> QED BY <1>1, <1>2

\* A session that was just initiated knocks, and has sent nothing.
LEMMA AliceKnocks ==
    ASSUME NEW a \in Party, NEW f \in Nat, NEW o \in [spk : KeyPairs, otk : KeyPairs],
           o.spk.of = Peer(a), o.otk.of = Peer(a),
           NEW x, x = AliceSession(a, KeyPair(a, f), o)
    PROVE  Knocks(a, x, o, {}) /\ x # None
<1>1. PICK ek : ek = KeyPair(a, f)
  OBVIOUS
<1>2. /\ x.local = ek /\ x.root = AliceSession(a, ek, o).root /\ x.send = ChainOf(x.root)
      /\ x.recv = None /\ x.remote = o.spk /\ x.ns = 0 /\ x.pn = 0
      /\ x.skipped = {} /\ x.otk = o.otk
  BY <1>1 DEF AliceSession
<1>3. KeysInv(a, x, {}, f + 1) /\ x.send # None
  <2>1. PICK U : U = {}
    OBVIOUS
  <2>2. KeysInv(a, x, U, f) \/ U = {}
    BY <2>1
  <2>3. KeysInv(a, x, U, f + 1) /\ x.send # None
    BY <2>2, AliceKeeps
  <2> QED BY <2>1, <2>3
<1>4. Sends(x, {})
  <2>1. 0..(x.ns - 1) = {}
    BY <1>2
  <2> QED BY <2>1 DEF Sends
<1>5. x # None
  BY <1>3, NoneAssumption DEF KeysInv
<1> QED BY <1>2, <1>3, <1>4, <1>5 DEF Knocks

\* A bundle of b is its first, and nobody has imported it yet.
LEMMA BundleAgrees ==
    ASSUME RatchetInv, NEW a \in Party, Initiates(a), AgreeInv(a),
           NEW p \in Party, GeneratePreKeyBundle(p)
    PROVE  AgreeInv(a)'
<1>1. PICK b : b = Peer(a)
  OBVIOUS
<1>2. /\ UNCHANGED <<sess, imports, opened, failed>> /\ Sent' = Sent
      /\ spk \in [Party -> KeyPairs \cup {None}] /\ opk \in [Party -> SUBSET KeyPairs]
      /\ offered \in [Party -> SUBSET [spk : KeyPairs, otk : KeyPairs]]
  BY DEF GeneratePreKeyBundle, counts, Sent, RatchetInv, Types
<1>3. \A q : SentOf(q)' = SentOf(q)
  BY <1>2, SentSame
<1>4. b \in Party /\ b # a /\ (p = a \/ p = b)
  BY <1>1, AgreeFacts
<1>5. CASE p = a
  <2>1. /\ spk'[b] = spk[b] /\ opk'[b] = opk[b] /\ offered'[b] = offered[b]
    BY <1>2, <1>4, <1>5 DEF GeneratePreKeyBundle
  <2> QED BY <1>1, <1>2, <1>3, <1>4, <2>1, AgreeFacts DEF AgreeInv
<1>6. CASE p = b
  <2>1. PICK k, otk : k = NewKey(b) /\ otk = KeyPair(b, fresh[b] + 1)
    OBVIOUS
  <2>2. PICK o : o = [spk |-> k, otk |-> otk]
    OBVIOUS
  <2>3. offered[b] = {}
    <3>1. /\ MaxBundles[b] <= 1 /\ GeneratePreKeyBundle(b)
          /\ \A c \in offered[b] : offered[b] = {c}
      BY <1>1, <1>6, AgreeFacts
    <3> QED BY <1>4, <3>1, FirstBundle
  <2>4. offered'[b] = {o} /\ spk'[b] = k /\ opk'[b] = opk[b] \cup {otk}
    BY <1>2, <1>4, <1>6, <2>1, <2>2, <2>3 DEF GeneratePreKeyBundle
  <2>5. o.spk = k /\ o.otk = otk
    BY <2>2
  <2>6. sess[a] = None /\ sess[b] = None /\ Sent = {} /\ imports[b] = 0 /\ failed = {}
    BY <1>1, <2>3, AgreeFacts
  <2> QED BY <1>1, <1>2, <2>4, <2>5, <2>6 DEF AgreeInv
<1> QED BY <1>4, <1>5, <1>6

\* The import is that of a, before any message.
LEMMA ImportAgrees ==
    ASSUME RatchetInv, NEW a \in Party, Initiates(a), AgreeInv(a),
           NEW p \in Party, InitiateSession(p)
    PROVE  AgreeInv(a)'
<1>1. PICK b : b = Peer(a)
  OBVIOUS
<1>2. /\ UNCHANGED <<spk, opk, offered, opened, failed>> /\ Sent' = Sent
      /\ sess \in [Party -> Sessions \cup {None}] /\ imports \in [Party -> Nat]
  BY DEF InitiateSession, stores, Sent, RatchetInv, Types
<1>3. \A q : SentOf(q)' = SentOf(q)
  BY <1>2, SentSame
<1>4. /\ b \in Party /\ b # a /\ (p = a \/ p = b) /\ MaxImports[a] <= 1 /\ MaxImports[a] \in Nat
      /\ imports[b] = 0 /\ MaxImports[b] = 0 /\ imports[a] \in Nat
  BY <1>1, AgreeFacts, PartyFacts, RatchetAssumption
<1>5. p = a /\ imports[a] < MaxImports[a] /\ imports' = [imports EXCEPT ![a] = @ + 1]
  <2>1. imports[p] < MaxImports[p] /\ imports' = [imports EXCEPT ![p] = @ + 1]
    BY DEF InitiateSession
  <2>2. p # b
    BY <1>4, <2>1
  <2> QED BY <1>4, <2>1, <2>2
<1>6. /\ sess[a] = None /\ sess[b] = None /\ Sent = {} /\ failed = {}
      /\ \A o \in offered[b] : offered[b] = {o} /\ o.spk = spk[b] /\ o.otk \in opk[b]
  BY <1>1, <1>5, AgreeFacts
<1>k. PICK ek : ek = NewKey(a)
  OBVIOUS
<1>7. PICK o \in offered[b] : sess' = [sess EXCEPT ![a] = AliceSession(a, ek, o)]
  BY <1>1, <1>5, <1>k DEF InitiateSession
<1>8. PICK x : x = AliceSession(a, ek, o)
  OBVIOUS
<1>9. /\ o \in [spk : KeyPairs, otk : KeyPairs] /\ o.spk.of = b /\ o.otk.of = b
      /\ fresh[a] \in Nat /\ ek = KeyPair(a, fresh[a])
  BY <1>4, <1>k, <1>7, PartyFacts
<1>10. SentOf(a) = {} /\ SentOf(b) = {} /\ opened = {}
  BY <1>6 DEF SentOf, Sent
<1>11. Knocks(a, x, o, SentOf(a)) /\ x # None
  <2>1. PICK f \in Nat : f = fresh[a]
    BY <1>9
  <2>2. x = AliceSession(a, KeyPair(a, f), o) /\ o.spk.of = Peer(a) /\ o.otk.of = Peer(a)
    BY <1>1, <1>8, <1>9, <2>1
  <2> QED BY <1>9, <1>10, <2>2, AliceKnocks
<1>12. /\ sess'[a] = x /\ sess'[b] = None /\ imports'[b] = 0
       /\ ~(imports'[a] < MaxImports[a]) /\ o.otk \in opk[b]
  BY <1>2, <1>4, <1>5, <1>6, <1>7, <1>8
<1> QED BY <1>1, <1>2, <1>3, <1>6, <1>10, <1>11, <1>12 DEF AgreeInv

\* A message that is sealed is a new one.
LEMMA SealedNew ==
    ASSUME RatchetInv, NEW p \in Party, NEW m, m.from = p, m.n = sends[p]
    PROVE  m \notin Sent
<1> SUFFICES ASSUME m \in Sent PROVE FALSE
  OBVIOUS
<1>1. m.n < sends[m.from] /\ m.n \in Nat
  BY LetterFacts
<1> QED BY <1>1

\* A message that is sealed is one more of those that its sender has sent.
LEMMA EncryptAgrees ==
    ASSUME RatchetInv, NEW a \in Party, Initiates(a), AgreeInv(a), NEW p \in Party, Encrypt(p)
    PROVE  AgreeInv(a)'
<1>1. PICK b : b = Peer(a)
  OBVIOUS
<1>2. PICK s, w, n : s = sess[p] /\ w = WithSendChain(s) /\ n = sends[p]
  OBVIOUS
<1>3. PICK m, u : m = Sealed(p, n, w) /\ u = NextSend(w)
  OBVIOUS
<1>4. /\ s # None /\ net' = net \cup {m} /\ sess' = [sess EXCEPT ![p] = u]
      /\ UNCHANGED <<spk, opk, offered, imports, opened, failed, refused>>
  BY <1>2, <1>3 DEF Encrypt, stores
<1>5. PICK U, f : U = Used(p) /\ f = fresh[p]
  OBVIOUS
<1>6. KeysInv(p, s, U, f) /\ StepsOK(s)
  BY <1>2, <1>4, <1>5, PartyFacts
<1>7. /\ s.ns \in Nat /\ s.pn \in Nat /\ u \in Sessions
      /\ w.root = SendRoot(s) /\ u.root = w.root /\ u.send # None
      /\ s.send # None => w.root = s.root
      /\ u.ns = s.ns + 1 /\ u.pn = s.pn /\ u.local = s.local /\ u.remote = s.remote
      /\ u.recv = s.recv /\ u.skipped = s.skipped
      /\ m.from = p /\ m.dh = s.local /\ m.seq = s.ns /\ m.pn = s.pn
      /\ m.key.root = w.root /\ m.key.step = s.ns
      /\ (s.ns = 0 => m.otk = s.otk) /\ u.otk = s.otk
  BY <1>2, <1>3, <1>6, SealedFields
<1>8. m \notin Sent
  <2>1. m.n = sends[p]
    BY <1>2, <1>3 DEF Sealed
  <2> QED BY <1>7, <2>1, SealedNew
<1>9. /\ SentOf(p)' = SentOf(p) \cup {m} /\ m \notin opened
      /\ \A q : q # p => SentOf(q)' = SentOf(q)
  BY <1>4, <1>7, <1>8 DEF Sent, SentOf
<1>10. /\ b \in Party /\ b # a /\ (p = a \/ p = b) /\ imports[b] = 0 /\ failed = {}
       /\ \A o \in offered[b] : offered[b] = {o} /\ o.spk = spk[b]
       /\ sess[a] # None /\ offered[b] # {} /\ ~(imports[a] < MaxImports[a])
       /\ sess[b] = None =>
             /\ SentOf(b) = {} /\ opened = {}
             /\ \E o \in offered[b] : o.otk \in opk[b] /\ Knocks(a, sess[a], o, SentOf(a))
       /\ sess[b] # None => Joined(sess[b], sess[a], SentOf(b), SentOf(a), opened)
  BY <1>1, <1>2, <1>4, AgreeFacts
<1>11. /\ sess'[p] = u /\ u # None /\ \A q \in Party : q # p => sess'[q] = sess[q]
  BY <1>4, <1>7, NoneAssumption DEF RatchetInv, Types
<1>12. CASE sess[b] = None
  <2>1. p = a
    BY <1>2, <1>4, <1>10, <1>12
  <2>2. PICK X : X = SentOf(a)
    OBVIOUS
  <2>3. PICK o \in offered[b] : o.otk \in opk[b] /\ Knocks(a, s, o, X)
    BY <1>2, <1>10, <1>12, <2>1, <2>2
  <2>4. /\ s.send # None /\ Sends(s, X) /\ s.otk = o.otk
        /\ \A y \in X : y.dh = s.local /\ (y.seq = 0 => y.otk = o.otk)
    BY <2>3 DEF Knocks
  <2>5. Sends(u, X \cup {m})
    BY <1>7, <2>4, SealSends
  <2>6. Knocks(a, u, o, X \cup {m})
    BY <1>7, <2>3, <2>4, <2>5 DEF Knocks
  <2>7. /\ SentOf(a)' = X \cup {m} /\ SentOf(b)' = {} /\ sess'[a] = u /\ sess'[b] = None
        /\ opened = {}
    BY <1>9, <1>10, <1>11, <1>12, <2>1, <2>2
  <2> QED BY <1>1, <1>4, <1>10, <1>11, <2>3, <2>6, <2>7 DEF AgreeInv
<1>13. CASE sess[b] # None
  <2>1. PICK q, x, S, X, O :
          q = Peer(p) /\ x = sess[q] /\ S = SentOf(p) /\ X = SentOf(q) /\ O = opened
    OBVIOUS
  <2>2. /\ q \in Party /\ q # p /\ (p = a => q = b) /\ (p = b => q = a)
    BY <1>1, <2>1, Peers
  <2>3. x \in Sessions
    BY <1>10, <1>13, <2>1, <2>2, PartyFacts
  <2>4. Joined(s, x, S, X, O)
    BY <1>2, <1>10, <1>13, <2>1, <2>2 DEF Joined
  <2>5. Joined(u, x, S \cup {m}, X, O)
    BY <1>2, <1>3, <1>6, <1>9, <2>1, <2>3, <2>4, JoinedSeals
  <2>6. Joined(sess'[p], sess'[q], SentOf(p)', SentOf(q)', opened')
    BY <1>4, <1>9, <1>11, <2>1, <2>2, <2>5
  <2>7. Joined(sess'[b], sess'[a], SentOf(b)', SentOf(a)', opened')
    BY <1>10, <2>2, <2>6 DEF Joined
  <2>8. sess'[a] # None /\ sess'[b] # None
    BY <1>10, <1>11, <1>13
  <2> QED BY <1>1, <1>4, <1>10, <2>7, <2>8 DEF AgreeInv
<1> QED BY <1>12, <1>13

\* The session that decrypt starts from is joined to that of the sender, whether
\* it was stored or is the answer to a first message.
LEMMA SessionJoined ==
    ASSUME RatchetInv, NEW a \in Party, Initiates(a), AgreeInv(a), Orderly,
           NEW p \in Party, NEW m \in net, Deliverable(p, m),
           NEW q, q = Peer(p), NEW s, s = Session(p, m)
    PROVE  /\ sess[q] # None /\ sess[q] \in Sessions
           /\ Joined(s, sess[q], SentOf(p), SentOf(q), opened)
<1>1. PICK b : b = Peer(a)
  OBVIOUS
<1>2. m.from = q /\ m \in Sent /\ m \in SentOf(q) /\ (sess[p] = None => m.seq = 0)
  BY DEF Deliverable, Sent, SentOf
<1>3. /\ sess[a] # None /\ b \in Party /\ a # b /\ ((p = a /\ q = b) \/ (p = b /\ q = a))
      /\ sess[b] = None =>
            /\ SentOf(b) = {} /\ opened = {}
            /\ \E o \in offered[b] : o.otk \in opk[b] /\ Knocks(a, sess[a], o, SentOf(a))
      /\ sess[b] # None => Joined(sess[b], sess[a], SentOf(b), SentOf(a), opened)
      /\ \A o \in offered[b] : o.spk = spk[b]
  BY <1>1, <1>2, AgreeFacts
<1>4. CASE sess[b] # None
  <2>1. s = sess[p] /\ sess[q] # None /\ q \in Party
    BY <1>3, <1>4 DEF Session
  <2>2. Joined(sess[p], sess[q], SentOf(p), SentOf(q), opened)
    BY <1>3, <1>4 DEF Joined
  <2> QED BY <2>1, <2>2, PartyFacts
<1>5. CASE sess[b] = None
  <2>1. p = b /\ q = a
    BY <1>2, <1>3, <1>5
  <2>2. PICK x, X : x = sess[a] /\ X = SentOf(a)
    OBVIOUS
  <2>3. PICK o \in offered[b] : o.otk \in opk[b] /\ Knocks(a, x, o, X) /\ o.spk = spk[b]
    BY <1>3, <1>5, <2>2
  <2>4. x \in Sessions /\ x # None
    BY <1>3, <2>2, PartyFacts
  <2>5. o.spk # NewKey(b)
    BY <1>3, PartyFacts
  <2>6. /\ m \in X /\ m.from = a /\ m.seq = 0 /\ s = BobSession(b, m)
    BY <1>2, <1>5, <2>1, <2>2 DEF Session
  <2>7. Joined(s, x, {}, X, {})
    BY <1>1, <1>3, <2>3, <2>4, <2>5, <2>6, AnswerLinks
  <2> QED BY <1>3, <1>5, <2>1, <2>2, <2>4, <2>7
<1> QED BY <1>4, <1>5

\* A message that is delivered opens, or is refused and remains awaited.
LEMMA DecryptAgrees ==
    ASSUME RatchetInv, NEW a \in Party, Initiates(a), AgreeInv(a), Orderly,
           NEW p \in Party, NEW m \in net, Decrypt(p, m)
    PROVE  AgreeInv(a)'
<1>1. PICK b, q : b = Peer(a) /\ q = Peer(p)
  OBVIOUS
<1>2. PICK s : s = Session(p, m)
  OBVIOUS
<1>3. /\ Deliverable(p, m) /\ m.from = q /\ UNCHANGED <<spk, offered, imports>>
      /\ \/ DecryptSkipped(p, s, m)
         \/ DecryptRefused(s, m, NewKey(p)) /\ sess' = [sess EXCEPT ![p] = s]
         \/ DecryptNext(p, s, m, NewKey(p))
  BY <1>1, <1>2 DEF Decrypt, Deliverable, counts
<1>4. /\ b \in Party /\ b # a /\ ((p = a /\ q = b) \/ (p = b /\ q = a))
      /\ imports[b] = 0 /\ failed = {}
      /\ \A o \in offered[b] : offered[b] = {o} /\ o.spk = spk[b]
  BY <1>1, AgreeFacts
<1>5. PICK x, S, X, O : x = sess[q] /\ S = SentOf(p) /\ X = SentOf(q) /\ O = opened
  OBVIOUS
<1>6. x # None /\ x \in Sessions /\ Joined(s, x, S, X, O)
  BY <1>1, <1>2, <1>3, <1>5, SessionJoined
<1>7. PICK U, f : U = Used(p) /\ f = fresh[p]
  OBVIOUS
<1>8. /\ KeysInv(p, s, U, f) /\ StepsOK(s)
      /\ Turns(s, m) => s.local.n < f
  BY <1>1, <1>2, <1>3, <1>7, SessionReady
<1>9. PICK dhs \in KeyPairs : dhs = NewKey(p) /\ dhs.n = f
  BY <1>7, PartyFacts
<1>10. /\ X \subseteq Envelopes /\ m \in X /\ m \notin O /\ m \notin S
       /\ \A n \in S : n.dh.n < f /\ n.dh.n \in Nat
  <2>1. X \subseteq Sent /\ S \subseteq Sent /\ (\A n \in S : n.from = p)
    BY <1>5 DEF SentOf
  <2>2. m \in Sent /\ m \in X
    BY <1>3, <1>5 DEF Sent, SentOf
  <2>3. m \notin O
    BY <1>5 DEF RatchetInv, Letters
  <2>4. m \notin S
    BY <1>3, <1>4, <2>1
  <2> QED BY <1>7, <2>1, <2>2, <2>3, <2>4, LetterFacts
<1>11. Turns(s, m) => dhs # s.local /\ \A n \in S : n.dh # dhs
  <2>1. f \in Nat
    BY <1>7, PartyFacts
  <2>2. s.local.n \in Nat
    BY <1>8, SessionFields DEF KeysInv, KeyPairs
  <2> QED BY <1>8, <1>9, <1>10, <2>1, <2>2
<1>12. /\ \A k \in SkippedKeys(s, m) :
             k.key = m.key /\ Joined([s EXCEPT !.skipped = @ \ {k}], x, S, X, O \cup {m})
       /\ SkippedKeys(s, m) = {} =>
             LET t == Skip(OnChain(s, m, dhs), m.seq) IN
             t.recv = m.key /\ Joined(NextRecv(t), x, S, X, O \cup {m})
  BY <1>6, <1>8, <1>9, <1>10, <1>11, JoinedDecrypts
<1>13. PICK u \in Sessions : sess' = [sess EXCEPT ![p] = u] /\ Sent' = Sent
  BY <1>2, DecryptEffect
<1>14. /\ sess'[p] = u /\ u # None /\ sess'[q] = x
       /\ \A y : SentOf(y)' = SentOf(y)
  <2>1. sess'[p] = u /\ sess'[q] = sess[q]
    BY <1>4, <1>13 DEF RatchetInv, Types
  <2> QED BY <1>5, <1>13, <2>1, SentSame, NoneAssumption
<1>15. Joined(u, x, S, X, opened') /\ failed' = failed
  <2>1. CASE DecryptSkipped(p, s, m)
    <3>1. PICK k \in SkippedKeys(s, m) :
            /\ sess' = [sess EXCEPT ![p] = [s EXCEPT !.skipped = @ \ {k}]]
            /\ Open(m, k.key)
      BY <2>1 DEF DecryptSkipped
    <3>2. PICK v : v = [s EXCEPT !.skipped = @ \ {k}]
      OBVIOUS
    <3>3. k.key = m.key /\ Joined(v, x, S, X, O \cup {m})
      BY <1>12, <3>2
    <3>4. opened' = O \cup {m} /\ failed' = failed
      BY <1>5, <3>1, <3>3 DEF Open
    <3>5. u = v
      BY <1>14, <3>1, <3>2 DEF RatchetInv, Types
    <3> QED BY <3>3, <3>4, <3>5
  <2>2. CASE DecryptRefused(s, m, NewKey(p)) /\ sess' = [sess EXCEPT ![p] = s]
    <3>1. u = s
      BY <1>14, <2>2 DEF RatchetInv, Types
    <3> QED BY <1>5, <1>6, <2>2, <3>1 DEF DecryptRefused
  <2>3. CASE DecryptNext(p, s, m, NewKey(p))
    <3>1. PICK t, v : t = Skip(OnChain(s, m, dhs), m.seq) /\ v = NextRecv(t)
      OBVIOUS
    <3>2. /\ SkippedKeys(s, m) = {} /\ sess' = [sess EXCEPT ![p] = v] /\ Open(m, t.recv)
      BY <1>9, <2>3, <3>1 DEF DecryptNext, NextRecv
    <3>3. t.recv = m.key /\ Joined(v, x, S, X, O \cup {m})
      BY <1>12, <3>1, <3>2
    <3>4. opened' = O \cup {m} /\ failed' = failed
      BY <1>5, <3>2, <3>3 DEF Open
    <3>5. u = v
      BY <1>14, <3>2 DEF RatchetInv, Types
    <3> QED BY <3>3, <3>4, <3>5
  <2> QED BY <1>3, <2>1, <2>2, <2>3
<1>16. Joined(sess'[p], sess'[q], SentOf(p)', SentOf(q)', opened')
  BY <1>5, <1>14, <1>15
<1>17. Joined(sess'[b], sess'[a], SentOf(b)', SentOf(a)', opened')
  BY <1>4, <1>16 DEF Joined
<1>18. sess'[a] # None /\ sess'[b] # None /\ sess[a] # None
  <2>1. m \in Sent
    BY DEF Sent
  <2> QED BY <1>1, <1>4, <1>6, <1>14, <2>1, AgreeFacts
<1>19. offered[b] # {} /\ ~(imports[a] < MaxImports[a])
  BY <1>1, <1>18, AgreeFacts
<1> QED BY <1>1, <1>3, <1>4, <1>15, <1>17, <1>18, <1>19 DEF AgreeInv

\* Every step keeps the agreement.
LEMMA AgreeNext ==
    ASSUME NEW a \in Party, Initiates(a), Orderly
    PROVE  RatchetInv /\ AgreeInv(a) /\ [Next]_vars => AgreeInv(a)'
<1> SUFFICES ASSUME RatchetInv, AgreeInv(a), [Next]_vars PROVE AgreeInv(a)'
  OBVIOUS
<1>1. ASSUME NEW p \in Party, GeneratePreKeyBundle(p) PROVE AgreeInv(a)'
  BY <1>1, BundleAgrees
<1>2. ASSUME NEW p \in Party, InitiateSession(p) PROVE AgreeInv(a)'
  BY <1>2, ImportAgrees
<1>3. ASSUME NEW p \in Party, Encrypt(p) PROVE AgreeInv(a)'
  BY <1>3, EncryptAgrees
<1>4. ASSUME NEW p \in Party, NEW m \in net, Decrypt(p, m) PROVE AgreeInv(a)'
  BY <1>4, DecryptAgrees
<1>5. CASE UNCHANGED vars
  <2>1. /\ UNCHANGED <<sess, spk, opk, offered, imports, opened, failed>> /\ Sent' = Sent
    BY <1>5 DEF vars, stores, counts, Sent
  <2>2. \A q : SentOf(q)' = SentOf(q)
    BY <2>1, SentSame
  <2> QED BY <2>1, <2>2 DEF AgreeInv
<1> QED BY <1>1, <1>2, <1>3, <1>4, <1>5 DEF Next

\* The two sessions agree in every state.
LEMMA AgreeInvariant ==
    ASSUME NEW a \in Party, Initiates(a), Orderly
    PROVE  Spec => []AgreeInv(a)
<1>1. Init => AgreeInv(a)
  BY AgreeInit
<1>2. RatchetInv /\ AgreeInv(a) /\ [Next]_vars => AgreeInv(a)'
  BY AgreeNext
<1> QED BY <1>1, <1>2, RatchetInvariant, PTL DEF Spec

(***************************************************************************)
(* decrypt, with whatever the network delays, loses or reorders, and       *)
(* however often the ratchet has turned: every message that is delivered   *)
(* after the one that opens the session is opened with the key that sealed *)
(* it, or refused because too many were missing before it.                 *)
(***************************************************************************)
THEOREM EveryDeliveryOpensHolds == Orderly /\ OneImport /\ Spec => []EveryDeliveryOpens
<1> SUFFICES ASSUME Orderly, OneImport PROVE Spec => []EveryDeliveryOpens
  OBVIOUS
<1>1. PICK a \in Party : Initiates(a)
  BY DEF OneImport
<1>2. AgreeInv(a) => EveryDeliveryOpens
  BY DEF AgreeInv, EveryDeliveryOpens
<1>3. Spec => []AgreeInv(a)
  BY <1>1, AgreeInvariant
<1> QED BY <1>2, <1>3, PTL

(***************************************************************************)
(* skipMessageKeys: a key that a session has put aside is that of a        *)
(* message which the other party did send on that chain with that number,  *)
(* and which is still on its way or was refused.                           *)
(***************************************************************************)
THEOREM SkippedAwaitedHolds == Orderly /\ OneImport /\ Spec => []SkippedAwaited
<1> SUFFICES ASSUME Orderly, OneImport PROVE Spec => []SkippedAwaited
  OBVIOUS
<1>1. PICK a \in Party : Initiates(a)
  BY DEF OneImport
<1>2. RatchetInv /\ AgreeInv(a) => SkippedAwaited
  <2> SUFFICES ASSUME RatchetInv, AgreeInv(a), NEW p \in Party, sess[p] # None,
                      NEW k \in sess[p].skipped
               PROVE  \E m \in net \cup refused :
                        m.from = Peer(p) /\ m.dh = k.dh /\ m.seq = k.seq /\ m.key = k.key
    BY DEF SkippedAwaited
  <2>1. PICK b, q : b = Peer(a) /\ q = Peer(p)
    OBVIOUS
  <2>2. /\ b # a /\ ((p = a /\ q = b) \/ (p = b /\ q = a)) /\ failed = {}
        /\ sess[a] = None => sess[b] = None
        /\ sess[a] # None /\ sess[b] = None => sess[a].skipped = {}
        /\ sess[b] # None => Joined(sess[b], sess[a], SentOf(b), SentOf(a), opened)
    BY <1>1, <2>1, AgreeFacts DEF Knocks
  <2>3. Joined(sess[p], sess[q], SentOf(p), SentOf(q), opened)
    BY <2>2 DEF Joined
  <2>4. Receives(sess[p], sess[q], SentOf(q), opened)
    BY <2>3, JoinedSides
  <2>5. PICK m \in SentOf(q) \ opened : k = SkippedKey(m)
    BY <2>4 DEF Receives
  <2>6. m \in net \cup refused /\ m.from = q
    BY <2>2 DEF SentOf, Sent
  <2> QED BY <2>1, <2>5, <2>6 DEF SkippedKey
<1>3. Spec => []AgreeInv(a)
  BY <1>1, AgreeInvariant
<1> QED BY <1>2, <1>3, RatchetInvariant, PTL
=============================================================================
