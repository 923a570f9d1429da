-------------------------- MODULE MessagingProofs --------------------------
(***************************************************************************)
(* Proofs about Messaging for any number of frames to a chunk, of bundles, *)
(* imports, messages and crashes, and any order of delivery: operations    *)
(* hold what they need at each await, and no key seals two messages; and,  *)
(* where a chunk holds one frame, the key of an opened message is gone     *)
(* from the stores and from what the operations hold.  From "The two       *)
(* devices together" on: when one party imports the contact of the other,  *)
(* who has exported one bundle, whatever is delivered opens.  The last     *)
(* part is about the messages tables: a process that lives loses nothing   *)
(* that it opened or that its user sent.                                   *)
(***************************************************************************)
EXTENDS Messaging, RatchetProofs

-----------------------------------------------------------------------------
(* Who sealed a message, by the root of its key *)

\* The X3DH output in a root key was made with an ephemeral key of p.
Initiated(p, r) ==
    \E k \in r[1][2] : k.of = p /\ k.n # 0 /\ r[1][2] = DH(k, Identity(Peer(p)))

\* Two DH outputs of a turn of p's ratchet: one for receiving, with p's old key
\* pair, and one for sending, with a new one.
Turned(p, a, b) ==
    \E old, rem \in a, new \in b :
        /\ old.of = p /\ new.of = p /\ old # new /\ rem.of = Peer(p)
        /\ a = DH(old, rem) /\ b = DH(new, rem)

\* The root of a sending chain of p: the first of an initiator, the first of a
\* responder, or that of a turn.
SentBy(p, r) ==
    \/ Len(r) = 2 /\ Initiated(p, r)
    \/ Len(r) = 3 /\ Initiated(Peer(p), r)
    \/ Len(r) >= 4 /\ Turned(p, r[Len(r) - 1], r[Len(r)])

\* The root of a session of p sends, or will.
RootOK(p, s) ==
    IF s.send # None THEN SentBy(p, s.root)
    ELSE Len(s.root) = 2 /\ Initiated(Peer(p), s.root)

(***************************************************************************)
(* A session of p whose keys in U are used, which may be the stored one or *)
(* a copy that an operation holds; A and B are the signed pre-keys of p    *)
(* and of its peer, and f bounds the key pairs of p.                       *)
(***************************************************************************)
Good(p, s, U, f, A, B) ==
    /\ KeysInv(p, s, U, f) /\ StepsOK(s) /\ RootOK(p, s)
    /\ s.local.of = p /\ s.local.n \in 1..(f - 1) /\ s.local \notin A
    /\ s.remote.of = Peer(p)
    /\ s.recv = None => s.remote \in B

-----------------------------------------------------------------------------
(* The inductive invariant *)

\* Handlers of frames do not overlap.
OneFrame == \A i, j \in Frame : i = j

\* The keys of p that are used.  Handlers that overlap may bring back the key of
\* a message that the other has opened, but none that sealed one.
SealedKeys(p) == {m.key : m \in {x \in sealed : x.from = p}}
OpenedKeys(p) == {m.key : m \in {x \in opened : x.from = Peer(p) /\ OneFrame}}
Keys(p)       == SealedKeys(p) \cup OpenedKeys(p)

GoodNow(p, s) == Good(p, s, Keys(p), fresh[p], Spks(p), Spks(Peer(p)))

Bundles == [spk : KeyPairs, otk : KeyPairs]
UiAt    == {"idle", "import", "seal", "post", "record"}
FrameAt == {"idle", "read", "answer", "answered", "decrypt", "keep"}
Tasks   == [at : UiAt \cup FrameAt, copy : Sessions \cup Bundles \cup {None},
            msg : Envelopes \cup {None}, n : Nat, to : Addresses \cup {""}]

StoreTypes ==
    /\ sess \in [Party -> Sessions \cup {None}]
    /\ spk \in [Party -> KeyPairs \cup {None}]
    /\ opk \in [Party -> SUBSET KeyPairs]
    /\ offered \in [Party -> SUBSET Bundles]
    /\ fresh \in [Party -> Nat \ {0}]
    /\ contacts \in [Party -> SUBSET Addresses]
    /\ recorded \in [Party -> SUBSET opened]

TaskTypes ==
    /\ task \in [Party -> [Slot -> Tasks]]
    /\ \A p \in Party : \A i \in Slot : task[p][i].at \in IF i = "ui" THEN UiAt ELSE FrameAt
    /\ sends \in [Party -> Nat]

\* The bundles on offer are their owners', and numbered.
Offers ==
    \A p \in Party : \A b \in offered[p] :
        b.spk.of = p /\ b.spk.n < fresh[p] /\ b.otk.of = p

\* What was sealed was sealed with an ephemeral key and on a chain of its sender,
\* and with a key of its own; and it was delivered once.
SealedBy(m) ==
    /\ m.dh.of = m.from /\ m.dh.n \in 1..(fresh[m.from] - 1)
    /\ m.dh \notin Spks(m.from)
    /\ SentBy(m.from, m.key.root)
Mail ==
    /\ sealed \subseteq Envelopes /\ Sent \subseteq sealed
    /\ net \cap (opened \cup failed \cup refused) = {}
    /\ \A m \in sealed : SealedBy(m)
    /\ SealedOnce

Stored ==
    \A p \in Party : IF sess[p] = None THEN Keys(p) = {} ELSE GoodNow(p, sess[p])

\* What the UI is doing on the session happens while no frame is handled.
Alone ==
    \A p \in Party : task[p]["ui"].at \in {"import", "seal", "record"} =>
        \A i \in Frame : task[p][i].at = "idle"

\* The message of an operation is not in the mailbox, and no other operation's.
Waiting   == {"post", "read", "answer", "answered", "decrypt"}
Working   == Waiting \cup {"keep"}
Sender(p, i) == IF i = "ui" THEN p ELSE Peer(p)

Holding(p, i) ==
    LET t == task[p][i] IN
    /\ t.at \in Working => t.msg.from = Sender(p, i)
    /\ t.at \in Waiting => t.msg \in sealed \ Sent
    /\ t.at = "keep" => t.msg \in opened \ recorded[p]
HeldOK == \A p \in Party : \A i \in Slot : Holding(p, i)

SameMessage(p, i, q, j) ==
    /\ task[p][i].at \in Working /\ task[q][j].at \in Working
    /\ task[p][i].msg = task[q][j].msg
HeldOnce ==
    \A p, q \in Party : \A i, j \in Slot : SameMessage(p, i, q, j) => p = q /\ i = j

\* A copy of the session is as good as the stored one.
CopyOK(p, i) ==
    LET t == task[p][i] IN
    /\ t.at = "import" => t.copy \in offered[Peer(p)]
    /\ t.at = "seal" => t.copy = sess[p]
    /\ t.at = "answer" => Keys(p) = {}
    /\ t.at \in {"answered", "decrypt"} => GoodNow(p, t.copy)
Copies == \A p \in Party : \A i \in Slot : CopyOK(p, i)

MsgInv ==
    /\ StoreTypes /\ TaskTypes /\ Offers /\ Mail /\ Stored
    /\ Alone /\ HeldOK /\ HeldOnce /\ Copies

-----------------------------------------------------------------------------
(* Roots *)

\* No root is initiated by both parties.
LEMMA InitiatedOnce ==
    ASSUME NEW p \in Party, NEW r, Initiated(p, r), Initiated(Peer(p), r)
    PROVE  FALSE
<1>1. Peer(p) # p /\ Peer(Peer(p)) = p
  BY Peers
<1>2. PICK k : k.of = p /\ k.n # 0 /\ r[1][2] = DH(k, Identity(Peer(p)))
  BY DEF Initiated
<1>3. PICK j : j.of = Peer(p) /\ r[1][2] = DH(j, Identity(p))
  BY <1>1 DEF Initiated
<1>4. k \in DH(j, Identity(p))
  BY <1>2, <1>3 DEF DH
<1>5. k = Identity(p)
  BY <1>1, <1>2, <1>3, <1>4 DEF DH
<1> QED BY <1>2, <1>5 DEF Identity, KeyPair

\* The DH outputs of a turn say whose turn it was.
LEMMA TurnedOnce ==
    ASSUME NEW p \in Party, NEW a, NEW b, Turned(p, a, b), Turned(Peer(p), a, b)
    PROVE  FALSE
<1>1. Peer(p) # p /\ Peer(Peer(p)) = p
  BY Peers
<1>2. PICK old \in a, rem \in a, new \in b :
                           /\ old.of = p /\ new.of = p /\ old # new /\ rem.of = Peer(p)
                           /\ a = DH(old, rem) /\ b = DH(new, rem)
  BY DEF Turned
<1>3. PICK old2 \in a, rem2 \in a, new2 \in b :
                              /\ old2.of = Peer(p) /\ new2.of = Peer(p) /\ old2 # new2
                              /\ rem2.of = p
                              /\ a = DH(old2, rem2) /\ b = DH(new2, rem2)
  BY <1>1 DEF Turned
<1>4. rem = old2
  <2>1. rem \in DH(old2, rem2)
    BY <1>2, <1>3 DEF DH
  <2> QED BY <1>1, <1>2, <1>3, <2>1 DEF DH
<1>5. rem = new2
  <2>1. rem \in DH(new2, rem2)
    BY <1>2, <1>3 DEF DH
  <2> QED BY <1>1, <1>2, <1>3, <2>1 DEF DH
<1> QED BY <1>3, <1>4, <1>5

\* The root of a sending chain is one party's.
LEMMA OneSender ==
    ASSUME NEW p \in Party, NEW r, SentBy(p, r), SentBy(Peer(p), r)
    PROVE  FALSE
<1>1. Peer(p) \in Party /\ Peer(Peer(p)) = p
  BY Peers
<1>2. CASE Len(r) = 2 /\ Initiated(p, r)
  BY <1>1, <1>2, InitiatedOnce DEF SentBy
<1>3. CASE Len(r) = 3 /\ Initiated(Peer(p), r)
  BY <1>1, <1>3, InitiatedOnce DEF SentBy
<1>4. CASE Len(r) >= 4 /\ Turned(p, r[Len(r) - 1], r[Len(r)])
  BY <1>1, <1>4, TurnedOnce DEF SentBy
<1> QED BY <1>2, <1>3, <1>4 DEF SentBy

\* The last two DH outputs in a root.
LEMMA LastTwo ==
    ASSUME NEW S, NEW r \in Seq(S), NEW a \in S, NEW b \in S,
           NEW t, t = Append(Append(r, a), b)
    PROVE  t \in Seq(S) /\ Len(t) = Len(r) + 2 /\ t[Len(t) - 1] = a /\ t[Len(t)] = b
<1>1. PICK q : q = Append(r, a)
  OBVIOUS
<1>2. q \in Seq(S) /\ Len(q) = Len(r) + 1 /\ q[Len(r) + 1] = a
  BY <1>1, AppendProperties, SMTT(40)
<1>3. t = Append(q, b)
  BY <1>1
<1>4. t \in Seq(S) /\ Len(t) = Len(q) + 1 /\ t[Len(q) + 1] = b
  BY <1>2, <1>3, AppendProperties, SMTT(40)
<1>5. Len(q) \in 1..Len(q)
  BY <1>2
<1>6. t[Len(q)] = q[Len(q)]
  BY <1>2, <1>3, <1>5, AppendProperties, SMTT(40)
<1> QED BY <1>2, <1>4, <1>6

\* A turn of p's ratchet leads to a root that sends for p.
LEMMA TurnSends ==
    ASSUME NEW p \in Party, NEW r \in Roots, Len(r) >= 2,
           NEW old \in KeyPairs, NEW new \in KeyPairs, NEW rem \in KeyPairs,
           old.of = p, new.of = p, old # new, rem.of = Peer(p)
    PROVE  SentBy(p, KdfRoot(KdfRoot(r, DH(old, rem)), DH(new, rem)))
<1>1. PICK S : S = Mixed \cup Seq(Mixed)
  OBVIOUS
<1>2. PICK a \in S, b \in S : a = DH(old, rem) /\ b = DH(new, rem)
  BY <1>1 DEF DH, Mixed
<1>3. PICK t : t = KdfRoot(KdfRoot(r, DH(old, rem)), DH(new, rem))
  OBVIOUS
<1>4. t = Append(Append(r, a), b)
  BY <1>2, <1>3 DEF KdfRoot
<1>5. r \in Seq(S) /\ Len(r) \in Nat
  BY <1>1 DEF Roots
<1>6. Len(t) = Len(r) + 2 /\ t[Len(t) - 1] = a /\ t[Len(t)] = b
  BY <1>4, <1>5, LastTwo
<1>7. old \in a /\ rem \in a /\ new \in b
  BY <1>2 DEF DH
<1>8. Turned(p, a, b)
  BY <1>2, <1>7 DEF Turned
<1> QED BY <1>3, <1>5, <1>6, <1>8 DEF SentBy

\* Every session has a root of two parts at least.
LEMMA RootLength ==
    ASSUME NEW p \in Party, NEW s, s.root \in Roots, RootOK(p, s)
    PROVE  Len(s.root) >= 2
<1>1. PICK n \in Nat : n = Len(s.root)
  BY DEF Roots
<1>2. n = 2 \/ n = 3 \/ n >= 4
  BY <1>1, Zenon DEF RootOK, SentBy
<1>3. n >= 2
  BY <1>2
<1> QED BY <1>1, <1>3

-----------------------------------------------------------------------------
(* What the engine's operations do to a session of p *)

\* It stays good when key pairs and signed pre-keys are added that it has not.
LEMMA GoodKept ==
    ASSUME NEW p \in Party, NEW s, NEW U, NEW f \in Nat, NEW A, NEW B, Good(p, s, U, f, A, B),
           NEW V \in SUBSET U, NEW g \in Nat, f <= g,
           NEW C, s.local \notin C, NEW D, B \subseteq D
    PROVE  Good(p, s, V, g, C, D)
<1>1. KeysInv(p, s, V, g)
  BY KeysKept DEF Good
<1>2. s.local.n \in 1..(g - 1)
  BY DEF Good
<1> QED BY <1>1, <1>2 DEF Good

\* An imported contact's session.
LEMMA GoodAlice ==
    ASSUME NEW p \in Party, NEW U, NEW f \in Nat \ {0}, NEW s, KeysInv(p, s, U, f) \/ U = {},
           NEW bundle \in [spk : KeyPairs, otk : KeyPairs],
           bundle.spk.of = Peer(p), bundle.otk.of = Peer(p),
           NEW A, KeyPair(p, f) \notin A, NEW B, bundle.spk \in B,
           NEW t, t = AliceSession(p, KeyPair(p, f), bundle)
    PROVE  Good(p, t, U, f + 1, A, B) /\ t \in Sessions
<1>1. PICK k : k = KeyPair(p, f)
  OBVIOUS
<1>2. k.of = p /\ k.n = f
  BY <1>1 DEF KeyPair
<1>3. /\ KeysInv(p, t, U, f + 1) /\ StepsOK(t)
      /\ t.local = k /\ t.remote = bundle.spk /\ t.send # None
      /\ Len(t.root) = 2 /\ t.root[1][2] = DH(k, Identity(Peer(p)))
  BY <1>1, AliceKeeps
<1>4. k \in t.root[1][2]
  BY <1>3 DEF DH
<1>5. Initiated(p, t.root)
  BY <1>2, <1>3, <1>4 DEF Initiated
<1>6. RootOK(p, t)
  BY <1>3, <1>5 DEF RootOK, SentBy
<1>7. t.local.n \in 1..((f + 1) - 1)
  BY <1>2, <1>3
<1>8. t \in Sessions
  BY <1>3 DEF KeysInv
<1> QED BY <1>1, <1>2, <1>3, <1>6, <1>7, <1>8 DEF Good

\* The session that answers a first message.
LEMMA GoodBob ==
    ASSUME NEW p \in Party, NEW m \in Envelopes, m.from = Peer(p), m.dh.of = Peer(p),
           m.dh.n # 0,
           spk[p] \in KeyPairs \cup {None}, opk[p] \subseteq KeyPairs,
           NEW f \in Nat \ {0}, fresh[p] = f,
           NEW A, KeyPair(p, f) \notin A, NEW B,
           NEW t, t = BobSession(p, m)
    PROVE  Good(p, t, {}, f + 1, A, B) /\ t \in Sessions
<1>1. PICK k : k = KeyPair(p, f)
  OBVIOUS
<1>2. k.of = p /\ k.n = f /\ NewKey(p) = k
  BY <1>1 DEF KeyPair, NewKey
<1>3. /\ KeysInv(p, t, {}, fresh[p]) /\ StepsOK(t) /\ t.recv # None /\ t.send = None
      /\ t.local = NewKey(p) /\ t.remote = m.dh
      /\ Len(t.root) = 2 /\ t.root[1][2] = DH(Identity(p), m.dh)
  BY BobKeeps
<1>4. KeysInv(p, t, {}, f + 1)
  <2>1. KeysInv(p, t, {}, f)
    BY <1>3
  <2>2. f \in Nat /\ f + 1 \in Nat /\ f <= f + 1
    OBVIOUS
  <2>3. PICK V \in SUBSET {} : V = {}
    OBVIOUS
  <2> QED BY <2>1, <2>2, <2>3, KeysKept
<1>5. Peer(Peer(p)) = p
  BY Peers
<1>6. m.dh \in t.root[1][2] /\ t.root[1][2] = DH(m.dh, Identity(p))
  BY <1>3 DEF DH
<1>7. Initiated(Peer(p), t.root)
  BY <1>5, <1>6 DEF Initiated
<1>8. RootOK(p, t)
  BY <1>3, <1>7 DEF RootOK
<1>9. t.local.n \in 1..((f + 1) - 1)
  BY <1>2, <1>3
<1>10. t \in Sessions
  BY <1>3 DEF KeysInv
<1> QED BY <1>1, <1>2, <1>3, <1>4, <1>8, <1>9, <1>10 DEF Good

\* The root of a responder's first sending chain.
LEMMA FirstSendRoot ==
    ASSUME NEW s \in Sessions, Len(s.root) >= 1, s.send = None,
           NEW w, w = WithSendChain(s)
    PROVE  Len(w.root) = Len(s.root) + 1 /\ w.root[1] = s.root[1]
<1>1. PICK r : r = KdfRoot(s.root, DH(s.local, s.remote))
  OBVIOUS
<1>2. Len(r) = Len(s.root) + 1 /\ r[1] = s.root[1]
  BY <1>1, SessionFields, KdfRootType
<1>3. w.root = r
  BY <1>1 DEF WithSendChain, Sessions
<1> QED BY <1>2, <1>3

\* Sealing takes a key that was not used, on a chain of p's own.
LEMMA GoodSealed ==
    ASSUME NEW p \in Party, NEW s, NEW U, NEW f, NEW A, NEW B, Good(p, s, U, f, A, B),
           NEW w, w = WithSendChain(s)
    PROVE  /\ Good(p, NextSend(w), U \cup {w.send}, f, A, B) /\ NextSend(w) \in Sessions
           /\ w.send \notin U /\ w.send \in Chains /\ SentBy(p, w.send.root)
           /\ w \in Sessions /\ w.local = s.local
<1>1. /\ KeysInv(p, s, U, f) /\ StepsOK(s) /\ RootOK(p, s) /\ s \in Sessions
      /\ Len(s.root) >= 1
  BY DEF Good, KeysInv
<1>2. /\ KeysInv(p, w, U, f) /\ w.send # None
      /\ w.local = s.local /\ w.remote = s.remote /\ w.recv = s.recv
      /\ w.ns = s.ns /\ w.nr = s.nr
      /\ IF s.send # None THEN w = s ELSE w.send.step = 0
  BY <1>1, WithSendChainKeeps
<1>3. PICK t : t = NextSend(w)
  OBVIOUS
<1>4. /\ KeysInv(p, t, U \cup {w.send}, f)
      /\ w.send \notin U /\ w.send \in Chains
      /\ t.local = w.local /\ t.remote = w.remote /\ t.recv = w.recv /\ t.nr = w.nr
      /\ t.send # None /\ t.send.step = w.send.step + 1 /\ t.ns = w.ns + 1
  BY <1>2, <1>3, NextSendKeeps
<1>5. w \in Sessions /\ t \in Sessions /\ w.send.root = w.root
  BY <1>2, <1>4 DEF KeysInv, ChainsApart
<1>6. t.root = w.root
  BY <1>3, <1>5 DEF NextSend, Sessions
<1>7. SentBy(p, w.root)
  <2>1. CASE s.send # None
    BY <1>1, <1>2, <2>1 DEF RootOK
  <2>2. CASE s.send = None
    <3>1. Len(w.root) = Len(s.root) + 1 /\ w.root[1] = s.root[1]
      BY <1>1, <2>2, FirstSendRoot
    <3>2. Len(s.root) = 2 /\ Initiated(Peer(p), s.root)
      BY <1>1, <2>2 DEF RootOK
    <3>3. Len(w.root) = 3
      BY <3>1, <3>2
    <3>4. Initiated(Peer(p), w.root)
      BY <3>1, <3>2 DEF Initiated
    <3> QED BY <3>3, <3>4 DEF SentBy
  <2> QED BY <2>1, <2>2
<1>8. StepsOK(t)
  BY <1>1, <1>2, <1>4 DEF StepsOK
<1>9. RootOK(p, t)
  BY <1>4, <1>6, <1>7 DEF RootOK
<1>10. Good(p, t, U \cup {w.send}, f, A, B)
  BY <1>2, <1>4, <1>8, <1>9 DEF Good
<1> QED BY <1>2, <1>3, <1>4, <1>5, <1>7, <1>10

\* Opening with a key that was put aside.
LEMMA GoodSkipped ==
    ASSUME NEW p \in Party, NEW s, NEW U, NEW f, NEW A, NEW B, Good(p, s, U, f, A, B),
           NEW k \in s.skipped, NEW u, u = [s EXCEPT !.skipped = @ \ {k}]
    PROVE  Good(p, u, U \cup {k.key}, f, A, B) /\ u \in Sessions
<1>1. KeysInv(p, s, U, f)
  BY DEF Good
<1>2. /\ KeysInv(p, u, U \cup {k.key}, f)
      /\ u \in Sessions /\ u.root = s.root /\ u.send = s.send /\ u.recv = s.recv
      /\ u.local = s.local /\ u.remote = s.remote
      /\ u.ns = s.ns /\ u.nr = s.nr
  BY <1>1, SkippedKeeps
<1>3. StepsOK(u)
  BY <1>2 DEF Good, StepsOK
<1>4. RootOK(p, u)
  BY <1>2 DEF Good, RootOK
<1> QED BY <1>2, <1>3, <1>4 DEF Good

\* The root and the sending chain after a message was taken from the next chain
\* or this one.
LEMMA NextRoot ==
    ASSUME NEW s \in Sessions, Len(s.root) >= 1, NEW m \in Envelopes, NEW dhs \in KeyPairs,
           NEW t, t = Skip(OnChain(s, m, dhs), m.seq),
           NEW u, u = NextRecv(t)
    PROVE  IF Turns(s, m)
           THEN u.send # None /\ u.root = KdfRoot(KdfRoot(s.root, DH(s.local, m.dh)), DH(dhs, m.dh))
           ELSE u.send = s.send /\ u.root = s.root
<1>m. m.pn \in Nat /\ m.seq \in Nat /\ m.dh \in KeyPairs
  BY DEF Envelopes
<1>1. PICK o : o = OnChain(s, m, dhs)
  OBVIOUS
<1>2. /\ o \in Sessions
      /\ IF Turns(s, m)
         THEN o.send # None /\ o.root = KdfRoot(KdfRoot(s.root, DH(s.local, m.dh)), DH(dhs, m.dh))
         ELSE o.send = s.send /\ o.root = s.root
  <2>1. CASE Turns(s, m)
    <3>1. PICK k : k = Skip(s, m.pn)
      OBVIOUS
    <3>2. k \in Sessions /\ k.root = s.root /\ k.local = s.local
      BY <1>m, <3>1, SkipFields
    <3>3. o = DhRatchetStep(k, m.dh, dhs)
      BY <1>1, <2>1, <3>1 DEF OnChain
    <3>4. /\ o \in Sessions
          /\ o.recv.root = KdfRoot(k.root, DH(k.local, m.dh))
          /\ o.send # None /\ o.send.root = KdfRoot(o.recv.root, DH(dhs, m.dh))
          /\ o.root = o.send.root
      BY <1>m, <3>2, <3>3, TurnFields
    <3> QED BY <2>1, <3>2, <3>4
  <2>2. CASE ~Turns(s, m)
    BY <1>1, <2>2 DEF OnChain
  <2> QED BY <2>1, <2>2
<1>3. t = Skip(o, m.seq)
  BY <1>1
<1>4. t \in Sessions /\ t.root = o.root /\ t.send = o.send
  <2>1. o \in Sessions /\ m.seq \in Nat
    BY <1>2, <1>m
  <2>2. /\ Skip(o, m.seq) \in Sessions
        /\ Skip(o, m.seq).root = o.root /\ Skip(o, m.seq).send = o.send
    BY <2>1, SkipFields
  <2> QED BY <1>3, <2>2
<1>5. u.root = t.root /\ u.send = t.send
  BY <1>4 DEF NextRecv, Sessions
<1> QED BY <1>2, <1>4, <1>5

\* Taking the next message of a chain, after a turn of the ratchet with a new key
\* pair if the chain is new.
LEMMA GoodNext ==
    ASSUME NEW p \in Party, NEW s, NEW U, NEW f \in Nat \ {0}, NEW A, NEW B,
           Good(p, s, U, f, A, B),
           NEW m \in Envelopes, m.dh.of = Peer(p), m.dh \notin B,
           NEW dhs \in KeyPairs, dhs = KeyPair(p, f), dhs \notin A,
           NEW t, t = Skip(OnChain(s, m, dhs), m.seq),
           NEW u, u = NextRecv(t),
           NEW g \in Nat, f <= g, Turns(s, m) => g = f + 1
    PROVE  Good(p, u, U \cup {t.recv}, g, A, B) /\ u \in Sessions
<1>1. /\ KeysInv(p, s, U, f) /\ StepsOK(s) /\ RootOK(p, s) /\ s \in Sessions
      /\ Len(s.root) >= 1 /\ s.local.of = p /\ s.local.n \in 1..(f - 1) /\ s.local \notin A
  BY DEF Good, KeysInv
<1>2. s.recv = None => Turns(s, m)
  BY DEF Good, Turns
<1>3. /\ KeysInv(p, u, U \cup {t.recv}, f) /\ StepsOK(u)
      /\ t.recv \in Chains /\ t.recv \notin U /\ u.recv # None
      /\ u.remote = m.dh /\ u.local = IF Turns(s, m) THEN dhs ELSE s.local
  <2>1. KeysInv(p, s, U, f) /\ StepsOK(s) /\ m \in Envelopes /\ (s.recv = None => Turns(s, m))
    BY <1>1, <1>2
  <2> QED BY <2>1, NextKeeps
<1>4. IF Turns(s, m)
      THEN u.send # None /\ u.root = KdfRoot(KdfRoot(s.root, DH(s.local, m.dh)), DH(dhs, m.dh))
      ELSE u.send = s.send /\ u.root = s.root
  BY <1>1, NextRoot
<1>5. dhs.of = p /\ dhs.n = f
  BY DEF KeyPair
<1>6. RootOK(p, u)
  <2>1. CASE Turns(s, m)
    <3>1. s.root \in Roots /\ s.local \in KeyPairs /\ m.dh \in KeyPairs
      BY <1>1, SessionFields DEF Envelopes
    <3>2. Len(s.root) >= 2
      BY <1>1, <3>1, RootLength
    <3>3. s.local # dhs
      BY <1>1, <1>5
    <3>4. SentBy(p, KdfRoot(KdfRoot(s.root, DH(s.local, m.dh)), DH(dhs, m.dh)))
      BY <1>1, <1>5, <3>1, <3>2, <3>3, TurnSends
    <3> QED BY <1>4, <2>1, <3>4 DEF RootOK
  <2>2. CASE ~Turns(s, m)
    BY <1>1, <1>4, <2>2 DEF RootOK
  <2> QED BY <2>1, <2>2
<1>7. u.local.of = p /\ u.local.n \in 1..(g - 1) /\ u.local \notin A
  <2>1. CASE Turns(s, m)
    <3>1. u.local = dhs
      BY <1>3, <2>1
    <3>2. f \in 1..(g - 1)
      BY <2>1
    <3> QED BY <1>5, <3>1, <3>2
  <2>2. CASE ~Turns(s, m)
    <3>1. u.local = s.local
      BY <1>3, <2>2
    <3> QED BY <1>1, <3>1
  <2> QED BY <2>1, <2>2
<1>8. KeysInv(p, u, U \cup {t.recv}, g) /\ u \in Sessions
  <2>1. u \in Sessions
    BY <1>3 DEF KeysInv
  <2> QED BY <1>3, <2>1, KeysKept
<1> QED BY <1>3, <1>6, <1>7, <1>8 DEF Good

-----------------------------------------------------------------------------
(* What a step leaves alone *)

\* A party, its keys and its bundles.
LEMMA MsgParty ==
    ASSUME MsgInv, NEW p \in Party
    PROVE  /\ Peer(p) \in Party /\ Peer(p) # p /\ Peer(Peer(p)) = p
           /\ fresh[p] \in Nat \ {0}
           /\ NewKey(p) \in KeyPairs /\ NewKey(p) = KeyPair(p, fresh[p])
           /\ NewKey(p).of = p /\ NewKey(p).n = fresh[p] /\ NewKey(p) \notin Spks(p)
           /\ spk[p] \in KeyPairs \cup {None} /\ opk[p] \subseteq KeyPairs
           /\ \A b \in offered[p] : /\ b \in [spk : KeyPairs, otk : KeyPairs] /\ b \in Bundles
                                    /\ b.spk.of = p /\ b.otk.of = p /\ b.spk \in Spks(p)
                                    /\ b.spk.n \in Nat /\ b.spk.n < fresh[p]
<1>1. Peer(p) \in Party /\ Peer(p) # p /\ Peer(Peer(p)) = p
  BY Peers
<1>2. /\ fresh[p] \in Nat \ {0} /\ spk[p] \in KeyPairs \cup {None}
      /\ opk[p] \subseteq KeyPairs /\ offered[p] \subseteq Bundles
  BY DEF MsgInv, StoreTypes
<1>3. /\ NewKey(p) = KeyPair(p, fresh[p]) /\ NewKey(p) \in KeyPairs
      /\ NewKey(p).of = p /\ NewKey(p).n = fresh[p]
  BY <1>2 DEF NewKey, KeyPair, KeyPairs
<1>4. ASSUME NEW b \in offered[p]
      PROVE  /\ b \in [spk : KeyPairs, otk : KeyPairs] /\ b \in Bundles
             /\ b.spk.of = p /\ b.otk.of = p /\ b.spk \in Spks(p)
             /\ b.spk.n \in Nat /\ b.spk.n < fresh[p]
  <2>1. b \in [spk : KeyPairs, otk : KeyPairs] /\ b \in Bundles
    BY <1>2 DEF Bundles
  <2>2. b.spk.n \in Nat
    BY <2>1 DEF KeyPairs
  <2>3. b.spk.of = p /\ b.otk.of = p /\ b.spk.n < fresh[p]
    BY DEF MsgInv, Offers
  <2> QED BY <2>1, <2>2, <2>3 DEF Spks
<1>5. NewKey(p) \notin Spks(p)
  BY <1>2, <1>3, <1>4 DEF Spks
<1> QED BY <1>1, <1>2, <1>3, <1>4, <1>5

\* A session that is good.
LEMMA GoodSession ==
    ASSUME NEW p, NEW s, GoodNow(p, s)
    PROVE  s \in Sessions /\ s # None
  BY NoneAssumption DEF GoodNow, Good, KeysInv

\* Keys are used when messages are sealed and opened.
LEMMA KeysSame ==
    ASSUME UNCHANGED <<sealed, opened>>
    PROVE  \A q : Keys(q)' = Keys(q)
  BY DEF Keys, SealedKeys, OpenedKeys, OneFrame

\* A good session stays good while no more keys are used.
LEMMA GoodStays ==
    ASSUME MsgInv, NEW p \in Party, NEW s, GoodNow(p, s), Keys(p)' \subseteq Keys(p),
           fresh'[p] \in Nat, fresh[p] <= fresh'[p], UNCHANGED offered
    PROVE  GoodNow(p, s)'
<1>1. PICK U, A, B : U = Keys(p) /\ A = Spks(p) /\ B = Spks(Peer(p))
  OBVIOUS
<1>2. PICK f \in Nat : f = fresh[p]
  BY MsgParty
<1>3. PICK V \in SUBSET U : V = Keys(p)'
  BY <1>1
<1>4. PICK g \in Nat : g = fresh'[p]
  OBVIOUS
<1>5. f <= g
  BY <1>2, <1>4
<1>6. Good(p, s, U, f, A, B)
  BY <1>1, <1>2 DEF GoodNow
<1>7. s.local \notin A
  BY <1>6 DEF Good
<1>8. Good(p, s, V, g, A, B)
  BY <1>5, <1>6, <1>7, GoodKept
<1>9. Spks(p)' = A /\ Spks(Peer(p))' = B
  BY <1>1 DEF Spks
<1> QED BY <1>3, <1>4, <1>8, <1>9 DEF GoodNow

\* Key pairs only get more.
Later ==
    /\ fresh' \in [Party -> Nat \ {0}]
    /\ \A q \in Party : fresh[q] <= fresh'[q]

\* Letters stay as they are.
LEMMA MailKept ==
    ASSUME MsgInv, UNCHANGED <<sealed, offered>>, Later, Sent' \subseteq sealed,
           (net \cap (opened \cup failed \cup refused) = {})'
    PROVE  Mail'
<1>1. ASSUME NEW m \in sealed PROVE SealedBy(m)'
  <2>1. SealedBy(m) /\ m.from \in Party /\ m.dh.n \in Nat
    BY DEF MsgInv, Mail, Envelopes, KeyPairs
  <2>2. /\ fresh[m.from] \in Nat /\ fresh'[m.from] \in Nat /\ fresh[m.from] <= fresh'[m.from]
    BY <2>1, MsgParty DEF Later
  <2>3. m.dh.n \in 1..(fresh'[m.from] - 1)
    BY <2>1, <2>2 DEF SealedBy
  <2> QED BY <2>1, <2>3 DEF SealedBy, Spks
<1> QED BY <1>1 DEF MsgInv, Mail, SealedOnce

\* The stored sessions, when at most that of p is replaced.
LEMMA StoredStep ==
    ASSUME MsgInv, UNCHANGED offered, Later, NEW p \in Party,
           \A q \in Party : q # p => sess'[q] = sess[q] /\ Keys(q)' \subseteq Keys(q),
           \/ sess'[p] = sess[p] /\ Keys(p)' \subseteq Keys(p)
           \/ GoodNow(p, sess[p])'
    PROVE  Stored'
<1> SUFFICES ASSUME NEW q \in Party
             PROVE  IF sess'[q] = None THEN Keys(q)' = {} ELSE GoodNow(q, sess[q])'
  BY DEF Stored
<1>1. CASE sess'[q] = sess[q] /\ Keys(q)' \subseteq Keys(q)
  <2>1. CASE sess[q] = None
    <3>1. Keys(q) = {}
      BY <2>1 DEF MsgInv, Stored
    <3> QED BY <1>1, <2>1, <3>1
  <2>2. CASE sess[q] # None
    <3>1. PICK s : s = sess[q]
      OBVIOUS
    <3>2. GoodNow(q, s)
      BY <2>2, <3>1 DEF MsgInv, Stored
    <3>3. fresh'[q] \in Nat /\ fresh[q] <= fresh'[q]
      BY DEF Later
    <3>4. GoodNow(q, s)'
      BY <1>1, <3>2, <3>3, GoodStays
    <3>5. s = sess'[q]
      BY <1>1, <3>1
    <3> QED BY <1>1, <2>2, <3>4, <3>5 DEF GoodNow
  <2> QED BY <2>1, <2>2
<1>2. CASE q = p /\ GoodNow(p, sess[p])'
  <2>1. PICK s : s = sess'[p]
    OBVIOUS
  <2>2. GoodNow(p, s)'
    BY <1>2, <2>1 DEF GoodNow
  <2>3. s # None
    BY <2>2, NoneAssumption DEF GoodNow, Good, KeysInv
  <2> QED BY <1>2, <2>1, <2>3
<1> QED BY <1>1, <1>2

-----------------------------------------------------------------------------
(* What a step of one operation does to the others *)

\* The UI and the frames.
LEMMA Slots ==
    /\ "ui" \in Slot /\ "ui" \notin Frame /\ Frame \subseteq Slot
    /\ \A i \in Slot : i = "ui" \/ i \in Frame
  BY MessagingAssumption DEF Slot

\* Only the operation in slot i of p goes on.
OnlySlot(p, i) ==
    \A q \in Party, j \in Slot : q # p \/ j # i => task'[q][j] = task[q][j]

LEMMA OneSlot ==
    ASSUME TaskTypes, NEW p \in Party, NEW i \in Slot, NEW t, Becomes(p, i, t)
    PROVE  /\ task'[p][i] = t /\ OnlySlot(p, i)
           /\ t \in Tasks /\ t.at \in (IF i = "ui" THEN UiAt ELSE FrameAt)
                /\ sends' \in [Party -> Nat] => TaskTypes'
<1>1. task \in [Party -> [Slot -> Tasks]] /\ task' = [task EXCEPT ![p][i] = t]
  BY DEF TaskTypes, Becomes
<1>2. PICK r : r = [task[p] EXCEPT ![i] = t]
  OBVIOUS
<1>3. task' = [task EXCEPT ![p] = r]
  BY <1>1, <1>2
<1>4. task[p] \in [Slot -> Tasks] /\ r[i] = t /\ \A j \in Slot : j # i => r[j] = task[p][j]
  BY <1>1, <1>2
<1>5. task'[p] = r /\ \A q \in Party : q # p => task'[q] = task[q]
  BY <1>1, <1>3
<1>6. task'[p][i] = t /\ OnlySlot(p, i)
  BY <1>4, <1>5 DEF OnlySlot
<1>7. ASSUME t \in Tasks, t.at \in (IF i = "ui" THEN UiAt ELSE FrameAt), sends' \in [Party -> Nat]
      PROVE  TaskTypes'
  <2>1. r \in [Slot -> Tasks]
    BY <1>2, <1>4, <1>7
  <2>2. task' \in [Party -> [Slot -> Tasks]]
    BY <1>1, <1>3, <2>1
  <2>3. ASSUME NEW q \in Party, NEW j \in Slot
        PROVE  task'[q][j].at \in IF j = "ui" THEN UiAt ELSE FrameAt
    <3>1. CASE q = p /\ j = i
      BY <1>6, <1>7, <3>1
    <3>2. CASE q # p \/ j # i
      BY <1>6, <3>2 DEF OnlySlot, TaskTypes
    <3> QED BY <3>1, <3>2
  <2> QED BY <1>7, <2>2, <2>3 DEF TaskTypes
<1> QED BY <1>6, <1>7

\* The UI is on the session only while no frame is handled.
LEMMA AloneStep ==
    ASSUME MsgInv, NEW p \in Party, NEW i \in Slot, OnlySlot(p, i),
           i = "ui" => \/ task'[p][i].at \notin {"import", "seal", "record"}
                       \/ \A j \in Frame : task[p][j].at = "idle",
           i \in Frame => \/ task'[p][i].at = "idle"
                          \/ task[p]["ui"].at \notin {"import", "seal", "record"}
    PROVE  Alone'
<1> SUFFICES ASSUME NEW q \in Party, task'[q]["ui"].at \in {"import", "seal", "record"},
                    NEW j \in Frame
             PROVE  task'[q][j].at = "idle"
  BY DEF Alone
<1>0. j \in Slot /\ "ui" \in Slot /\ j # "ui" /\ (i = "ui" \/ i \in Frame)
  BY Slots
<1>a. ASSUME task[q]["ui"].at \in {"import", "seal", "record"} PROVE task[q][j].at = "idle"
  BY <1>a DEF MsgInv, Alone
<1>1. CASE q # p
  BY <1>0, <1>1, <1>a DEF OnlySlot
<1>2. CASE q = p /\ i = "ui"
  BY <1>0, <1>2, <1>a DEF OnlySlot
<1>3. CASE q = p /\ i \in Frame
  BY <1>0, <1>3, <1>a DEF OnlySlot
<1> QED BY <1>0, <1>1, <1>2, <1>3

\* A message that goes back to the mailbox, or is recorded, is that of the step.
LEMMA HeldStep ==
    ASSUME MsgInv, NEW p \in Party, NEW i \in Slot, OnlySlot(p, i), Holding(p, i)',
           sealed \subseteq sealed', opened \subseteq opened',
           \A m \in sealed \ Sent : m \in Sent' =>
               task[p][i].at \in Working /\ m = task[p][i].msg,
           \A q \in Party : \A m \in opened \ recorded[q] : m \in recorded'[q] =>
               q = p /\ task[p][i].at \in Working /\ m = task[p][i].msg
    PROVE  HeldOK'
<1> SUFFICES ASSUME NEW q \in Party, NEW j \in Slot PROVE Holding(q, j)'
  BY DEF HeldOK
<1>1. CASE q = p /\ j = i
  BY <1>1
<1>2. CASE q # p \/ j # i
  <2>1. task'[q][j] = task[q][j]
    BY <1>2 DEF OnlySlot
  <2>2. Holding(q, j)
    BY DEF MsgInv, HeldOK
  <2>3. ASSUME task[q][j].at \in Working, task[p][i].at \in Working PROVE task[q][j].msg # task[p][i].msg
    BY <1>2, <2>3 DEF MsgInv, HeldOnce, SameMessage
  <2>4. Waiting \subseteq Working /\ "keep" \in Working
    BY DEF Working
  <2>5. ASSUME task[q][j].at \in Waiting PROVE task[q][j].msg \in sealed' \ Sent'
    BY <2>2, <2>3, <2>4, <2>5 DEF Holding
  <2>6. ASSUME task[q][j].at = "keep" PROVE task[q][j].msg \in opened' \ recorded'[q]
    BY <2>2, <2>3, <2>4, <2>6 DEF Holding
  <2> QED BY <2>1, <2>2, <2>5, <2>6 DEF Holding, Sender
<1> QED BY <1>1, <1>2

\* No two operations have one message.
LEMMA HeldOnceStep ==
    ASSUME MsgInv, NEW p \in Party, NEW i \in Slot, OnlySlot(p, i), NEW t, t = task'[p][i],
           \/ t.at \notin Working
           \/ task[p][i].at \in Working /\ t.msg = task[p][i].msg
           \/ \A q \in Party, j \in Slot : task[q][j].at \in Working => task[q][j].msg # t.msg
    PROVE  HeldOnce'
<1> SUFFICES ASSUME NEW q \in Party, NEW r \in Party, NEW j \in Slot, NEW k \in Slot,
                    SameMessage(q, j, r, k)'
             PROVE  q = r /\ j = k
  BY DEF HeldOnce
<1>1. \A a, b \in Party : \A x, y \in Slot : SameMessage(a, x, b, y) => a = b /\ x = y
  BY DEF MsgInv, HeldOnce
<1>2. CASE (q # p \/ j # i) /\ (r # p \/ k # i)
  <2>1. SameMessage(q, j, r, k)
    BY <1>2 DEF SameMessage, OnlySlot
  <2> QED BY <1>1, <2>1
<1>3. CASE q = p /\ j = i /\ (r # p \/ k # i)
  <2>1. t.at \in Working /\ task[r][k].at \in Working /\ t.msg = task[r][k].msg
    BY <1>3 DEF SameMessage, OnlySlot
  <2>2. SameMessage(p, i, r, k)
    BY <2>1 DEF SameMessage
  <2> QED BY <1>1, <1>3, <2>2
<1>4. CASE (q # p \/ j # i) /\ r = p /\ k = i
  <2>1. t.at \in Working /\ task[q][j].at \in Working /\ t.msg = task[q][j].msg
    BY <1>4 DEF SameMessage, OnlySlot
  <2>2. SameMessage(p, i, q, j)
    BY <2>1 DEF SameMessage
  <2> QED BY <1>1, <1>4, <2>2
<1> QED BY <1>2, <1>3, <1>4

\* Copies stay good while no more keys of their session are used.
LEMMA CopiesStep ==
    ASSUME MsgInv, NEW p \in Party, NEW i \in Slot, OnlySlot(p, i), CopyOK(p, i)',
           UNCHANGED offered, Later,
           \A q \in Party, j \in Slot :
               (q # p \/ j # i) /\ task[q][j].at \in {"answer", "answered", "decrypt"}
                   => Keys(q)' \subseteq Keys(q),
           \A q \in Party, j \in Slot :
               (q # p \/ j # i) /\ task[q][j].at = "seal" => sess'[q] = sess[q]
    PROVE  Copies'
<1> SUFFICES ASSUME NEW q \in Party, NEW j \in Slot, q # p \/ j # i PROVE CopyOK(q, j)'
  BY DEF Copies
<1>1. PICK t : t = task[q][j]
  OBVIOUS
<1>2. task'[q][j] = t
  BY <1>1 DEF OnlySlot
<1>3. /\ t.at = "import" => t.copy \in offered[Peer(q)]
      /\ t.at = "seal" => t.copy = sess[q]
      /\ t.at = "answer" => Keys(q) = {}
      /\ t.at \in {"answered", "decrypt"} => GoodNow(q, t.copy)
  BY <1>1 DEF MsgInv, Copies, CopyOK
<1>4. ASSUME t.at = "import" PROVE t.copy \in offered'[Peer(q)]
  BY <1>3, <1>4
<1>5. ASSUME t.at = "seal" PROVE t.copy = sess'[q]
  BY <1>1, <1>3, <1>5
<1>6. ASSUME t.at = "answer" PROVE Keys(q)' = {}
  BY <1>1, <1>3, <1>6
<1>7. ASSUME t.at \in {"answered", "decrypt"} PROVE GoodNow(q, t.copy)'
  <2>1. PICK c : c = t.copy
    OBVIOUS
  <2>2. GoodNow(q, c)
    BY <1>3, <1>7, <2>1
  <2>3. Keys(q)' \subseteq Keys(q)
    BY <1>1, <1>7
  <2>4. fresh'[q] \in Nat /\ fresh[q] <= fresh'[q]
    BY DEF Later
  <2>5. GoodNow(q, c)'
    BY <2>2, <2>3, <2>4, GoodStays
  <2> QED BY <2>1, <2>5
<1> QED BY <1>2, <1>4, <1>5, <1>6, <1>7 DEF CopyOK, GoodNow

-----------------------------------------------------------------------------
(* Steps that change neither sessions nor keys nor messages *)

LEMMA StoresSame ==
    ASSUME MsgInv, UNCHANGED <<sess, stores, fresh, sealed, net, opened, failed, refused>>
    PROVE  /\ Offers' /\ Mail' /\ Stored' /\ Later /\ UNCHANGED <<sess, offered, sealed, opened>>
           /\ Sent' = Sent /\ \A q : Keys(q)' = Keys(q)
<1>1. UNCHANGED <<sess, spk, opk, offered, fresh, sealed, net, opened, failed, refused>>
  BY DEF stores
<1>2. Sent' = Sent /\ \A q : Keys(q)' = Keys(q)
  BY <1>1, KeysSame DEF Sent
<1>3. Later
  BY <1>1, MsgParty DEF Later, MsgInv, StoreTypes
<1>4. Mail'
  BY <1>1, <1>2, <1>3, MailKept DEF MsgInv, Mail
<1>5. Offers'
  BY <1>1 DEF MsgInv, Offers
<1>6. Stored'
  BY <1>1, <1>2 DEF MsgInv, Stored, GoodNow, Spks
<1> QED BY <1>1, <1>2, <1>3, <1>4, <1>5, <1>6

LEMMA QuietStep ==
    ASSUME MsgInv, NEW p \in Party, NEW i \in Slot, NEW t \in Tasks, Becomes(p, i, t),
           UNCHANGED <<sess, stores, fresh, sealed, net, opened, failed, refused>>,
           StoreTypes', sends' \in [Party -> Nat],
           t.at \in IF i = "ui" THEN UiAt ELSE FrameAt,
           i = "ui" => \/ t.at \notin {"import", "seal", "record"}
                       \/ \A j \in Frame : task[p][j].at = "idle",
           i \in Frame => \/ t.at = "idle"
                          \/ task[p]["ui"].at \notin {"import", "seal", "record"},
           t.at \in Working =>
               t.at \in Waiting /\ task[p][i].at \in Waiting /\ t.msg = task[p][i].msg,
           \A q \in Party : \A m \in opened \ recorded[q] : m \in recorded'[q] =>
               q = p /\ task[p][i].at \in Working /\ m = task[p][i].msg,
           CopyOK(p, i)'
    PROVE  MsgInv'
<1>1. /\ Offers' /\ Mail' /\ Stored' /\ Later /\ UNCHANGED <<sess, offered, sealed, opened>>
      /\ Sent' = Sent /\ \A q : Keys(q)' = Keys(q)
  BY StoresSame
<1>2. task'[p][i] = t /\ OnlySlot(p, i) /\ TaskTypes'
  BY OneSlot DEF MsgInv
<1>3. Alone'
  BY <1>2, AloneStep
<1>4. Holding(p, i)'
  <2>1. Holding(p, i)
    BY DEF MsgInv, HeldOK
  <2>2. "keep" \in Working /\ "keep" \notin Waiting /\ Waiting \subseteq Working
    BY DEF Working, Waiting
  <2> QED BY <1>1, <1>2, <2>1, <2>2 DEF Holding, Sender
<1>5. HeldOK'
  BY <1>1, <1>2, <1>4, HeldStep
<1>6. HeldOnce'
  BY <1>2, HeldOnceStep DEF Working
<1>7. Copies'
  BY <1>1, <1>2, CopiesStep
<1> QED BY <1>1, <1>2, <1>3, <1>5, <1>6, <1>7 DEF MsgInv

\* The state of an operation.
LEMMA TaskFacts ==
    ASSUME MsgInv, NEW p \in Party, NEW i \in Slot
    PROVE  /\ task[p][i] \in Tasks /\ task[p][i].at \in (IF i = "ui" THEN UiAt ELSE FrameAt)
           /\ Idle \in Tasks /\ Idle.at = "idle" /\ sends \in [Party -> Nat]
           /\ Quiet(p) => \A j \in Frame : task[p][j].at = "idle"
           /\ task[p]["ui"].at \in {"import", "seal", "record"} =>
                  \A j \in Frame : task[p][j].at = "idle"
<1>1. /\ task[p][i] \in Tasks /\ task[p][i].at \in (IF i = "ui" THEN UiAt ELSE FrameAt)
      /\ sends \in [Party -> Nat]
  BY DEF MsgInv, TaskTypes
<1>2. Idle \in Tasks /\ Idle.at = "idle"
  BY DEF Idle, Tasks, UiAt
<1>3. ASSUME Quiet(p), NEW j \in Frame PROVE task[p][j].at = "idle"
  <2>1. j \in Slot /\ j # "ui"
    BY Slots
  <2>2. task[p][j].at \in FrameAt
    BY <2>1 DEF MsgInv, TaskTypes
  <2>3. task[p][j].at \in {"idle", "post"}
    BY <1>3, <2>1 DEF Quiet
  <2> QED BY <2>2, <2>3 DEF FrameAt
<1>4. task[p]["ui"].at \in {"import", "seal", "record"} => \A j \in Frame : task[p][j].at = "idle"
  BY DEF MsgInv, Alone
<1> QED BY <1>1, <1>2, <1>3, <1>4

\* A contact's row is saved.
LEMMA ImportContactInv ==
    ASSUME MsgInv, NEW p \in Party, ImportContact(p)
    PROVE  MsgInv'
<1>1. PICK b \in offered[Peer(p)] : Becomes(p, "ui", [Idle EXCEPT !.at = "import", !.copy = b])
  BY DEF ImportContact
<1>2. PICK t : t = [Idle EXCEPT !.at = "import", !.copy = b]
  OBVIOUS
<1>3. b \in Bundles
  BY MsgParty
<1>4. "ui" \in Slot
  BY Slots
<1>5. t \in Tasks /\ t.at = "import" /\ t.copy = b
  BY <1>2, <1>3 DEF Idle, Tasks, UiAt
<1>6. StoreTypes'
  <2>1. UNCHANGED <<sess, spk, opk, offered, fresh, opened, recorded>>
    BY DEF ImportContact, stores
  <2>2. contacts' \in [Party -> SUBSET Addresses]
    <3>1. contacts \in [Party -> SUBSET Addresses]
      BY DEF MsgInv, StoreTypes
    <3> QED BY <3>1 DEF ImportContact, Addresses
  <2> QED BY <2>1, <2>2 DEF MsgInv, StoreTypes
<1>7. \A j \in Frame : task[p][j].at = "idle"
  BY <1>4, TaskFacts DEF ImportContact
<1>8. CopyOK(p, "ui")'
  <2>1. task'[p]["ui"] = t
    BY <1>1, <1>2, <1>4, OneSlot DEF MsgInv
  <2> QED BY <1>5, <2>1 DEF CopyOK, ImportContact, stores
<1>9. /\ UNCHANGED <<sess, stores, fresh, sealed, net, opened, failed, refused, recorded, sends>>
      /\ sends' \in [Party -> Nat]
  BY <1>4, TaskFacts DEF ImportContact
<1>10. t.at \in UiAt /\ t.at \notin Working
  BY <1>5 DEF UiAt, Working, Waiting
<1>11. "ui" \notin Frame /\ Becomes(p, "ui", t)
  BY <1>1, <1>2, Slots
<1> QED BY <1>4, <1>5, <1>6, <1>7, <1>8, <1>9, <1>10, <1>11, QuietStep

\* A send begins and reads the session.
LEMMA SendBeginInv ==
    ASSUME MsgInv, NEW p \in Party, SendBegin(p)
    PROVE  MsgInv'
<1>1. PICK to \in contacts[p] :
        Becomes(p, "ui", [Idle EXCEPT !.at = "seal", !.copy = sess[p], !.n = sends[p], !.to = to])
  BY DEF SendBegin
<1>2. PICK t : t = [Idle EXCEPT !.at = "seal", !.copy = sess[p], !.n = sends[p], !.to = to]
  OBVIOUS
<1>3. /\ sess[p] \in Sessions \cup {None} /\ to \in Addresses
      /\ sends \in [Party -> Nat] /\ sends[p] \in Nat
  BY DEF MsgInv, StoreTypes, TaskTypes
<1>4. "ui" \in Slot /\ "ui" \notin Frame
  BY Slots
<1>5. t \in Tasks /\ t.at = "seal" /\ t.copy = sess[p]
  BY <1>2, <1>3 DEF Idle, Tasks, UiAt
<1>6. StoreTypes'
  BY DEF SendBegin, stores, MsgInv, StoreTypes
<1>7. \A j \in Frame : task[p][j].at = "idle"
  BY <1>4, TaskFacts DEF SendBegin
<1>8. CopyOK(p, "ui")'
  <2>1. task'[p]["ui"] = t
    BY <1>1, <1>2, <1>4, OneSlot DEF MsgInv
  <2> QED BY <1>5, <2>1 DEF CopyOK, SendBegin
<1>9. /\ UNCHANGED <<sess, stores, fresh, sealed, net, opened, failed, refused, recorded>>
      /\ sends' \in [Party -> Nat]
  BY <1>3 DEF SendBegin
<1>10. t.at \in UiAt /\ t.at \notin Working
  BY <1>5 DEF UiAt, Working, Waiting
<1>11. Becomes(p, "ui", t)
  BY <1>1, <1>2
<1> QED BY <1>4, <1>5, <1>6, <1>7, <1>8, <1>9, <1>10, <1>11, QuietStep

\* A send without a session ends, and so does a send that is recorded.
LEMMA SendEndsInv ==
    ASSUME MsgInv, NEW p \in Party, SendNoSession(p) \/ SendRecord(p)
    PROVE  MsgInv'
<1>1. PICK t : t = IF SendNoSession(p) THEN [task[p]["ui"] EXCEPT !.at = "record"] ELSE Idle
  OBVIOUS
<1>2. Becomes(p, "ui", t) /\ task[p]["ui"].at \in {"seal", "record"}
  BY <1>1 DEF SendNoSession, SendRecord, Running
<1>3. "ui" \in Slot /\ "ui" \notin Frame
  BY Slots
<1>4. t \in Tasks /\ t.at \in {"idle", "record"}
  <2>1. task[p]["ui"] \in Tasks /\ Idle \in Tasks /\ Idle.at = "idle"
    BY <1>3, TaskFacts
  <2> QED BY <1>1, <2>1 DEF Tasks, UiAt
<1>5. UNCHANGED <<sess, spk, opk, offered, fresh, contacts, recorded, sends, sealed, net, opened,
                  failed, refused>>
  BY DEF SendNoSession, SendRecord, vars, stores, counts
<1>6. StoreTypes'
  BY <1>5 DEF MsgInv, StoreTypes
<1>7. \A j \in Frame : task[p][j].at = "idle"
  BY <1>2, <1>3, TaskFacts
<1>8. CopyOK(p, "ui")'
  <2>1. task'[p]["ui"] = t
    BY <1>2, <1>3, OneSlot DEF MsgInv
  <2> QED BY <1>4, <2>1 DEF CopyOK
<1>9. /\ UNCHANGED <<sess, stores, fresh, sealed, net, opened, failed, refused, recorded>>
      /\ sends' \in [Party -> Nat]
  BY <1>3, <1>5, TaskFacts DEF stores
<1>10. t.at \in UiAt /\ t.at \notin Working
  BY <1>4 DEF UiAt, Working, Waiting
<1> QED BY <1>2, <1>3, <1>4, <1>6, <1>7, <1>8, <1>9, <1>10, QuietStep

\* A handler reads the session.
LEMMA ReceiveReadInv ==
    ASSUME MsgInv, NEW p \in Party, NEW i \in Frame, ReceiveRead(p, i)
    PROVE  MsgInv'
<1>1. PICK at : at = IF sess[p] = None THEN "answer" ELSE "decrypt"
  OBVIOUS
<1>2. PICK t : t = [task[p][i] EXCEPT !.copy = sess[p], !.at = at]
  OBVIOUS
<1>3. Becomes(p, i, t) /\ task[p][i].at = "read"
  BY <1>1, <1>2 DEF ReceiveRead, Running
<1>4. i \in Slot /\ i # "ui"
  BY Slots
<1>5. /\ t \in Tasks /\ t.at = at /\ t.copy = sess[p] /\ t.msg = task[p][i].msg
      /\ at \in FrameAt /\ at \in Waiting
  <2>1. task[p][i] \in Tasks /\ sess[p] \in Sessions \cup {None}
    BY <1>4, TaskFacts DEF MsgInv, StoreTypes
  <2> QED BY <1>1, <1>2, <2>1 DEF Tasks, UiAt, FrameAt, Waiting
<1>6. UNCHANGED <<sess, spk, opk, offered, fresh, contacts, recorded, sends, sealed, net, opened,
                  failed, refused>>
  BY DEF ReceiveRead, vars, stores, counts
<1>7. StoreTypes'
  BY <1>6 DEF MsgInv, StoreTypes
<1>8. task[p]["ui"].at \notin {"import", "seal", "record"}
  BY <1>3, <1>4, TaskFacts
<1>9. CopyOK(p, i)'
  <2>1. task'[p][i] = t
    BY <1>3, <1>4, OneSlot DEF MsgInv
  <2>2. \A q : Keys(q)' = Keys(q)
    BY <1>6, KeysSame
  <2>3. CASE sess[p] = None
    <3>1. Keys(p)' = {}
      BY <2>2, <2>3 DEF MsgInv, Stored
    <3> QED BY <1>1, <1>5, <2>1, <2>3, <3>1 DEF CopyOK
  <2>4. CASE sess[p] # None
    <3>1. GoodNow(p, sess[p])
      BY <2>4 DEF MsgInv, Stored
    <3>2. GoodNow(p, sess[p])'
      BY <1>6, <2>2, <3>1 DEF GoodNow, Spks
    <3> QED BY <1>1, <1>5, <1>6, <2>1, <2>4, <3>2 DEF CopyOK, GoodNow
  <2> QED BY <2>3, <2>4
<1>10. /\ UNCHANGED <<sess, stores, fresh, sealed, net, opened, failed, refused, recorded>>
       /\ sends' \in [Party -> Nat]
  BY <1>4, <1>6, TaskFacts DEF stores
<1>11. task[p][i].at \in Waiting
  BY <1>3 DEF Waiting
<1> QED BY <1>3, <1>4, <1>5, <1>7, <1>8, <1>9, <1>10, <1>11, QuietStep

\* A message is recorded.
LEMMA ReceiveRecordInv ==
    ASSUME MsgInv, NEW p \in Party, NEW i \in Frame, ReceiveRecord(p, i)
    PROVE  MsgInv'
<1>1. Becomes(p, i, Idle) /\ task[p][i].at = "keep"
  BY DEF ReceiveRecord, Running
<1>2. i \in Slot /\ i # "ui" /\ Idle \in Tasks /\ Idle.at = "idle"
  BY Slots, TaskFacts
<1>3. UNCHANGED <<sess, spk, opk, offered, fresh, contacts, sends, sealed, net, opened, failed,
                  refused>>
  BY DEF ReceiveRecord, vars, stores, counts
<1>4. PICK m : m = task[p][i].msg
  OBVIOUS
<1>5. m \in opened
  BY <1>1, <1>2, <1>4 DEF MsgInv, HeldOK, Holding
<1>6. PICK R : R = IF contacts[p] = {} THEN recorded[p] ELSE recorded[p] \cup {m}
  OBVIOUS
<1>7. recorded \in [Party -> SUBSET opened]
  BY DEF MsgInv, StoreTypes
<1>8. recorded' = [recorded EXCEPT ![p] = R]
  BY <1>4, <1>6, <1>7 DEF ReceiveRecord
<1>9. R \subseteq opened /\ R \subseteq recorded[p] \cup {m}
  BY <1>5, <1>6, <1>7
<1>10. recorded' \in [Party -> SUBSET opened']
  BY <1>3, <1>7, <1>8, <1>9
<1>11. StoreTypes'
  BY <1>3, <1>10 DEF MsgInv, StoreTypes
<1>12. CopyOK(p, i)'
  <2>1. task'[p][i] = Idle
    BY <1>1, <1>2, OneSlot DEF MsgInv
  <2> QED BY <1>2, <2>1 DEF CopyOK
<1>13. UNCHANGED <<sess, stores, fresh, sealed, net, opened, failed, refused>> /\ sends' \in [Party -> Nat]
  BY <1>2, <1>3, TaskFacts DEF stores
<1>14. \A q \in Party : \A x \in opened \ recorded[q] : x \in recorded'[q] =>
           q = p /\ task[p][i].at \in Working /\ x = task[p][i].msg
  BY <1>1, <1>4, <1>7, <1>8, <1>9 DEF Working
<1>15. "idle" \in FrameAt /\ "idle" \notin Working
  BY DEF FrameAt, Working, Waiting
<1> QED BY <1>1, <1>2, <1>11, <1>12, <1>13, <1>14, <1>15, QuietStep

-----------------------------------------------------------------------------
(* Steps that move messages or make keys *)

\* Key pairs stay numbered where nothing is made.
LEMMA LaterSame ==
    ASSUME MsgInv, UNCHANGED fresh
    PROVE  Later
  BY MsgParty DEF Later, MsgInv, StoreTypes

\* One party numbers one more.
LEMMA LaterOne ==
    ASSUME MsgInv, NEW p \in Party, NEW g \in Nat, fresh[p] <= g,
           fresh' = [fresh EXCEPT ![p] = g]
    PROVE  Later /\ fresh'[p] = g /\ \A q \in Party : q # p => fresh'[q] = fresh[q]
<1>1. fresh \in [Party -> Nat \ {0}]
  BY DEF MsgInv, StoreTypes
<1>2. fresh[p] \in Nat \ {0}
  BY <1>1
<1>3. g \in Nat \ {0}
  BY <1>2
<1> QED BY <1>1, <1>3 DEF Later

\* Bundles on offer stay numbered.
LEMMA OffersKept ==
    ASSUME MsgInv, Later, UNCHANGED offered
    PROVE  Offers'
<1> SUFFICES ASSUME NEW q \in Party, NEW b \in offered[q]
             PROVE  b.spk.of = q /\ b.spk.n < fresh'[q] /\ b.otk.of = q
  BY DEF Offers
<1>1. /\ b.spk.of = q /\ b.otk.of = q /\ b.spk.n \in Nat /\ b.spk.n < fresh[q]
      /\ fresh[q] \in Nat
  BY MsgParty
<1>2. fresh'[q] \in Nat /\ fresh[q] <= fresh'[q]
  BY DEF Later
<1> QED BY <1>1, <1>2

\* The message of an operation under way.
LEMMA HeldFacts ==
    ASSUME MsgInv, NEW p \in Party, NEW i \in Slot, task[p][i].at \in Waiting,
           NEW m, m = task[p][i].msg
    PROVE  /\ m \in sealed \ Sent /\ m \in Envelopes /\ m.from = Sender(p, i) /\ m.from \in Party
           /\ m.dh \in KeyPairs /\ m.dh.of = m.from /\ m.dh.n \in Nat \ {0}
           /\ m.dh \notin Spks(m.from)
<1>1. Waiting \subseteq Working
  BY DEF Working
<1>2. m \in sealed \ Sent /\ m.from = Sender(p, i)
  BY <1>1 DEF MsgInv, HeldOK, Holding
<1>3. m \in Envelopes /\ SealedBy(m)
  BY <1>2 DEF MsgInv, Mail
<1>4. m.from \in Party /\ m.dh \in KeyPairs /\ m.dh.n \in Nat
  BY <1>3 DEF Envelopes, KeyPairs
<1>5. m.dh.n # 0
  BY <1>3 DEF SealedBy
<1> QED BY <1>2, <1>3, <1>4, <1>5 DEF SealedBy

\* The relay has taken a message, or not.
LEMMA SendPostInv ==
    ASSUME MsgInv, NEW p \in Party, SendPost(p)
    PROVE  MsgInv'
<1>1. PICK m : m = task[p]["ui"].msg
  OBVIOUS
<1>2. PICK t : t = [task[p]["ui"] EXCEPT !.at = "record"]
  OBVIOUS
<1>3. /\ Becomes(p, "ui", t) /\ task[p]["ui"].at = "post" /\ Quiet(p)
      /\ net' = net \/ net' = net \cup {m}
      /\ UNCHANGED <<sess, spk, opk, offered, fresh, contacts, recorded, sends, sealed, opened,
                     failed, refused>>
  BY <1>1, <1>2 DEF SendPost, Running, stores, counts
<1>4. "ui" \in Slot /\ "ui" \notin Frame
  BY Slots
<1>5. m \in sealed \ Sent
  BY <1>1, <1>3, <1>4, HeldFacts DEF Waiting
<1>6. t \in Tasks /\ t.at = "record"
  <2>1. task[p]["ui"] \in Tasks
    BY <1>4, TaskFacts
  <2> QED BY <1>2, <2>1 DEF Tasks, UiAt
<1>7. /\ Sent' \subseteq Sent \cup {m} /\ Sent \subseteq sealed
      /\ (net \cap (opened \cup failed \cup refused) = {})'
  BY <1>3, <1>5 DEF Sent, MsgInv, Mail
<1>8. Later /\ \A q : Keys(q)' = Keys(q)
  BY <1>3, LaterSame, KeysSame
<1>9. StoreTypes'
  BY <1>3 DEF MsgInv, StoreTypes
<1>10. Offers'
  BY <1>3, <1>8, OffersKept
<1>11. Mail'
  BY <1>3, <1>5, <1>7, <1>8, MailKept
<1>12. Stored'
  BY <1>3, <1>8, StoredStep
<1>13. task'[p]["ui"] = t /\ OnlySlot(p, "ui") /\ TaskTypes'
  BY <1>3, <1>4, <1>6, OneSlot DEF MsgInv, TaskTypes, UiAt
<1>14. Alone'
  BY <1>3, <1>4, <1>13, AloneStep, TaskFacts
<1>15. t.at \notin Working
  BY <1>6 DEF Working, Waiting
<1>16. HeldOK'
  <2>1. Holding(p, "ui")'
    BY <1>6, <1>13, <1>15 DEF Holding, Working
  <2>2. "post" \in Working
    BY DEF Working, Waiting
  <2> QED BY <1>1, <1>3, <1>4, <1>7, <1>13, <2>1, <2>2, HeldStep
<1>17. HeldOnce'
  BY <1>4, <1>13, <1>15, HeldOnceStep
<1>18. Copies'
  <2>1. CopyOK(p, "ui")'
    BY <1>6, <1>13 DEF CopyOK
  <2> QED BY <1>3, <1>4, <1>8, <1>13, <2>1, CopiesStep
<1> QED BY <1>9, <1>10, <1>11, <1>12, <1>13, <1>14, <1>16, <1>17, <1>18 DEF MsgInv

\* A message arrives.
LEMMA ReceiveBeginInv ==
    ASSUME MsgInv, NEW p \in Party, NEW i \in Frame, NEW m \in net, ReceiveBegin(p, i, m)
    PROVE  MsgInv'
<1>1. PICK t : t = [Idle EXCEPT !.at = "read", !.msg = m]
  OBVIOUS
<1>2. /\ Becomes(p, i, t) /\ InChunk(p) /\ m.from = Peer(p) /\ net' = net \ {m}
      /\ UNCHANGED <<sess, spk, opk, offered, fresh, recorded, sends, sealed, opened, failed,
                     refused>>
  BY <1>1 DEF ReceiveBegin, Arrives, Deliverable, stores, counts
<1>3. i \in Slot /\ i # "ui" /\ "ui" \in Slot
  BY Slots
<1>4. m \in sealed /\ m \in Envelopes /\ m \in Sent
  BY DEF MsgInv, Mail, Sent
<1>5. t \in Tasks /\ t.at = "read" /\ t.msg = m
  BY <1>1, <1>4 DEF Idle, Tasks, FrameAt
<1>6. /\ Sent' = Sent \ {m} /\ Sent \subseteq sealed
      /\ (net \cap (opened \cup failed \cup refused) = {})'
  BY <1>2 DEF Sent, MsgInv, Mail
<1>7. Later /\ \A q : Keys(q)' = Keys(q)
  BY <1>2, LaterSame, KeysSame
<1>8. StoreTypes'
  <2>1. contacts' \in [Party -> SUBSET Addresses]
    <3>1. contacts \in [Party -> SUBSET Addresses]
      BY DEF MsgInv, StoreTypes
    <3> QED BY <3>1 DEF ReceiveBegin, Addresses
  <2> QED BY <1>2, <2>1 DEF MsgInv, StoreTypes
<1>9. Offers'
  BY <1>2, <1>7, OffersKept
<1>10. Mail'
  BY <1>2, <1>6, <1>7, MailKept
<1>11. Stored'
  BY <1>2, <1>7, StoredStep
<1>12. task'[p][i] = t /\ OnlySlot(p, i) /\ TaskTypes'
  <2>1. sends' \in [Party -> Nat] /\ t.at \in FrameAt
    BY <1>2, <1>3, <1>5, TaskFacts DEF FrameAt
  <2> QED BY <1>2, <1>3, <1>5, <2>1, OneSlot DEF MsgInv
<1>13. Alone'
  <2>1. task[p]["ui"].at \in {"idle", "post", "read"}
    BY <1>2, <1>3 DEF InChunk
  <2> QED BY <1>3, <1>12, <2>1, AloneStep
<1>14. Holding(p, i)'
  BY <1>2, <1>3, <1>4, <1>5, <1>6, <1>12 DEF Holding, Sender
<1>15. HeldOK'
  BY <1>2, <1>3, <1>6, <1>12, <1>14, HeldStep
<1>16. HeldOnce'
  <2>1. ASSUME NEW q \in Party, NEW j \in Slot, task[q][j].at \in Working
        PROVE  task[q][j].msg # t.msg
    <3>1. Holding(q, j)
      BY DEF MsgInv, HeldOK
    <3>2. m \notin opened
      BY DEF MsgInv, Mail
    <3> QED BY <1>4, <1>5, <2>1, <3>1, <3>2 DEF Holding, Working
  <2> QED BY <1>3, <1>12, <2>1, HeldOnceStep
<1>17. Copies'
  <2>1. CopyOK(p, i)'
    BY <1>5, <1>12 DEF CopyOK
  <2> QED BY <1>2, <1>3, <1>7, <1>12, <2>1, CopiesStep
<1> QED BY <1>8, <1>9, <1>10, <1>11, <1>12, <1>13, <1>15, <1>16, <1>17 DEF MsgInv

\* A handler at work excludes the UI's use of the session.
LEMMA BusyFrame ==
    ASSUME MsgInv, NEW p \in Party, NEW i \in Frame, task[p][i].at # "idle"
    PROVE  /\ i \in Slot /\ i # "ui" /\ "ui" \in Slot
           /\ task[p]["ui"].at \notin {"import", "seal", "record"}
           /\ task[p][i] \in Tasks /\ sends \in [Party -> Nat]
           /\ \A q \in Party, j \in Slot : task[q][j].at = "seal" => q # p
<1>1. i \in Slot /\ i # "ui" /\ "ui" \in Slot
  BY Slots
<1>2. task[p]["ui"].at \notin {"import", "seal", "record"}
  BY <1>1, TaskFacts
<1>3. task[p][i] \in Tasks /\ sends \in [Party -> Nat]
  BY <1>1, TaskFacts
<1>4. ASSUME NEW j \in Slot, task[p][j].at = "seal" PROVE FALSE
  <2>1. j # "ui"
    BY <1>2, <1>4
  <2>2. task[p][j].at \in FrameAt
    BY <2>1, TaskFacts
  <2> QED BY <1>4, <2>2 DEF FrameAt
<1> QED BY <1>1, <1>2, <1>3, <1>4

\* The session that answers is saved.
LEMMA ReceiveAnswerInv ==
    ASSUME MsgInv, NEW p \in Party, NEW i \in Frame, ReceiveAnswer(p, i)
    PROVE  MsgInv'
<1>1. PICK c : c = task[p][i].copy
  OBVIOUS
<1>2. PICK t : t = [task[p][i] EXCEPT !.at = "decrypt"]
  OBVIOUS
<1>3. /\ Becomes(p, i, t) /\ task[p][i].at = "answered" /\ sess' = [sess EXCEPT ![p] = c]
      /\ UNCHANGED <<spk, opk, offered, fresh, contacts, recorded, sends, sealed, net, opened,
                     failed, refused>>
  BY <1>1, <1>2 DEF ReceiveAnswer, Running, stores, counts
<1>4. /\ i \in Slot /\ i # "ui" /\ "ui" \in Slot
      /\ task[p]["ui"].at \notin {"import", "seal", "record"}
      /\ task[p][i] \in Tasks /\ sends \in [Party -> Nat]
      /\ \A q \in Party, j \in Slot : task[q][j].at = "seal" => q # p
  BY <1>3, BusyFrame
<1>5. GoodNow(p, c)
  BY <1>1, <1>3, <1>4 DEF MsgInv, Copies, CopyOK
<1>6. c \in Sessions
  BY <1>5, GoodSession
<1>7. t \in Tasks /\ t.at = "decrypt" /\ t.copy = c /\ t.msg = task[p][i].msg
  BY <1>1, <1>2, <1>4 DEF Tasks, FrameAt
<1>8. /\ Later /\ (\A q : Keys(q)' = Keys(q)) /\ Sent' = Sent
  BY <1>3, LaterSame, KeysSame DEF Sent
<1>9. GoodNow(p, c)'
  BY <1>3, <1>5, <1>8 DEF GoodNow, Spks
<1>10. sess \in [Party -> Sessions \cup {None}]
  BY DEF MsgInv, StoreTypes
<1>11. /\ sess' \in [Party -> Sessions \cup {None}] /\ sess'[p] = c
       /\ \A q \in Party : q # p => sess'[q] = sess[q]
  BY <1>3, <1>6, <1>10
<1>12. StoreTypes'
  BY <1>3, <1>11 DEF MsgInv, StoreTypes
<1>13. Offers'
  BY <1>3, <1>8, OffersKept
<1>14. Mail'
  BY <1>3, <1>8, MailKept DEF MsgInv, Mail
<1>15. Stored'
  <2>1. GoodNow(p, sess[p])'
    BY <1>9, <1>11 DEF GoodNow
  <2> QED BY <1>3, <1>8, <1>11, <2>1, StoredStep
<1>16. task'[p][i] = t /\ OnlySlot(p, i) /\ TaskTypes'
  BY <1>3, <1>4, <1>7, OneSlot DEF MsgInv, FrameAt
<1>17. Alone'
  BY <1>4, <1>16, AloneStep
<1>18. task[p][i].at \in Waiting /\ t.at \in Waiting /\ t.at # "keep" /\ Waiting \subseteq Working
  BY <1>3, <1>7 DEF Waiting, Working
<1>19. HeldOK'
  <2>1. Holding(p, i)
    BY <1>4 DEF MsgInv, HeldOK
  <2>2. Holding(p, i)'
    BY <1>3, <1>7, <1>8, <1>16, <1>18, <2>1 DEF Holding, Sender
  <2> QED BY <1>3, <1>4, <1>8, <1>16, <2>2, HeldStep
<1>20. HeldOnce'
  BY <1>4, <1>7, <1>16, <1>18, HeldOnceStep
<1>21. Copies'
  <2>1. CopyOK(p, i)'
    BY <1>7, <1>9, <1>16 DEF CopyOK, GoodNow
  <2> QED BY <1>3, <1>4, <1>8, <1>11, <1>16, <2>1, CopiesStep
<1> QED BY <1>12, <1>13, <1>14, <1>15, <1>16, <1>17, <1>19, <1>20, <1>21 DEF MsgInv

\* The one-time pre-key of a first message is used up.
LEMMA ReceiveTakeKeyInv ==
    ASSUME MsgInv, NEW p \in Party, NEW i \in Frame, ReceiveTakeKey(p, i)
    PROVE  MsgInv'
<1>1. PICK m : m = task[p][i].msg
  OBVIOUS
<1>2. PICK c : c = BobSession(p, m)
  OBVIOUS
<1>3. PICK t : t = [task[p][i] EXCEPT !.copy = c, !.at = "answered"]
  OBVIOUS
<1>4. PICK f \in Nat \ {0} : f = fresh[p]
  BY MsgParty
<1>5. /\ Becomes(p, i, t) /\ task[p][i].at = "answer"
      /\ opk' = [opk EXCEPT ![p] = opk[p] \ {m.otk}]
      /\ fresh' = [fresh EXCEPT ![p] = f + 1]
      /\ UNCHANGED <<sess, spk, offered, contacts, recorded, sends, sealed, net, opened, failed,
                     refused>>
  <2>1. opk \in [Party -> SUBSET KeyPairs] /\ fresh \in [Party -> Nat \ {0}]
    BY DEF MsgInv, StoreTypes
  <2> QED BY <1>1, <1>2, <1>3, <1>4, <2>1 DEF ReceiveTakeKey, Running, counts
<1>6. /\ i \in Slot /\ i # "ui" /\ "ui" \in Slot
      /\ task[p]["ui"].at \notin {"import", "seal", "record"}
      /\ task[p][i] \in Tasks /\ sends \in [Party -> Nat]
      /\ \A q \in Party, j \in Slot : task[q][j].at = "seal" => q # p
  BY <1>5, BusyFrame
<1>7. task[p][i].at \in Waiting
  BY <1>5 DEF Waiting
<1>8. m \in Envelopes /\ m.from = Peer(p) /\ m.dh.of = Peer(p) /\ m.dh.n # 0
  BY <1>1, <1>6, <1>7, HeldFacts DEF Sender
<1>9. Keys(p) = {}
  BY <1>5, <1>6 DEF MsgInv, Copies, CopyOK
<1>10. PICK A, B : A = Spks(p) /\ B = Spks(Peer(p))
  OBVIOUS
<1>11. Good(p, c, {}, f + 1, A, B) /\ c \in Sessions
  <2>1. KeyPair(p, f) \notin A
    BY <1>4, <1>10, MsgParty
  <2>2. spk[p] \in KeyPairs \cup {None} /\ opk[p] \subseteq KeyPairs
    BY MsgParty
  <2>3. fresh[p] = f
    BY <1>4
  <2> QED BY <1>2, <1>8, <2>1, <2>2, <2>3, GoodBob
<1>12. t \in Tasks /\ t.at = "answered" /\ t.copy = c /\ t.msg = task[p][i].msg
  BY <1>3, <1>6, <1>11 DEF Tasks, FrameAt
<1>13. Later /\ fresh'[p] = f + 1
  <2>1. f + 1 \in Nat /\ fresh[p] <= f + 1
    BY <1>4
  <2> QED BY <1>5, <2>1, LaterOne
<1>14. (\A q : Keys(q)' = Keys(q)) /\ Sent' = Sent
  BY <1>5, KeysSame DEF Sent
<1>15. GoodNow(p, c)'
  BY <1>5, <1>9, <1>10, <1>11, <1>13, <1>14 DEF GoodNow, Spks
<1>16. StoreTypes'
  <2>1. opk' \in [Party -> SUBSET KeyPairs]
    BY <1>5 DEF MsgInv, StoreTypes
  <2> QED BY <1>5, <1>13, <2>1 DEF MsgInv, StoreTypes, Later
<1>17. Offers'
  BY <1>5, <1>13, OffersKept
<1>18. Mail'
  BY <1>5, <1>13, <1>14, MailKept DEF MsgInv, Mail
<1>19. Stored'
  BY <1>5, <1>13, <1>14, StoredStep
<1>20. task'[p][i] = t /\ OnlySlot(p, i) /\ TaskTypes'
  BY <1>5, <1>6, <1>12, OneSlot DEF MsgInv, FrameAt
<1>21. Alone'
  BY <1>6, <1>20, AloneStep
<1>22. t.at \in Waiting /\ t.at # "keep" /\ Waiting \subseteq Working
  BY <1>12 DEF Waiting, Working
<1>23. HeldOK'
  <2>1. Holding(p, i)
    BY <1>6 DEF MsgInv, HeldOK
  <2>2. Holding(p, i)'
    BY <1>5, <1>7, <1>12, <1>14, <1>20, <1>22, <2>1 DEF Holding, Sender
  <2> QED BY <1>5, <1>6, <1>14, <1>20, <2>2, HeldStep
<1>24. HeldOnce'
  BY <1>6, <1>7, <1>12, <1>20, <1>22, HeldOnceStep
<1>25. Copies'
  <2>1. CopyOK(p, i)'
    BY <1>12, <1>15, <1>20 DEF CopyOK, GoodNow
  <2> QED BY <1>5, <1>6, <1>13, <1>14, <1>20, <2>1, CopiesStep
<1> QED BY <1>16, <1>17, <1>18, <1>19, <1>20, <1>21, <1>23, <1>24, <1>25 DEF MsgInv

\* An imported contact's session is saved.
LEMMA ImportSessionInv ==
    ASSUME MsgInv, NEW p \in Party, ImportSession(p)
    PROVE  MsgInv'
<1>1. PICK b : b = task[p]["ui"].copy
  OBVIOUS
<1>2. PICK f \in Nat \ {0} : f = fresh[p]
  BY MsgParty
<1>3. PICK c : c = AliceSession(p, KeyPair(p, f), b)
  OBVIOUS
<1>4. /\ Becomes(p, "ui", Idle) /\ task[p]["ui"].at = "import"
      /\ sess' = [sess EXCEPT ![p] = c] /\ fresh' = [fresh EXCEPT ![p] = f + 1]
      /\ UNCHANGED <<spk, opk, offered, contacts, recorded, sends, sealed, net, opened, failed,
                     refused>>
  <2>1. fresh \in [Party -> Nat \ {0}] /\ NewKey(p) = KeyPair(p, f)
    BY <1>2, MsgParty DEF MsgInv, StoreTypes
  <2> QED BY <1>1, <1>2, <1>3, <2>1 DEF ImportSession, Running, stores, counts
<1>5. "ui" \in Slot /\ "ui" \notin Frame /\ Idle \in Tasks /\ Idle.at = "idle"
  BY Slots, TaskFacts
<1>6. \A j \in Frame : task[p][j].at = "idle"
  BY <1>4, <1>5, TaskFacts
<1>7. b \in offered[Peer(p)]
  BY <1>1, <1>4, <1>5 DEF MsgInv, Copies, CopyOK
<1>8. PICK A, B, U : A = Spks(p) /\ B = Spks(Peer(p)) /\ U = Keys(p)
  OBVIOUS
<1>9. Good(p, c, U, f + 1, A, B) /\ c \in Sessions
  <2>1. PICK s : s = sess[p]
    OBVIOUS
  <2>2. KeysInv(p, s, U, f) \/ U = {}
    BY <1>2, <1>8, <2>1 DEF MsgInv, Stored, GoodNow, Good
  <2>3. /\ b \in [spk : KeyPairs, otk : KeyPairs] /\ b.spk.of = Peer(p) /\ b.otk.of = Peer(p)
        /\ b.spk \in B
    BY <1>7, <1>8, MsgParty
  <2>4. KeyPair(p, f) \notin A
    BY <1>2, <1>8, MsgParty
  <2> QED BY <1>3, <2>2, <2>3, <2>4, GoodAlice
<1>10. Later /\ fresh'[p] = f + 1
  <2>1. f + 1 \in Nat /\ fresh[p] <= f + 1
    BY <1>2
  <2> QED BY <1>4, <2>1, LaterOne
<1>11. (\A q : Keys(q)' = Keys(q)) /\ Sent' = Sent
  BY <1>4, KeysSame DEF Sent
<1>12. sess \in [Party -> Sessions \cup {None}]
  BY DEF MsgInv, StoreTypes
<1>13. /\ sess' \in [Party -> Sessions \cup {None}] /\ sess'[p] = c
       /\ \A q \in Party : q # p => sess'[q] = sess[q]
  BY <1>4, <1>9, <1>12
<1>14. GoodNow(p, sess[p])'
  BY <1>4, <1>8, <1>9, <1>10, <1>11, <1>13 DEF GoodNow, Spks
<1>15. StoreTypes'
  BY <1>4, <1>10, <1>13 DEF MsgInv, StoreTypes, Later
<1>16. Offers'
  BY <1>4, <1>10, OffersKept
<1>17. Mail'
  BY <1>4, <1>10, <1>11, MailKept DEF MsgInv, Mail
<1>18. Stored'
  BY <1>4, <1>10, <1>11, <1>13, <1>14, StoredStep
<1>19. task'[p]["ui"] = Idle /\ OnlySlot(p, "ui") /\ TaskTypes'
  <2>1. sends' \in [Party -> Nat] /\ "idle" \in UiAt
    BY <1>4, <1>5, TaskFacts DEF UiAt
  <2> QED BY <1>4, <1>5, <2>1, OneSlot DEF MsgInv
<1>20. Alone'
  BY <1>5, <1>6, <1>19, AloneStep
<1>21. Idle.at \notin Working
  BY <1>5 DEF Working, Waiting
<1>22. HeldOK'
  <2>1. Holding(p, "ui")'
    BY <1>5, <1>19, <1>21 DEF Holding, Working
  <2> QED BY <1>4, <1>5, <1>11, <1>19, <2>1, HeldStep
<1>23. HeldOnce'
  BY <1>5, <1>19, <1>21, HeldOnceStep
<1>24. Copies'
  <2>1. CopyOK(p, "ui")'
    BY <1>5, <1>19 DEF CopyOK
  <2>2. \A q \in Party, j \in Slot :
          (q # p \/ j # "ui") /\ task[q][j].at = "seal" => sess'[q] = sess[q]
    BY <1>6, <1>13, Slots
  <2> QED BY <1>4, <1>5, <1>10, <1>11, <1>19, <2>1, <2>2, CopiesStep
<1> QED BY <1>15, <1>16, <1>17, <1>18, <1>19, <1>20, <1>22, <1>23, <1>24 DEF MsgInv

-----------------------------------------------------------------------------
(* Sealing and opening *)

\* A key that was used for no message of p's seals one, and none of its peer's.
LEMMA NewLetter ==
    ASSUME MsgInv, NEW p \in Party, NEW m, m.from = p, m.key \notin Keys(p), SentBy(p, m.key.root)
    PROVE  \A x \in sealed : x.key # m.key
<1> SUFFICES ASSUME NEW x \in sealed, x.key = m.key PROVE FALSE
  OBVIOUS
<1>1. SealedBy(x) /\ x.from \in Party
  BY DEF MsgInv, Mail, Envelopes
<1>2. CASE x.from = p
  BY <1>2 DEF Keys, SealedKeys
<1>3. CASE x.from = Peer(p)
  BY <1>1, <1>3, OneSender DEF SealedBy
<1> QED BY <1>1, <1>2, <1>3, Peers

\* encrypt advances the session and saves it.
LEMMA SendSealInv ==
    ASSUME MsgInv, NEW p \in Party, SendSeal(p)
    PROVE  MsgInv'
<1>1. PICK s : s = task[p]["ui"].copy
  OBVIOUS
<1>2. PICK w : w = WithSendChain(s)
  OBVIOUS
<1>3. PICK n : n = task[p]["ui"].n
  OBVIOUS
<1>4. PICK m : m = Sealed(p, n, w)
  OBVIOUS
<1>5. PICK u : u = NextSend(w)
  OBVIOUS
<1>6. PICK t : t = [task[p]["ui"] EXCEPT !.at = "post", !.copy = None, !.msg = m]
  OBVIOUS
<1>7. /\ Becomes(p, "ui", t) /\ task[p]["ui"].at = "seal" /\ s # None
      /\ sess' = [sess EXCEPT ![p] = u] /\ sealed' = sealed \cup {m}
      /\ UNCHANGED <<spk, opk, offered, fresh, contacts, recorded, sends, net, opened, failed,
                     refused>>
  BY <1>1, <1>2, <1>3, <1>4, <1>5, <1>6 DEF SendSeal, SaveSealed, Running, stores, counts
<1>8. "ui" \in Slot /\ "ui" \notin Frame /\ \A j \in Frame : task[p][j].at = "idle"
  BY <1>7, Slots, TaskFacts
<1>9. s = sess[p]
  BY <1>1, <1>7, <1>8 DEF MsgInv, Copies, CopyOK
<1>10. PICK U, A, B : U = Keys(p) /\ A = Spks(p) /\ B = Spks(Peer(p))
  OBVIOUS
<1>11. PICK f \in Nat \ {0} : f = fresh[p]
  BY MsgParty
<1>12. Good(p, s, U, f, A, B)
  BY <1>7, <1>9, <1>10, <1>11 DEF MsgInv, Stored, GoodNow
<1>13. /\ Good(p, u, U \cup {w.send}, f, A, B) /\ u \in Sessions
       /\ w.send \notin U /\ w.send \in Chains /\ SentBy(p, w.send.root)
       /\ w \in Sessions /\ w.local = s.local
  BY <1>2, <1>5, <1>12, GoodSealed
<1>14. task[p]["ui"] \in Tasks /\ n \in Nat
  BY <1>3, <1>8, TaskFacts DEF Tasks
<1>15. /\ m \in Envelopes /\ m.from = p /\ m.dh = s.local /\ m.key = w.send
  <2>1. /\ w.local \in KeyPairs /\ w.ns \in Nat /\ w.pn \in Nat /\ w.otk \in KeyPairs \cup {None}
    BY <1>13, SessionFields
  <2>2. PICK o \in KeyPairs \cup {None} : o = IF w.ns = 0 THEN w.otk ELSE None
    BY <2>1
  <2>3. m = [from |-> p, n |-> n, dh |-> w.local, seq |-> w.ns, pn |-> w.pn, key |-> w.send,
             otk |-> o]
    BY <1>4, <2>2 DEF Sealed
  <2> QED BY <1>13, <1>14, <2>1, <2>2, <2>3 DEF Envelopes
<1>16. \A x \in sealed : x.key # m.key
  BY <1>10, <1>13, <1>15, NewLetter
<1>17. m \notin sealed /\ Sent' = Sent /\ Sent \subseteq sealed
  BY <1>7, <1>16 DEF Sent, MsgInv, Mail
<1>18. Later
  BY <1>7, LaterSame
<1>19. Keys(p)' \subseteq U \cup {w.send}
  BY <1>7, <1>10, <1>15 DEF Keys, SealedKeys, OpenedKeys, OneFrame
<1>20. ASSUME NEW q \in Party, q # p PROVE Keys(q)' \subseteq Keys(q)
  BY <1>7, <1>15, <1>20 DEF Keys, SealedKeys, OpenedKeys, OneFrame
<1>21. sess \in [Party -> Sessions \cup {None}]
  BY DEF MsgInv, StoreTypes
<1>22. /\ sess' \in [Party -> Sessions \cup {None}] /\ sess'[p] = u
       /\ \A q \in Party : q # p => sess'[q] = sess[q]
  BY <1>7, <1>13, <1>21
<1>23. GoodNow(p, sess[p])'
  <2>1. PICK V \in SUBSET (U \cup {w.send}) : V = Keys(p)'
    BY <1>19
  <2>2. u.local \notin A
    BY <1>13 DEF Good
  <2>3. Good(p, u, U \cup {w.send}, f, A, B) /\ f \in Nat /\ f <= f
    BY <1>13
  <2>4. Good(p, u, V, f, A, B)
    BY <2>2, <2>3, GoodKept
  <2> QED BY <1>7, <1>10, <1>11, <1>22, <2>1, <2>4 DEF GoodNow, Spks
<1>24. StoreTypes'
  BY <1>7, <1>22 DEF MsgInv, StoreTypes
<1>25. Offers'
  BY <1>7, <1>18, OffersKept
<1>26. Mail'
  <2>1. SealedBy(m)'
    <3>1. s.local.of = p /\ s.local.n \in 1..(f - 1) /\ s.local \notin A
      BY <1>12 DEF Good
    <3> QED BY <1>7, <1>10, <1>11, <1>13, <1>15, <3>1 DEF SealedBy, Spks
  <2>2. ASSUME NEW x \in sealed PROVE SealedBy(x)'
    BY <1>7 DEF MsgInv, Mail, SealedBy, Spks
  <2>3. SealedOnce'
    BY <1>7, <1>16 DEF MsgInv, Mail, SealedOnce
  <2>4. sealed' \subseteq Envelopes /\ Sent' \subseteq sealed'
    BY <1>7, <1>15, <1>17 DEF MsgInv, Mail
  <2>5. (net \cap (opened \cup failed \cup refused) = {})'
    BY <1>7 DEF MsgInv, Mail
  <2> QED BY <1>7, <2>1, <2>2, <2>3, <2>4, <2>5 DEF Mail
<1>27. Stored'
  BY <1>7, <1>18, <1>20, <1>22, <1>23, StoredStep
<1>28. t \in Tasks /\ t.at = "post" /\ t.msg = m
  BY <1>6, <1>14, <1>15 DEF Tasks, UiAt
<1>29. task'[p]["ui"] = t /\ OnlySlot(p, "ui") /\ TaskTypes'
  <2>1. sends' \in [Party -> Nat] /\ t.at \in UiAt
    BY <1>7, <1>8, <1>28, TaskFacts DEF UiAt
  <2> QED BY <1>7, <1>8, <1>28, <2>1, OneSlot DEF MsgInv
<1>30. Alone'
  BY <1>8, <1>29, AloneStep
<1>31. HeldOK'
  <2>1. Holding(p, "ui")'
    BY <1>7, <1>15, <1>17, <1>28, <1>29 DEF Holding, Sender
  <2> QED BY <1>7, <1>8, <1>17, <1>29, <2>1, HeldStep
<1>32. HeldOnce'
  <2>1. ASSUME NEW q \in Party, NEW j \in Slot, task[q][j].at \in Working
        PROVE  task[q][j].msg # t.msg
    <3>1. Holding(q, j)
      BY DEF MsgInv, HeldOK
    <3>2. opened \subseteq sealed
      BY <1>17 DEF Sent
    <3> QED BY <1>17, <1>28, <2>1, <3>1, <3>2 DEF Holding, Working
  <2> QED BY <1>8, <1>29, <2>1, HeldOnceStep
<1>33. Copies'
  <2>1. CopyOK(p, "ui")'
    BY <1>28, <1>29 DEF CopyOK
  <2>2. \A q \in Party, j \in Slot :
          (q # p \/ j # "ui") /\ task[q][j].at = "seal" => sess'[q] = sess[q]
    BY <1>8, <1>22, Slots
  <2>3. \A q \in Party, j \in Slot :
          (q # p \/ j # "ui") /\ task[q][j].at \in {"answer", "answered", "decrypt"}
              => Keys(q)' \subseteq Keys(q)
    BY <1>8, <1>20, Slots
  <2> QED BY <1>7, <1>8, <1>18, <1>29, <2>1, <2>2, <2>3, CopiesStep
<1> QED BY <1>24, <1>25, <1>26, <1>27, <1>29, <1>30, <1>31, <1>32, <1>33 DEF MsgInv

\* What opening a message does to the mail and to the keys that are used.
LEMMA OpenKeys ==
    ASSUME MsgInv, NEW p \in Party, NEW m \in sealed \ Sent, m.from = Peer(p),
           UNCHANGED <<net, sealed>>, NEW key, Open(m, key)
    PROVE  /\ Sent' = Sent \cup {m} /\ opened \subseteq opened'
           /\ (net \cap (opened \cup failed \cup refused) = {})'
           /\ Keys(p)' \subseteq Keys(p) \cup {key}
           /\ ~OneFrame => Keys(p)' \subseteq Keys(p)
           /\ \A q \in Party : q # p => Keys(q)' \subseteq Keys(q)
<1>0. net \cap (opened \cup failed \cup refused) = {} /\ m \notin net
  BY DEF MsgInv, Mail, Sent
<1>1. CASE key = m.key /\ opened' = opened \cup {m} /\ UNCHANGED <<failed, refused>>
  <2>1. Keys(p)' \subseteq Keys(p) \cup {key}
    BY <1>1 DEF Keys, SealedKeys, OpenedKeys, OneFrame
  <2>2. ~OneFrame => Keys(p)' \subseteq Keys(p)
    BY <1>1 DEF Keys, SealedKeys, OpenedKeys, OneFrame
  <2>3. ASSUME NEW q \in Party, q # p PROVE Keys(q)' \subseteq Keys(q)
    <3>1. m.from # Peer(q)
      BY <2>3, Peers
    <3> QED BY <1>1, <3>1 DEF Keys, SealedKeys, OpenedKeys, OneFrame
  <2> QED BY <1>0, <1>1, <2>1, <2>2, <2>3 DEF Sent
<1>2. CASE failed' = failed \cup {m} /\ UNCHANGED <<opened, refused>>
  <2>1. \A q : Keys(q)' = Keys(q)
    BY <1>2, KeysSame
  <2> QED BY <1>0, <1>2, <2>1 DEF Sent
<1> QED BY <1>1, <1>2 DEF Open

\* The session that decrypt saves, if it does, and the key it has used.
Advances(p, u, K, g) ==
    /\ u \in Sessions /\ sess' = [sess EXCEPT ![p] = u]
    /\ Good(p, u, Keys(p) \cup K, g, Spks(p), Spks(Peer(p)))
    /\ Keys(p)' \subseteq Keys(p) \cup K

LEMMA DecryptResult ==
    ASSUME MsgInv, NEW p \in Party, NEW i \in Frame, ReceiveDecrypt(p, i),
           NEW m, m = task[p][i].msg, NEW c, c = task[p][i].copy
    PROVE  /\ Sent' = Sent \cup {m} /\ opened \subseteq opened'
           /\ (net \cap (opened \cup failed \cup refused) = {})'
           /\ ~OneFrame => Keys(p)' \subseteq Keys(p)
           /\ \A q \in Party : q # p => Keys(q)' \subseteq Keys(q)
           /\ \E g \in Nat :
                 /\ fresh[p] <= g /\ fresh' = [fresh EXCEPT ![p] = g]
                 /\ \/ UNCHANGED sess /\ Keys(p)' \subseteq Keys(p)
                    \/ \E u, K : Advances(p, u, K, g)
<1>1. /\ task[p][i].at = "decrypt" /\ UNCHANGED <<net, sealed>>
      /\ fresh' = [fresh EXCEPT ![p] = IF Renews(c, m) THEN @ + 1 ELSE @]
      /\ \/ DecryptSkipped(p, c, m)
         \/ DecryptRefused(c, m, NewKey(p)) /\ UNCHANGED sess
         \/ DecryptNext(p, c, m, NewKey(p))
  BY DEF ReceiveDecrypt, Running
<1>2. i \in Slot /\ i # "ui"
  BY Slots
<1>3. PICK U, A, B : U = Keys(p) /\ A = Spks(p) /\ B = Spks(Peer(p))
  OBVIOUS
<1>4. PICK f \in Nat \ {0} : f = fresh[p]
  BY MsgParty
<1>5. Good(p, c, U, f, A, B)
  BY <1>1, <1>2, <1>3, <1>4 DEF MsgInv, Copies, CopyOK, GoodNow
<1>6. /\ m \in sealed \ Sent /\ m \in Envelopes /\ m.from = Peer(p) /\ m.dh.of = Peer(p)
      /\ m.dh \notin B
  BY <1>1, <1>2, <1>3, HeldFacts DEF Waiting, Sender
<1>7. PICK g \in Nat : g = IF Renews(c, m) THEN f + 1 ELSE f
  BY <1>4
<1>8. /\ f <= g /\ fresh[p] <= g /\ fresh' = [fresh EXCEPT ![p] = g]
      /\ Renews(c, m) => g = f + 1
  <2>1. f <= g /\ (Renews(c, m) => g = f + 1)
    BY <1>4, <1>7
  <2>2. fresh' = [fresh EXCEPT ![p] = g]
    BY <1>1, <1>4, <1>7 DEF MsgInv, StoreTypes
  <2> QED BY <1>4, <2>1, <2>2
<1>9. CASE DecryptSkipped(p, c, m)
  <2>1. PICK k \in SkippedKeys(c, m) :
          sess' = [sess EXCEPT ![p] = [c EXCEPT !.skipped = @ \ {k}]] /\ Open(m, k.key)
    BY <1>9 DEF DecryptSkipped
  <2>2. k \in c.skipped
    BY DEF SkippedKeys
  <2>3. PICK u : u = [c EXCEPT !.skipped = @ \ {k}]
    OBVIOUS
  <2>4. Good(p, u, U \cup {k.key}, f, A, B) /\ u \in Sessions
    BY <1>5, <2>2, <2>3, GoodSkipped
  <2>5. PICK K : K = {k.key}
    OBVIOUS
  <2>6. Good(p, u, U \cup K, g, A, B)
    <3>1. u.local \notin A /\ f \in Nat
      BY <2>4 DEF Good
    <3>2. PICK V \in SUBSET (U \cup {k.key}) : V = U \cup K
      BY <2>5
    <3>3. Good(p, u, V, g, A, B)
      BY <1>8, <2>4, <3>1, GoodKept
    <3> QED BY <3>2, <3>3
  <2>7. /\ Sent' = Sent \cup {m} /\ opened \subseteq opened'
        /\ (net \cap (opened \cup failed \cup refused) = {})'
        /\ Keys(p)' \subseteq Keys(p) \cup {k.key}
        /\ ~OneFrame => Keys(p)' \subseteq Keys(p)
        /\ \A q \in Party : q # p => Keys(q)' \subseteq Keys(q)
    BY <1>1, <1>6, <2>1, OpenKeys
  <2>8. Advances(p, u, K, g)
    BY <1>3, <2>1, <2>3, <2>4, <2>5, <2>6, <2>7 DEF Advances
  <2> QED BY <1>8, <2>7, <2>8
<1>10. CASE DecryptRefused(c, m, NewKey(p)) /\ UNCHANGED sess
  <2>1. refused' = refused \cup {m} /\ UNCHANGED <<opened, failed>>
    BY <1>10 DEF DecryptRefused
  <2>2. \A q : Keys(q)' = Keys(q)
    BY <1>1, <2>1, KeysSame
  <2>3. Sent' = Sent \cup {m} /\ (net \cap (opened \cup failed \cup refused) = {})'
    BY <1>1, <1>6, <2>1 DEF Sent, MsgInv, Mail
  <2> QED BY <1>8, <1>10, <2>1, <2>2, <2>3
<1>11. CASE DecryptNext(p, c, m, NewKey(p))
  <2>1. PICK dhs \in KeyPairs : dhs = NewKey(p)
    BY MsgParty
  <2>2. PICK t : t = Skip(OnChain(c, m, dhs), m.seq)
    OBVIOUS
  <2>3. PICK u : u = NextRecv(t)
    OBVIOUS
  <2>4. /\ SkippedKeys(c, m) = {} /\ sess' = [sess EXCEPT ![p] = u] /\ Open(m, t.recv)
    BY <1>11, <2>1, <2>2, <2>3 DEF DecryptNext, NextRecv
  <2>5. Turns(c, m) => g = f + 1
    BY <1>8, <2>4 DEF Renews
  <2>6. dhs = KeyPair(p, f) /\ dhs \notin A
    BY <1>3, <1>4, <2>1, MsgParty
  <2>7. Good(p, u, U \cup {t.recv}, g, A, B) /\ u \in Sessions
    BY <1>5, <1>6, <1>8, <2>2, <2>3, <2>5, <2>6, GoodNext
  <2>8. PICK K : K = {t.recv}
    OBVIOUS
  <2>9. /\ Sent' = Sent \cup {m} /\ opened \subseteq opened'
        /\ (net \cap (opened \cup failed \cup refused) = {})'
        /\ Keys(p)' \subseteq Keys(p) \cup {t.recv}
        /\ ~OneFrame => Keys(p)' \subseteq Keys(p)
        /\ \A q \in Party : q # p => Keys(q)' \subseteq Keys(q)
    BY <1>1, <1>6, <2>4, OpenKeys
  <2>10. Advances(p, u, K, g)
    BY <1>3, <2>4, <2>7, <2>8, <2>9 DEF Advances
  <2> QED BY <1>8, <2>9, <2>10
<1> QED BY <1>1, <1>9, <1>10, <1>11

\* The rest of decrypt.
LEMMA ReceiveDecryptInv ==
    ASSUME MsgInv, NEW p \in Party, NEW i \in Frame, ReceiveDecrypt(p, i)
    PROVE  MsgInv'
<1>1. PICK m, c : m = task[p][i].msg /\ c = task[p][i].copy
  OBVIOUS
<1>2. PICK t : t = IF m \in opened' THEN [Idle EXCEPT !.at = "keep", !.msg = m] ELSE Idle
  OBVIOUS
<1>3. /\ Becomes(p, i, t) /\ task[p][i].at = "decrypt"
      /\ UNCHANGED <<spk, opk, offered, contacts, recorded, sends, net, sealed>>
  BY <1>1, <1>2 DEF ReceiveDecrypt, Running, stores, counts
<1>4. /\ i \in Slot /\ i # "ui" /\ "ui" \in Slot
      /\ task[p]["ui"].at \notin {"import", "seal", "record"}
      /\ sends \in [Party -> Nat]
      /\ \A q \in Party, j \in Slot : task[q][j].at = "seal" => q # p
  BY <1>3, BusyFrame
<1>5. /\ task[p][i].at \in Waiting /\ task[p][i].at \in Working
  BY <1>3 DEF Waiting, Working
<1>6. m \in sealed \ Sent /\ m \in Envelopes /\ m.from = Peer(p)
  BY <1>1, <1>4, <1>5, HeldFacts DEF Sender
<1>7. /\ Sent' = Sent \cup {m} /\ opened \subseteq opened'
      /\ (net \cap (opened \cup failed \cup refused) = {})'
      /\ ~OneFrame => Keys(p)' \subseteq Keys(p)
      /\ \A q \in Party : q # p => Keys(q)' \subseteq Keys(q)
  BY <1>1, DecryptResult
<1>8. PICK g \in Nat : /\ fresh[p] <= g /\ fresh' = [fresh EXCEPT ![p] = g]
                     /\ \/ UNCHANGED sess /\ Keys(p)' \subseteq Keys(p)
                        \/ \E u, K : Advances(p, u, K, g)
  BY <1>1, DecryptResult
<1>9. Later /\ fresh'[p] = g
  BY <1>8, LaterOne
<1>10. sess \in [Party -> Sessions \cup {None}] /\ Sent \subseteq sealed
  BY DEF MsgInv, StoreTypes, Mail
<1>11. /\ sess' \in [Party -> Sessions \cup {None}]
       /\ \A q \in Party : q # p => sess'[q] = sess[q]
       /\ (sess'[p] = sess[p] /\ Keys(p)' \subseteq Keys(p)) \/ GoodNow(p, sess[p])'
  <2>1. CASE UNCHANGED sess /\ Keys(p)' \subseteq Keys(p)
    BY <1>10, <2>1
  <2>2. CASE \E u, K : Advances(p, u, K, g)
    <3>1. PICK u, K : Advances(p, u, K, g)
      BY <2>2
    <3>2. /\ u \in Sessions /\ sess' = [sess EXCEPT ![p] = u]
          /\ Good(p, u, Keys(p) \cup K, g, Spks(p), Spks(Peer(p)))
          /\ Keys(p)' \subseteq Keys(p) \cup K
      BY <3>1 DEF Advances
    <3>3. PICK A, B, U : A = Spks(p) /\ B = Spks(Peer(p)) /\ U = Keys(p) \cup K
      OBVIOUS
    <3>4. PICK V \in SUBSET U : V = Keys(p)'
      BY <3>2, <3>3
    <3>5. Good(p, u, U, g, A, B) /\ u.local \notin A /\ g <= g
      BY <3>2, <3>3 DEF Good
    <3>6. Good(p, u, V, g, A, B)
      BY <3>5, GoodKept
    <3>7. /\ sess'[p] = u /\ sess' \in [Party -> Sessions \cup {None}]
          /\ \A q \in Party : q # p => sess'[q] = sess[q]
      BY <1>10, <3>2
    <3>8. GoodNow(p, sess[p])'
      BY <1>3, <1>9, <3>3, <3>4, <3>6, <3>7 DEF GoodNow, Spks
    <3> QED BY <3>7, <3>8
  <2> QED BY <1>8, <2>1, <2>2
<1>12. StoreTypes'
  BY <1>3, <1>7, <1>9, <1>11 DEF MsgInv, StoreTypes, Later
<1>13. Offers'
  BY <1>3, <1>9, OffersKept
<1>14. Mail'
  BY <1>3, <1>6, <1>7, <1>9, <1>10, MailKept
<1>15. Stored'
  BY <1>3, <1>7, <1>9, <1>11, StoredStep
<1>16. t \in Tasks /\ (t = Idle \/ (t.at = "keep" /\ t.msg = m /\ m \in opened')) /\ Idle.at = "idle"
  <2>1. Idle \in Tasks /\ Idle.at = "idle"
    BY <1>4, TaskFacts
  <2>2. CASE m \in opened'
    <3>1. t = [Idle EXCEPT !.at = "keep", !.msg = m]
      BY <1>2, <2>2
    <3>2. t = [at |-> "keep", copy |-> None, msg |-> m, n |-> 0, to |-> ""]
      BY <3>1 DEF Idle
    <3>3. t \in Tasks /\ t.at = "keep" /\ t.msg = m
      BY <1>6, <3>2 DEF Tasks, FrameAt
    <3> QED BY <2>1, <2>2, <3>3
  <2>3. CASE m \notin opened'
    BY <1>2, <2>1, <2>3
  <2> QED BY <2>2, <2>3
<1>17. task'[p][i] = t /\ OnlySlot(p, i) /\ TaskTypes'
  <2>1. sends' \in [Party -> Nat] /\ t.at \in FrameAt
    BY <1>3, <1>4, <1>16 DEF FrameAt
  <2> QED BY <1>3, <1>4, <1>16, <2>1, OneSlot DEF MsgInv
<1>18. Alone'
  BY <1>4, <1>17, AloneStep
<1>19. HeldOK'
  <2>1. recorded[p] \subseteq Sent
    BY DEF MsgInv, StoreTypes, Sent
  <2>2. Holding(p, i)'
    BY <1>3, <1>4, <1>6, <1>16, <1>17, <2>1 DEF Holding, Sender, Working, Waiting
  <2> QED BY <1>1, <1>3, <1>4, <1>5, <1>7, <1>17, <2>2, HeldStep
<1>20. HeldOnce'
  <2>1. t.at \notin Working \/ t.msg = task[p][i].msg
    BY <1>1, <1>16 DEF Working, Waiting
  <2> QED BY <1>4, <1>5, <1>17, <2>1, HeldOnceStep
<1>21. Copies'
  <2>1. CopyOK(p, i)'
    BY <1>16, <1>17 DEF CopyOK
  <2>2. ASSUME NEW q \in Party, NEW j \in Slot, q # p \/ j # i,
               task[q][j].at \in {"answer", "answered", "decrypt"}
        PROVE  Keys(q)' \subseteq Keys(q)
    <3>1. CASE q # p
      BY <1>7, <3>1
    <3>2. CASE q = p
      <4>1. j # "ui"
        <5>1. task[p]["ui"].at \in UiAt
          BY <1>4, TaskFacts
        <5> QED BY <2>2, <3>2, <5>1 DEF UiAt
      <4>2. ~OneFrame
        BY <2>2, <3>2, <4>1, Slots DEF OneFrame
      <4> QED BY <1>7, <3>2, <4>2
    <3> QED BY <3>1, <3>2
  <2>3. \A q \in Party, j \in Slot :
          (q # p \/ j # i) /\ task[q][j].at = "seal" => sess'[q] = sess[q]
    BY <1>4, <1>11
  <2> QED BY <1>3, <1>4, <1>9, <1>17, <2>1, <2>2, <2>3, CopiesStep
<1> QED BY <1>12, <1>13, <1>14, <1>15, <1>17, <1>18, <1>19, <1>20, <1>21 DEF MsgInv

-----------------------------------------------------------------------------
(* Bundles, crashes, and the whole *)

\* A bundle's new signed pre-key is in use nowhere yet.
LEMMA ExportInv ==
    ASSUME MsgInv, NEW p \in Party, Export(p)
    PROVE  MsgInv'
<1>1. PICK f \in Nat \ {0} : f = fresh[p]
  BY MsgParty
<1>2. PICK k \in KeyPairs : k = NewKey(p)
  BY MsgParty
<1>3. PICK o \in KeyPairs : o = KeyPair(p, f + 1)
  <2>1. PICK g \in Nat : g = f + 1
    OBVIOUS
  <2>2. KeyPair(p, g) \in KeyPairs
    BY DEF KeyPair, KeyPairs
  <2> QED BY <2>1, <2>2
<1>4. PICK b \in Bundles : b = [spk |-> k, otk |-> o]
  BY DEF Bundles
<1>5. k.of = p /\ k.n = f /\ o.of = p /\ b.spk = k /\ b.otk = o
  BY <1>1, <1>2, <1>3, <1>4, MsgParty DEF KeyPair
<1>6. /\ spk \in [Party -> KeyPairs \cup {None}] /\ opk \in [Party -> SUBSET KeyPairs]
      /\ offered \in [Party -> SUBSET Bundles] /\ fresh \in [Party -> Nat \ {0}]
  BY DEF MsgInv, StoreTypes
<1>7. /\ spk' = [spk EXCEPT ![p] = k] /\ opk' = [opk EXCEPT ![p] = @ \cup {o}]
      /\ offered' = [offered EXCEPT ![p] = @ \cup {b}] /\ fresh' = [fresh EXCEPT ![p] = f + 2]
      /\ UNCHANGED <<sess, sends, net, opened, failed, refused, task, contacts, recorded, sealed>>
  BY <1>1, <1>2, <1>3, <1>4, <1>6 DEF Export, GeneratePreKeyBundle, counts, device
<1>8. Later /\ fresh'[p] = f + 2 /\ \A q \in Party : q # p => fresh'[q] = fresh[q]
  <2>1. f + 2 \in Nat /\ fresh[p] <= f + 2
    BY <1>1
  <2> QED BY <1>7, <2>1, LaterOne
<1>9. /\ offered'[p] = offered[p] \cup {b} /\ \A q \in Party : q # p => offered'[q] = offered[q]
  BY <1>6, <1>7
<1>10. /\ Spks(p)' = Spks(p) \cup {k} /\ \A q \in Party : q # p => Spks(q)' = Spks(q)
  BY <1>5, <1>9 DEF Spks
<1>11. (\A q : Keys(q)' = Keys(q)) /\ Sent' = Sent
  BY <1>7, KeysSame DEF Sent
<1>12. ASSUME NEW q \in Party, NEW s, GoodNow(q, s) PROVE GoodNow(q, s)'
  <2>1. PICK U, A, B, C, D : /\ U = Keys(q) /\ A = Spks(q) /\ B = Spks(Peer(q))
                             /\ C = Spks(q)' /\ D = Spks(Peer(q))'
    OBVIOUS
  <2>2. PICK h \in Nat, g \in Nat : h = fresh[q] /\ g = fresh'[q]
    <3>1. fresh[q] \in Nat /\ fresh'[q] \in Nat
      BY <1>8, MsgParty DEF Later
    <3> QED BY <3>1
  <2>3. h <= g
    BY <1>8, <2>2 DEF Later
  <2>4. Good(q, s, U, h, A, B)
    BY <1>12, <2>1, <2>2 DEF GoodNow
  <2>5. B \subseteq D /\ Peer(q) \in Party
    BY <1>10, <2>1, Peers
  <2>6. s.local \notin C
    <3>1. s.local \notin A /\ s.local.n \in 1..(h - 1)
      BY <2>4 DEF Good
    <3>2. CASE q = p
      <4>1. s.local # k
        BY <1>1, <1>5, <2>2, <3>1, <3>2
      <4> QED BY <1>10, <2>1, <3>1, <3>2, <4>1
    <3>3. CASE q # p
      BY <1>10, <2>1, <3>1, <3>3
    <3> QED BY <3>2, <3>3
  <2>7. Good(q, s, U, g, C, D)
    BY <2>3, <2>4, <2>5, <2>6, GoodKept
  <2> QED BY <1>11, <2>1, <2>2, <2>7 DEF GoodNow
<1>13. StoreTypes'
  BY <1>4, <1>6, <1>7, <1>8 DEF MsgInv, StoreTypes, Later
<1>14. TaskTypes' /\ Alone'
  BY <1>7 DEF MsgInv, TaskTypes, Alone
<1>15. Offers'
  <2> SUFFICES ASSUME NEW q \in Party, NEW x \in offered'[q]
               PROVE  x.spk.of = q /\ x.spk.n < fresh'[q] /\ x.otk.of = q
    BY DEF Offers
  <2>1. CASE q = p /\ x = b
    BY <1>1, <1>5, <1>8, <2>1
  <2>2. CASE x \in offered[q]
    <3>1. x.spk.of = q /\ x.otk.of = q /\ x.spk.n \in Nat /\ x.spk.n < fresh[q] /\ fresh[q] \in Nat
      BY <2>2, MsgParty
    <3>2. fresh'[q] \in Nat /\ fresh[q] <= fresh'[q]
      BY <1>8 DEF Later
    <3> QED BY <3>1, <3>2
  <2> QED BY <1>9, <2>1, <2>2
<1>16. Mail'
  <2>1. ASSUME NEW m \in sealed PROVE SealedBy(m)'
    <3>1. SealedBy(m) /\ m.from \in Party /\ m.dh.n \in Nat
      BY DEF MsgInv, Mail, Envelopes, KeyPairs
    <3>2. /\ fresh[m.from] \in Nat /\ fresh'[m.from] \in Nat /\ fresh[m.from] <= fresh'[m.from]
      BY <1>8, <3>1, MsgParty DEF Later
    <3>3. m.dh.n \in 1..(fresh[m.from] - 1)
      BY <3>1 DEF SealedBy
    <3>4. m.dh.n \in 1..(fresh'[m.from] - 1)
      BY <3>2, <3>3
    <3>5. m.dh \notin Spks(m.from)'
      <4>1. m.from = p => m.dh # k
        BY <1>1, <1>5, <3>3
      <4> QED BY <1>10, <3>1, <4>1 DEF SealedBy
    <3> QED BY <3>1, <3>4, <3>5 DEF SealedBy
  <2> QED BY <1>7, <1>11, <2>1 DEF MsgInv, Mail, SealedOnce
<1>17. Stored'
  <2> SUFFICES ASSUME NEW q \in Party
               PROVE  IF sess'[q] = None THEN Keys(q)' = {} ELSE GoodNow(q, sess[q])'
    BY DEF Stored
  <2>1. PICK s : s = sess[q]
    OBVIOUS
  <2>2. IF s = None THEN Keys(q) = {} ELSE GoodNow(q, s)
    BY <2>1 DEF MsgInv, Stored
  <2>3. s # None => GoodNow(q, s)'
    BY <1>12, <2>2
  <2> QED BY <1>7, <1>11, <2>1, <2>2, <2>3 DEF GoodNow
<1>18. HeldOK' /\ HeldOnce'
  BY <1>7, <1>11 DEF MsgInv, HeldOK, Holding, HeldOnce, SameMessage
<1>19. Copies'
  <2> SUFFICES ASSUME NEW q \in Party, NEW j \in Slot PROVE CopyOK(q, j)'
    BY DEF Copies
  <2>1. PICK t, c : t = task[q][j] /\ c = t.copy
    OBVIOUS
  <2>2. /\ t.at = "import" => c \in offered[Peer(q)]
        /\ t.at = "seal" => c = sess[q]
        /\ t.at = "answer" => Keys(q) = {}
        /\ t.at \in {"answered", "decrypt"} => GoodNow(q, c)
    BY <2>1 DEF MsgInv, Copies, CopyOK
  <2>3. t.at \in {"answered", "decrypt"} => GoodNow(q, c)'
    BY <1>12, <2>2
  <2>4. t.at = "import" => c \in offered'[Peer(q)]
    BY <1>9, <2>2, Peers
  <2>5. t.at = "answer" => Keys(q)' = {}
    BY <1>11, <2>2
  <2> QED BY <1>7, <2>1, <2>2, <2>3, <2>4, <2>5 DEF CopyOK, GoodNow
<1> QED BY <1>13, <1>14, <1>15, <1>16, <1>17, <1>18, <1>19 DEF MsgInv

\* What was saved stays; what was under way is gone.
LEMMA CrashInv ==
    ASSUME MsgInv, NEW p \in Party, Crash(p)
    PROVE  MsgInv'
<1>1. /\ task' = [task EXCEPT ![p] = [j \in Slot |-> Idle]]
      /\ UNCHANGED <<sess, stores, fresh, contacts, sealed, recorded, sends, net, opened, failed,
                     refused>>
  BY DEF Crash, vars, counts
<1>2. /\ Offers' /\ Mail' /\ Stored' /\ UNCHANGED <<sess, offered, sealed, opened>>
      /\ Sent' = Sent /\ \A q : Keys(q)' = Keys(q)
  BY <1>1, StoresSame
<1>3. \A q \in Party, j \in Slot : task'[q][j] = IF q = p THEN Idle ELSE task[q][j]
  BY <1>1 DEF MsgInv, TaskTypes
<1>4. Idle \in Tasks /\ Idle.at = "idle"
  BY DEF Idle, Tasks, UiAt
<1>5. StoreTypes'
  BY <1>1 DEF MsgInv, StoreTypes, stores
<1>6. TaskTypes'
  <2>1. task' \in [Party -> [Slot -> Tasks]]
    BY <1>1, <1>4 DEF MsgInv, TaskTypes
  <2> QED BY <1>1, <1>3, <1>4, <2>1 DEF MsgInv, TaskTypes, UiAt, FrameAt
<1>7. Alone'
  <2>1. "ui" \in Slot /\ Frame \subseteq Slot
    BY Slots
  <2> QED BY <1>3, <1>4, <2>1 DEF MsgInv, Alone
<1>8. "idle" \notin Working /\ "idle" \notin Waiting
  BY DEF Working, Waiting
<1>9. HeldOK'
  BY <1>1, <1>2, <1>3, <1>4, <1>8 DEF MsgInv, HeldOK, Holding, Sender
<1>10. HeldOnce'
  BY <1>3, <1>4, <1>8 DEF MsgInv, HeldOnce, SameMessage
<1>11. Copies'
  <2> SUFFICES ASSUME NEW q \in Party, NEW j \in Slot PROVE CopyOK(q, j)'
    BY DEF Copies
  <2>1. CASE q = p
    BY <1>3, <1>4, <2>1 DEF CopyOK
  <2>2. CASE q # p
    <3>1. PICK t, c : t = task[q][j] /\ c = t.copy
      OBVIOUS
    <3>2. task'[q][j] = t
      BY <1>3, <2>2, <3>1
    <3>3. /\ t.at = "import" => c \in offered[Peer(q)]
          /\ t.at = "seal" => c = sess[q]
          /\ t.at = "answer" => Keys(q) = {}
          /\ t.at \in {"answered", "decrypt"} => GoodNow(q, c)
      BY <3>1 DEF MsgInv, Copies, CopyOK
    <3>4. Spks(q)' = Spks(q) /\ Spks(Peer(q))' = Spks(Peer(q)) /\ fresh' = fresh
      BY <1>1, <1>2 DEF Spks
    <3>5. GoodNow(q, c) => GoodNow(q, c)'
      BY <1>2, <3>4 DEF GoodNow
    <3> QED BY <1>2, <3>1, <3>2, <3>3, <3>5 DEF CopyOK, GoodNow
  <2> QED BY <2>1, <2>2
<1> QED BY <1>2, <1>5, <1>6, <1>7, <1>9, <1>10, <1>11 DEF MsgInv
\* Nothing is stored, sealed or under way at the start.
LEMMA MessagingInitInv == MessagingInit => MsgInv
<1> SUFFICES ASSUME MessagingInit PROVE MsgInv
  OBVIOUS
<1>1. /\ \A p \in Party : /\ sess[p] = None /\ offered[p] = {}
                          /\ \A i \in Slot : task[p][i] = Idle
      /\ sealed = {} /\ net = {} /\ opened = {} /\ failed = {} /\ refused = {}
  BY DEF MessagingInit, Init
<1>2. Idle \in Tasks /\ Idle.at = "idle"
  BY DEF Idle, Tasks, UiAt
<1>3. StoreTypes
  <2>1. contacts \in [Party -> SUBSET Addresses]
    <3>1. PICK P \in SUBSET Introduced :
                   contacts = [p \in Party |-> IF p \in P THEN {"hash"} ELSE {}]
      BY DEF MessagingInit
    <3> QED BY <3>1 DEF Addresses
  <2> QED BY <2>1 DEF MessagingInit, Init, StoreTypes
<1>4. TaskTypes
  <2>1. task \in [Party -> [Slot -> Tasks]] /\ sends \in [Party -> Nat]
    BY <1>2 DEF MessagingInit, Init
  <2> QED BY <1>1, <1>2, <2>1 DEF TaskTypes, UiAt, FrameAt
<1>5. Sent = {} /\ \A p : Keys(p) = {}
  BY <1>1 DEF Sent, Keys, SealedKeys, OpenedKeys
<1>6. Offers /\ Mail /\ Stored
  BY <1>1, <1>5 DEF Offers, Mail, Stored, SealedOnce
<1>7. Alone
  BY <1>1, <1>2, Slots DEF Alone
<1>8. HeldOK /\ HeldOnce
  BY <1>1, <1>2 DEF HeldOK, Holding, HeldOnce, SameMessage, Working, Waiting
<1>9. Copies
  BY <1>1, <1>2 DEF Copies, CopyOK
<1> QED BY <1>3, <1>4, <1>6, <1>7, <1>8, <1>9 DEF MsgInv

\* Every step keeps the invariant.
LEMMA MessagingNextInv == MsgInv /\ [MessagingNext]_messaging => MsgInv'
<1> SUFFICES ASSUME MsgInv, [MessagingNext]_messaging PROVE MsgInv'
  OBVIOUS
<1>1. ASSUME NEW p \in Party, Export(p) PROVE MsgInv'
  BY <1>1, ExportInv
<1>2. ASSUME NEW p \in Party, ImportContact(p) PROVE MsgInv'
  BY <1>2, ImportContactInv
<1>3. ASSUME NEW p \in Party, SendBegin(p) PROVE MsgInv'
  BY <1>3, SendBeginInv
<1>4. ASSUME NEW p \in Party, Crash(p) PROVE MsgInv'
  BY <1>4, CrashInv
<1>5. ASSUME NEW p \in Party, UiStep(p) PROVE MsgInv'
  <2>1. CASE ImportSession(p)
    BY <2>1, ImportSessionInv
  <2>2. CASE SendNoSession(p) \/ SendRecord(p)
    BY <2>2, SendEndsInv
  <2>3. CASE SendSeal(p)
    BY <2>3, SendSealInv
  <2>4. CASE SendPost(p)
    BY <2>4, SendPostInv
  <2> QED BY <1>5, <2>1, <2>2, <2>3, <2>4 DEF UiStep, LocalStep
<1>6. ASSUME NEW p \in Party, NEW i \in Frame, FrameStep(p, i) PROVE MsgInv'
  <2>1. CASE ReceiveRead(p, i)
    BY <2>1, ReceiveReadInv
  <2>2. CASE ReceiveTakeKey(p, i)
    BY <2>2, ReceiveTakeKeyInv
  <2>3. CASE ReceiveAnswer(p, i)
    BY <2>3, ReceiveAnswerInv
  <2>4. CASE ReceiveDecrypt(p, i)
    BY <2>4, ReceiveDecryptInv
  <2>5. CASE ReceiveRecord(p, i)
    BY <2>5, ReceiveRecordInv
  <2> QED BY <1>6, <2>1, <2>2, <2>3, <2>4, <2>5 DEF FrameStep
<1>7. ASSUME NEW p \in Party, NEW i \in Frame, NEW m \in net, ReceiveBegin(p, i, m) PROVE MsgInv'
  BY <1>7, ReceiveBeginInv
<1>8. CASE UNCHANGED messaging
  <2>1. /\ UNCHANGED <<sess, stores, fresh, sealed, net, opened, failed, refused>>
        /\ UNCHANGED <<spk, opk, offered, sends, task, contacts, recorded>>
    BY <1>8 DEF messaging, vars, stores, counts, device
  <2>2. /\ Offers' /\ Mail' /\ Stored' /\ Sent' = Sent /\ \A q : Keys(q)' = Keys(q)
    BY <2>1, StoresSame
  <2>3. StoreTypes' /\ TaskTypes' /\ Alone'
    BY <2>1 DEF MsgInv, StoreTypes, TaskTypes, Alone
  <2>4. HeldOK' /\ HeldOnce'
    BY <2>1, <2>2 DEF MsgInv, HeldOK, Holding, Sender, HeldOnce, SameMessage
  <2>5. Copies'
    BY <2>1, <2>2 DEF MsgInv, Copies, CopyOK, GoodNow, Spks
  <2> QED BY <2>2, <2>3, <2>4, <2>5 DEF MsgInv
<1> QED BY <1>1, <1>2, <1>3, <1>4, <1>5, <1>6, <1>7, <1>8 DEF MessagingNext

\* Every state of the two devices satisfies the invariant.
THEOREM MessagingInvariant == MessagingSpec => []MsgInv
<1> QED BY MessagingInitInv, MessagingNextInv, PTL DEF MessagingSpec

-----------------------------------------------------------------------------
(* The theorems *)

(***************************************************************************)
(* At each await of sendOutboundMessage and handleIncomingMessage, the     *)
(* operation holds what it goes on with: a message that was sealed and not *)
(* received yet, a session to decrypt with, or an opened message that is   *)
(* not in the messages table, however many frames come in one chunk.       *)
(***************************************************************************)
THEOREM TasksHold == MessagingSpec => []TasksOK
<1>1. MsgInv => TasksOK
  <2> SUFFICES ASSUME MsgInv PROVE TasksOK
    OBVIOUS
  <2>1. contacts \in [Party -> SUBSET Addresses]
    BY DEF MsgInv, StoreTypes
  <2>2. ASSUME NEW p \in Party, NEW i \in Slot, NEW t, t = task[p][i]
        PROVE  /\ t.at = "post" => t.msg.from = p /\ t.msg \in sealed \ Sent
               /\ t.at \in {"read", "answer", "answered", "decrypt"} =>
                     t.msg.from = Peer(p) /\ t.msg \in sealed \ Sent
               /\ t.at \in {"answered", "decrypt"} => t.copy # None
               /\ t.at = "keep" => t.msg \in opened \ recorded[p]
    <3>1. t.at \in IF i = "ui" THEN UiAt ELSE FrameAt
      BY <2>2, TaskFacts
    <3>2. /\ t.at \in Working => t.msg.from = Sender(p, i)
          /\ t.at \in Waiting => t.msg \in sealed \ Sent
          /\ t.at = "keep" => t.msg \in opened \ recorded[p]
      BY <2>2 DEF MsgInv, HeldOK, Holding
    <3>3. t.at \in {"answered", "decrypt"} => t.copy # None
      <4>1. PICK c : c = t.copy
        OBVIOUS
      <4>2. t.at \in {"answered", "decrypt"} => GoodNow(p, c)
        BY <2>2, <4>1 DEF MsgInv, Copies, CopyOK
      <4> QED BY <4>1, <4>2, GoodSession
    <3>4. t.at = "post" => i = "ui"
      BY <3>1 DEF FrameAt
    <3>5. t.at \in {"read", "answer", "answered", "decrypt"} => i # "ui"
      BY <3>1 DEF UiAt
    <3> QED BY <3>2, <3>3, <3>4, <3>5 DEF Working, Waiting, Sender
  <2> QED BY <2>1, <2>2 DEF TasksOK
<1> QED BY <1>1, MessagingInvariant, PTL

(***************************************************************************)
(* CryptoEngine.encrypt never uses a message key twice, whatever the       *)
(* parties import, whichever messages are lost, delayed or refused and     *)
(* wherever a device crashes between sealing, saving and posting.          *)
(***************************************************************************)
THEOREM SealedOnceHolds == MessagingSpec => []SealedOnce
<1>1. MsgInv => SealedOnce
  BY DEF MsgInv, Mail
<1> QED BY <1>1, MessagingInvariant, PTL

(***************************************************************************)
(* Forward secrecy on the devices: where the frames of a chunk are handled *)
(* one at a time, neither a stored session nor the copy that an operation  *)
(* of AppOrchestrator holds across an await derives the key of a message   *)
(* that was opened.  Handlers that overlap save the older copy over the    *)
(* newer session, which is why it needs OneFrame.                          *)
(***************************************************************************)
THEOREM KeysForgottenHolds == OneFrame /\ MessagingSpec => []KeysForgotten
<1>1. MsgInv /\ OneFrame => KeysForgotten
  <2> SUFFICES ASSUME MsgInv, OneFrame, NEW m \in opened, NEW p \in Party
               PROVE  /\ sess[p] # None => ~Derives(sess[p], m.key)
                      /\ \A i \in Slot :
                            task[p][i].at \in {"seal", "answered", "decrypt"}
                              /\ task[p][i].copy # None
                                => ~Derives(task[p][i].copy, m.key)
    BY DEF KeysForgotten
  <2>1. m \in sealed /\ m.from \in Party
    BY DEF MsgInv, Mail, Sent, Envelopes
  <2>2. m.key \in Keys(p)
    <3>1. CASE m.from = p
      BY <2>1, <3>1 DEF Keys, SealedKeys
    <3>2. CASE m.from = Peer(p)
      BY <3>2 DEF Keys, OpenedKeys
    <3> QED BY <2>1, <3>1, <3>2, Peers
  <2>3. ASSUME NEW s, GoodNow(p, s) PROVE ~Derives(s, m.key)
    BY <2>2, <2>3 DEF GoodNow, Good, KeysInv, Gone
  <2>4. ASSUME NEW s, s = sess[p], s # None PROVE ~Derives(s, m.key)
    <3>1. GoodNow(p, s)
      BY <2>4 DEF MsgInv, Stored
    <3> QED BY <2>3, <3>1
  <2>5. ASSUME NEW i \in Slot, NEW c, c = task[p][i].copy, c # None,
               task[p][i].at \in {"seal", "answered", "decrypt"}
        PROVE  ~Derives(c, m.key)
    <3>1. CASE task[p][i].at = "seal"
      <4>1. c = sess[p]
        BY <2>5, <3>1 DEF MsgInv, Copies, CopyOK
      <4> QED BY <2>4, <2>5, <4>1
    <3>2. CASE task[p][i].at \in {"answered", "decrypt"}
      <4>1. GoodNow(p, c)
        BY <2>5, <3>2 DEF MsgInv, Copies, CopyOK
      <4> QED BY <2>3, <4>1
    <3> QED BY <2>5, <3>1, <3>2
  <2> QED BY <2>4, <2>5
<1>2. OneFrame /\ []MsgInv => []KeysForgotten
  <2>1. ASSUME OneFrame PROVE []MsgInv => []KeysForgotten
    <3>1. MsgInv => KeysForgotten
      BY <1>1, <2>1
    <3> QED BY <3>1, PTL
  <2> QED BY <2>1
<1> QED BY <1>2, MessagingInvariant, PTL

-----------------------------------------------------------------------------
(* The two devices together *)

SealedOf(p) == {m \in sealed : m.from = p}

\* Session s of p, which may be a copy that an operation holds, and the stored
\* one of its peer.
JoinedNow(p, s) == Joined(s, sess[Peer(p)], SealedOf(p), SealedOf(Peer(p)), opened)

\* The message may still make its receiver answer.
Answering   == {"post", "read", "answer"}
OnTheWay(m) ==
    \/ m \in net
    \/ \E p \in Party, i \in Slot : task[p][i].at \in Answering /\ task[p][i].msg = m

\* The peer of a has the one-time pre-key of bundle o until it answers; it may
\* have lost its answer, but then no other message would make it answer.
Unanswered(a, o) ==
    \/ o.otk \in opk[Peer(a)]
    \/ \E m \in SealedOf(a) : m.seq = 0 /\ ~OnTheWay(m)

\* What the stores say of a, who initiates, and of its peer: as in AgreeInv, of
\* the messages that were sealed.
StoresAgree(a) ==
    LET b == Peer(a) IN
    /\ imports \in [Party -> Nat] /\ imports[b] = 0 /\ failed = {}
    /\ \A o \in offered[b] : offered[b] = {o} /\ o.spk = spk[b]
    /\ sess[a] = None => /\ sess[b] = None /\ sealed = {}
                         /\ \A o \in offered[b] : o.otk \in opk[b]
    /\ sess[a] # None => offered[b] # {} /\ ~(imports[a] < MaxImports[a])
    /\ sess[a] # None /\ sess[b] = None =>
          /\ SealedOf(b) = {} /\ opened = {}
          /\ \E o \in offered[b] : Knocks(a, sess[a], o, SealedOf(a)) /\ Unanswered(a, o)
    /\ sess[b] # None => JoinedNow(b, sess[b])

\* Only a imports, and once.
UiAgrees(a) ==
    LET b == Peer(a) IN
    /\ task[b]["ui"].at # "import"
    /\ task[a]["ui"].at = "import" =>
          sess[a] = None /\ offered[b] # {} /\ ~(imports[a] < MaxImports[a])

\* Only the first message is answered, by the peer of a, and the copy that a
\* handler decrypts with is the stored session.
FrameAgrees(a, p, i) ==
    LET t == task[p][i] IN
    /\ t.at = "read" /\ sess[p] = None => t.msg.seq = 0
    /\ t.at = "answer" => sess[p] = None /\ t.msg.seq = 0
    /\ t.at = "answered" => p = Peer(a) /\ sess[p] = None /\ JoinedNow(p, t.copy)
    /\ t.at = "decrypt" => t.copy = sess[p]
FramesAgree(a) == \A p \in Party : \A i \in Frame : FrameAgrees(a, p, i)

DevicesAgree(a) == StoresAgree(a) /\ UiAgrees(a) /\ FramesAgree(a)

\* What the stores agree on, of both devices by name.
LEMMA DeviceFacts ==
    ASSUME NEW a \in Party, Initiates(a), DevicesAgree(a), NEW b, b = Peer(a)
    PROVE  /\ b \in Party /\ b # a /\ a = Peer(b) /\ \A q \in Party : q = a \/ q = b
           /\ MaxImports[a] <= 1 /\ MaxImports[b] = 0 /\ MaxBundles[b] <= 1
           /\ imports \in [Party -> Nat] /\ imports[b] = 0 /\ failed = {}
           /\ \A o \in offered[b] : offered[b] = {o} /\ o.spk = spk[b]
           /\ sess[a] = None => /\ sess[b] = None /\ sealed = {}
                                /\ \A o \in offered[b] : o.otk \in opk[b]
           /\ sess[a] # None => offered[b] # {} /\ ~(imports[a] < MaxImports[a])
           /\ sess[a] # None /\ sess[b] = None =>
                 /\ SealedOf(b) = {} /\ opened = {}
                 /\ \E o \in offered[b] : Knocks(a, sess[a], o, SealedOf(a)) /\ Unanswered(a, o)
           /\ sess[b] # None => JoinedNow(b, sess[b])
           /\ task[b]["ui"].at # "import"
           /\ task[a]["ui"].at = "import" =>
                 sess[a] = None /\ offered[b] # {} /\ ~(imports[a] < MaxImports[a])
<1>1. b \in Party /\ b # a /\ a = Peer(b) /\ \A q \in Party : q = a \/ q = b
  BY Peers
<1>2. MaxImports[a] <= 1 /\ MaxImports[b] = 0 /\ MaxBundles[b] <= 1
  BY DEF Initiates
<1>3. /\ imports \in [Party -> Nat] /\ imports[b] = 0 /\ failed = {}
      /\ \A o \in offered[b] : offered[b] = {o} /\ o.spk = spk[b]
      /\ sess[a] = None => /\ sess[b] = None /\ sealed = {}
                           /\ \A o \in offered[b] : o.otk \in opk[b]
      /\ sess[a] # None => offered[b] # {} /\ ~(imports[a] < MaxImports[a])
      /\ sess[a] # None /\ sess[b] = None =>
            /\ SealedOf(b) = {} /\ opened = {}
            /\ \E o \in offered[b] : Knocks(a, sess[a], o, SealedOf(a)) /\ Unanswered(a, o)
      /\ sess[b] # None => JoinedNow(b, sess[b])
  BY DEF DevicesAgree, StoresAgree
<1>4. /\ task[b]["ui"].at # "import"
      /\ task[a]["ui"].at = "import" =>
            sess[a] = None /\ offered[b] # {} /\ ~(imports[a] < MaxImports[a])
  BY DEF DevicesAgree, UiAgrees
<1> QED BY <1>1, <1>2, <1>3, <1>4

\* What a handler of a frame knows.
LEMMA HandlerFacts ==
    ASSUME NEW a \in Party, DevicesAgree(a), NEW p \in Party, NEW i \in Frame
    PROVE  /\ task[p][i].at = "read" /\ sess[p] = None => task[p][i].msg.seq = 0
           /\ task[p][i].at = "answer" => sess[p] = None /\ task[p][i].msg.seq = 0
           /\ task[p][i].at = "answered" =>
                 p = Peer(a) /\ sess[p] = None /\ JoinedNow(p, task[p][i].copy)
           /\ task[p][i].at = "decrypt" => task[p][i].copy = sess[p]
  BY DEF DevicesAgree, FramesAgree, FrameAgrees

\* No message comes to be under way but one that the step has in hand.
LEMMA WayStep ==
    ASSUME NEW p \in Party, NEW i \in Slot, OnlySlot(p, i), NEW m, OnTheWay(m)'
    PROVE  \/ OnTheWay(m) \/ m \in net'
           \/ task'[p][i].at \in Answering /\ task'[p][i].msg = m
<1> SUFFICES ASSUME NEW q \in Party, NEW j \in Slot,
                    task'[q][j].at \in Answering, task'[q][j].msg = m
             PROVE  OnTheWay(m) \/ (task'[p][i].at \in Answering /\ task'[p][i].msg = m)
  BY DEF OnTheWay
<1>1. CASE q = p /\ j = i
  BY <1>1
<1>2. CASE q # p \/ j # i
  <2>1. task'[q][j] = task[q][j]
    BY <1>2 DEF OnlySlot
  <2> QED BY <2>1 DEF OnTheWay
<1> QED BY <1>1, <1>2

\* The handlers, while one operation goes on.
LEMMA FramesStep ==
    ASSUME NEW a \in Party, FramesAgree(a), NEW p \in Party, NEW i \in Slot, OnlySlot(p, i),
           i \in Frame => FrameAgrees(a, p, i)',
           \A q \in Party, j \in Frame :
               (q # p \/ j # i) /\ task[q][j].at # "idle" => sess'[q] = sess[q],
           \A j \in Frame : \A c :
               /\ Peer(a) # p \/ j # i
               /\ task[Peer(a)][j].at = "answered" /\ task[Peer(a)][j].copy = c
               /\ JoinedNow(Peer(a), c)
               => JoinedNow(Peer(a), c)'
    PROVE  FramesAgree(a)'
<1> SUFFICES ASSUME NEW q \in Party, NEW j \in Frame PROVE FrameAgrees(a, q, j)'
  BY DEF FramesAgree
<1>1. CASE q = p /\ j = i
  BY <1>1
<1>2. CASE q # p \/ j # i
  <2>1. j \in Slot
    BY Slots
  <2>2. PICK t : t = task[q][j]
    OBVIOUS
  <2>3. task'[q][j] = t
    BY <1>2, <2>1, <2>2 DEF OnlySlot
  <2>4. /\ t.at = "read" /\ sess[q] = None => t.msg.seq = 0
        /\ t.at = "answer" => sess[q] = None /\ t.msg.seq = 0
        /\ t.at = "answered" => q = Peer(a) /\ sess[q] = None /\ JoinedNow(q, t.copy)
        /\ t.at = "decrypt" => t.copy = sess[q]
    BY <2>2 DEF FramesAgree, FrameAgrees
  <2>5. t.at # "idle" => sess'[q] = sess[q]
    BY <1>2, <2>2
  <2>6. ASSUME t.at = "answered" PROVE JoinedNow(q, t.copy)'
    <3>1. PICK c : c = t.copy
      OBVIOUS
    <3>2. q = Peer(a) /\ JoinedNow(Peer(a), c)
      BY <2>4, <2>6, <3>1
    <3>3. JoinedNow(Peer(a), c)'
      BY <1>2, <2>2, <2>6, <3>1, <3>2
    <3> QED BY <3>1, <3>2, <3>3 DEF JoinedNow
  <2> QED BY <2>3, <2>4, <2>5, <2>6 DEF FrameAgrees, JoinedNow
<1> QED BY <1>1, <1>2

\* What was sealed, when nothing more is.
LEMMA SealedStays ==
    ASSUME UNCHANGED sealed, NEW q
    PROVE  SealedOf(q)' = SealedOf(q)
  BY DEF SealedOf

\* Sessions that stay as they are stay joined.
LEMMA JoinedStays ==
    ASSUME UNCHANGED <<sess, sealed, opened>>, NEW q, NEW c, JoinedNow(q, c)
    PROVE  JoinedNow(q, c)'
<1>1. /\ SealedOf(q)' = SealedOf(q) /\ SealedOf(Peer(q))' = SealedOf(Peer(q))
  BY SealedStays
<1> QED BY <1>1 DEF JoinedNow

\* A step that changes no store, seals and opens nothing.
LEMMA QuietAgrees ==
    ASSUME NEW a \in Party, Initiates(a), DevicesAgree(a),
           NEW p \in Party, NEW i \in Slot, OnlySlot(p, i),
           UNCHANGED <<sess, spk, opk, offered, imports, sealed, opened, failed>>,
           \A m \in net' : OnTheWay(m),
           task'[p][i].at \in Answering => OnTheWay(task'[p][i].msg),
           i \in Frame => FrameAgrees(a, p, i)',
           i = "ui" => task'[p][i].at # "import"
    PROVE  DevicesAgree(a)'
<1>1. PICK b : b = Peer(a)
  OBVIOUS
<1>2. \A q : SealedOf(q)' = SealedOf(q)
  BY SealedStays
<1>3. ASSUME NEW o, Unanswered(a, o) PROVE Unanswered(a, o)'
  <2>1. \A m : OnTheWay(m)' => OnTheWay(m)
    BY WayStep
  <2> QED BY <1>2, <1>3, <2>1 DEF Unanswered
<1>4. ASSUME sess[b] # None PROVE JoinedNow(b, sess[b])'
  BY <1>1, <1>2, <1>4, DeviceFacts DEF JoinedNow
<1>5. StoresAgree(a)'
  <2>1. /\ imports \in [Party -> Nat] /\ imports[b] = 0 /\ failed = {}
        /\ \A o \in offered[b] : offered[b] = {o} /\ o.spk = spk[b]
        /\ sess[a] = None => /\ sess[b] = None /\ sealed = {}
                             /\ \A o \in offered[b] : o.otk \in opk[b]
        /\ sess[a] # None => offered[b] # {} /\ ~(imports[a] < MaxImports[a])
        /\ sess[a] # None /\ sess[b] = None =>
              /\ SealedOf(b) = {} /\ opened = {}
              /\ \E o \in offered[b] : Knocks(a, sess[a], o, SealedOf(a)) /\ Unanswered(a, o)
    BY <1>1, DeviceFacts
  <2>2. sess[a] # None /\ sess[b] = None =>
           \E o \in offered[b] : Knocks(a, sess[a], o, SealedOf(a)) /\ Unanswered(a, o)'
    BY <1>3, <2>1
  <2> QED BY <1>1, <1>2, <1>4, <2>1, <2>2 DEF StoresAgree
<1>6. UiAgrees(a)'
  <2>1. "ui" \in Slot /\ b \in Party
    BY <1>1, Slots, DeviceFacts
  <2>2. \A q \in Party : task'[q]["ui"].at = "import" => task[q]["ui"].at = "import"
    BY <2>1 DEF OnlySlot
  <2> QED BY <1>1, <2>1, <2>2, DeviceFacts DEF UiAgrees
<1>7. FramesAgree(a)'
  BY JoinedStays, FramesStep DEF DevicesAgree
<1> QED BY <1>5, <1>6, <1>7 DEF DevicesAgree

-----------------------------------------------------------------------------
(* Steps that change no session *)

\* A send begins, throws, is posted or is recorded.
LEMMA SendAgrees ==
    ASSUME MsgInv, NEW a \in Party, Initiates(a), DevicesAgree(a), NEW p \in Party,
           SendBegin(p) \/ SendNoSession(p) \/ SendPost(p) \/ SendRecord(p)
    PROVE  DevicesAgree(a)'
<1>1. "ui" \in Slot /\ "ui" \notin Frame
  BY Slots
<1>2. PICK t, m : t = task'[p]["ui"] /\ m = task[p]["ui"].msg
  OBVIOUS
<1>3. /\ UNCHANGED <<sess, spk, opk, offered, imports, sealed, opened, failed>>
      /\ \/ net' = net
         \/ net' = net \cup {m} /\ task[p]["ui"].at = "post"
  BY <1>2 DEF SendBegin, SendNoSession, SendPost, SendRecord, Running, vars, stores, counts
<1>4. OnlySlot(p, "ui") /\ t.at \in {"seal", "record", "idle"}
  <2>1. task[p]["ui"] \in Tasks /\ Idle \in Tasks /\ TaskTypes
    BY <1>1, TaskFacts DEF MsgInv
  <2>2. CASE SendBegin(p)
    <3>1. PICK to : Becomes(p, "ui", [Idle EXCEPT !.at = "seal", !.copy = sess[p],
                                                  !.n = sends[p], !.to = to])
      BY <2>2 DEF SendBegin
    <3>2. PICK u : u = [Idle EXCEPT !.at = "seal", !.copy = sess[p],
                                    !.n = sends[p], !.to = to]
      OBVIOUS
    <3>3. u.at = "seal" /\ Becomes(p, "ui", u)
      BY <3>1, <3>2 DEF Idle
    <3> QED BY <1>1, <1>2, <2>1, <3>3, OneSlot
  <2>3. CASE SendNoSession(p) \/ SendPost(p)
    <3>1. PICK u : u = [task[p]["ui"] EXCEPT !.at = "record"]
      OBVIOUS
    <3>2. u.at = "record" /\ Becomes(p, "ui", u)
      BY <2>1, <2>3, <3>1 DEF SendNoSession, SendPost, Tasks
    <3> QED BY <1>1, <1>2, <2>1, <3>2, OneSlot
  <2>4. CASE SendRecord(p)
    <3>1. Idle.at = "idle" /\ Becomes(p, "ui", Idle)
      BY <2>4 DEF SendRecord, Idle
    <3> QED BY <1>1, <1>2, <2>1, <3>1, OneSlot
  <2> QED BY <2>2, <2>3, <2>4
<1>5. \A x \in net' : OnTheWay(x)
  BY <1>1, <1>2, <1>3 DEF OnTheWay, Answering
<1> QED BY <1>1, <1>2, <1>3, <1>4, <1>5, QuietAgrees DEF Answering

\* A message arrives; without a session, it is the first one.
LEMMA ArrivalAgrees ==
    ASSUME MsgInv, NEW a \in Party, Initiates(a), DevicesAgree(a), Orderly, OneFrame,
           NEW p \in Party, NEW i \in Frame, NEW m \in net, ReceiveBegin(p, i, m)
    PROVE  DevicesAgree(a)'
<1>1. i \in Slot /\ i # "ui"
  BY Slots
<1>2. PICK t : t = [Idle EXCEPT !.at = "read", !.msg = m]
  OBVIOUS
<1>3. /\ Becomes(p, i, t) /\ net' = net \ {m} /\ task[p][i].at = "idle"
      /\ UNCHANGED <<sess, spk, opk, offered, imports, sealed, opened, failed>>
  BY <1>2 DEF ReceiveBegin, Running, stores, counts
<1>4. t.at = "read" /\ t.msg = m
  BY <1>2 DEF Idle
<1>5. task'[p][i] = t /\ OnlySlot(p, i)
  BY <1>1, <1>3, OneSlot DEF MsgInv
<1>6. sess[p] = None => m.seq = 0
  <2>1. \A j \in Frame : ~Running(p, j, "read")
    BY <1>3 DEF OneFrame, Running
  <2>2. Deliverable(p, m)
    BY <2>1 DEF ReceiveBegin, Arrives
  <2> QED BY <2>2 DEF Deliverable
<1>7. FrameAgrees(a, p, i)'
  BY <1>3, <1>4, <1>5, <1>6 DEF FrameAgrees
<1>8. \A x \in net : OnTheWay(x)
  BY DEF OnTheWay
<1> QED BY <1>1, <1>3, <1>4, <1>5, <1>7, <1>8, QuietAgrees

\* A handler reads the session, or records what it has opened.
LEMMA HandlerAgrees ==
    ASSUME MsgInv, NEW a \in Party, Initiates(a), DevicesAgree(a),
           NEW p \in Party, NEW i \in Frame, ReceiveRead(p, i) \/ ReceiveRecord(p, i)
    PROVE  DevicesAgree(a)'
<1>1. i \in Slot /\ i # "ui"
  BY Slots
<1>2. UNCHANGED <<sess, spk, opk, offered, imports, net, sealed, opened, failed>>
  BY DEF ReceiveRead, ReceiveRecord, vars, stores, counts
<1>3. PICK m : m = task[p][i].msg
  OBVIOUS
<1>4. /\ OnlySlot(p, i) /\ FrameAgrees(a, p, i)'
      /\ task'[p][i].at \in Answering => OnTheWay(task'[p][i].msg)
  <2>1. task[p][i] \in Tasks /\ TaskTypes
    BY <1>1, TaskFacts DEF MsgInv
  <2>2. CASE ReceiveRead(p, i)
    <3>1. PICK t : t = [task[p][i] EXCEPT
                          !.copy = sess[p],
                          !.at = IF sess[p] = None THEN "answer" ELSE "decrypt"]
      OBVIOUS
    <3>2. Becomes(p, i, t) /\ task[p][i].at = "read"
      BY <2>2, <3>1 DEF ReceiveRead, Running
    <3>3. /\ t.msg = m /\ t.copy = sess[p]
          /\ t.at = IF sess[p] = None THEN "answer" ELSE "decrypt"
      BY <1>3, <2>1, <3>1 DEF Tasks
    <3>4. task'[p][i] = t /\ OnlySlot(p, i)
      BY <1>1, <2>1, <3>2, OneSlot
    <3>5. sess[p] = None => m.seq = 0
      BY <1>3, <3>2, HandlerFacts
    <3>6. FrameAgrees(a, p, i)'
      BY <1>2, <3>3, <3>4, <3>5 DEF FrameAgrees
    <3>7. OnTheWay(m)
      BY <1>1, <1>3, <3>2 DEF OnTheWay, Answering
    <3> QED BY <3>3, <3>4, <3>6, <3>7
  <2>3. CASE ReceiveRecord(p, i)
    <3>1. Becomes(p, i, Idle) /\ Idle.at = "idle"
      BY <2>3 DEF ReceiveRecord, Idle
    <3>2. task'[p][i] = Idle /\ OnlySlot(p, i)
      BY <1>1, <2>1, <3>1, OneSlot
    <3> QED BY <3>1, <3>2 DEF FrameAgrees, Answering
  <2> QED BY <2>2, <2>3
<1>5. \A x \in net : OnTheWay(x)
  BY DEF OnTheWay
<1> QED BY <1>1, <1>2, <1>4, <1>5, QuietAgrees

\* The process of a device ends.
LEMMA CrashAgrees ==
    ASSUME MsgInv, NEW a \in Party, Initiates(a), DevicesAgree(a), NEW p \in Party, Crash(p)
    PROVE  DevicesAgree(a)'
<1>1. PICK b : b = Peer(a)
  OBVIOUS
<1>2. /\ task' = [task EXCEPT ![p] = [j \in Slot |-> Idle]]
      /\ UNCHANGED <<sess, spk, opk, offered, imports, net, sealed, opened, failed>>
  BY DEF Crash, vars, stores, counts
<1>3. \A q \in Party, j \in Slot : task'[q][j] = IF q = p THEN Idle ELSE task[q][j]
  BY <1>2 DEF MsgInv, TaskTypes
<1>4. Idle.at = "idle"
  BY DEF Idle
<1>5. \A m : OnTheWay(m)' => OnTheWay(m)
  <2> SUFFICES ASSUME NEW m, OnTheWay(m)' PROVE OnTheWay(m)
    OBVIOUS
  <2>1. ASSUME NEW q \in Party, NEW j \in Slot,
               task'[q][j].at \in Answering, task'[q][j].msg = m
        PROVE  task[q][j].at \in Answering /\ task[q][j].msg = m
    BY <1>3, <1>4, <2>1 DEF Answering
  <2> QED BY <1>2, <2>1 DEF OnTheWay
<1>6. \A q : SealedOf(q)' = SealedOf(q)
  BY <1>2, SealedStays
<1>7. ASSUME NEW o, Unanswered(a, o) PROVE Unanswered(a, o)'
  BY <1>2, <1>5, <1>6, <1>7 DEF Unanswered
<1>8. StoresAgree(a)'
  <2>1. /\ imports \in [Party -> Nat] /\ imports[b] = 0 /\ failed = {}
        /\ \A o \in offered[b] : offered[b] = {o} /\ o.spk = spk[b]
        /\ sess[a] = None => /\ sess[b] = None /\ sealed = {}
                             /\ \A o \in offered[b] : o.otk \in opk[b]
        /\ sess[a] # None => offered[b] # {} /\ ~(imports[a] < MaxImports[a])
        /\ sess[a] # None /\ sess[b] = None =>
              /\ SealedOf(b) = {} /\ opened = {}
              /\ \E o \in offered[b] : Knocks(a, sess[a], o, SealedOf(a)) /\ Unanswered(a, o)
        /\ sess[b] # None => JoinedNow(b, sess[b])
    BY <1>1, DeviceFacts
  <2>2. sess[a] # None /\ sess[b] = None =>
           \E o \in offered[b] : Knocks(a, sess[a], o, SealedOf(a)) /\ Unanswered(a, o)'
    BY <1>7, <2>1
  <2>3. sess[b] # None => JoinedNow(b, sess[b])'
    BY <1>2, <1>6, <2>1 DEF JoinedNow
  <2> QED BY <1>1, <1>2, <1>6, <2>1, <2>2, <2>3 DEF StoresAgree
<1>9. UiAgrees(a)'
  <2>1. "ui" \in Slot /\ b \in Party
    BY <1>1, Slots, DeviceFacts
  <2>2. \A q \in Party : task'[q]["ui"].at = "import" => task[q]["ui"].at = "import"
    BY <1>3, <1>4, <2>1
  <2> QED BY <1>1, <1>2, <2>1, <2>2, DeviceFacts DEF UiAgrees
<1>10. FramesAgree(a)'
  <2> SUFFICES ASSUME NEW q \in Party, NEW j \in Frame PROVE FrameAgrees(a, q, j)'
    BY DEF FramesAgree
  <2>1. j \in Slot
    BY Slots
  <2>2. CASE q = p
    <3>1. task'[q][j].at = "idle"
      BY <1>3, <1>4, <2>1, <2>2
    <3> QED BY <3>1 DEF FrameAgrees
  <2>3. CASE q # p
    <3>1. task'[q][j] = task[q][j]
      BY <1>3, <2>1, <2>3
    <3>2. FrameAgrees(a, q, j)
      BY DEF DevicesAgree, FramesAgree
    <3>3. \A x : SealedOf(x)' = SealedOf(x)
      BY <1>6
    <3> QED BY <1>2, <3>1, <3>2, <3>3 DEF FrameAgrees, JoinedNow
  <2> QED BY <2>2, <2>3
<1> QED BY <1>8, <1>9, <1>10 DEF DevicesAgree

-----------------------------------------------------------------------------
(* Bundles and the import *)

\* A bundle of b is its first, and nobody has imported it yet.
LEMMA ExportAgrees ==
    ASSUME MsgInv, NEW a \in Party, Initiates(a), DevicesAgree(a), NEW p \in Party, Export(p)
    PROVE  DevicesAgree(a)'
<1>1. PICK b : b = Peer(a)
  OBVIOUS
<1>2. /\ GeneratePreKeyBundle(p)
      /\ UNCHANGED <<sess, imports, net, opened, failed, task, sealed>>
      /\ spk \in [Party -> KeyPairs \cup {None}] /\ opk \in [Party -> SUBSET KeyPairs]
      /\ offered \in [Party -> SUBSET Bundles]
  BY DEF Export, GeneratePreKeyBundle, counts, device, MsgInv, StoreTypes
<1>3. /\ \A q : SealedOf(q)' = SealedOf(q)
      /\ \A m : OnTheWay(m)' <=> OnTheWay(m)
  BY <1>2, SealedStays DEF OnTheWay
<1>4. b \in Party /\ b # a /\ (p = a \/ p = b)
  BY <1>1, DeviceFacts
<1>5. FramesAgree(a)'
  BY <1>2, <1>3 DEF DevicesAgree, FramesAgree, FrameAgrees, JoinedNow
<1>6. CASE p = a
  <2>1. /\ spk'[b] = spk[b] /\ opk'[b] = opk[b] /\ offered'[b] = offered[b]
    BY <1>2, <1>4, <1>6 DEF GeneratePreKeyBundle
  <2>2. \A o : Unanswered(a, o)' <=> Unanswered(a, o)
    BY <1>1, <1>3, <2>1 DEF Unanswered
  <2>3. StoresAgree(a)'
    <3>1. StoresAgree(a)
      BY DEF DevicesAgree
    <3> QED BY <1>1, <1>2, <1>3, <2>1, <2>2, <3>1 DEF StoresAgree, JoinedNow
  <2>4. UiAgrees(a)'
    BY <1>1, <1>2, <2>1 DEF DevicesAgree, UiAgrees
  <2> QED BY <1>5, <2>3, <2>4 DEF DevicesAgree
<1>7. CASE p = b
  <2>1. PICK k, otk : k = NewKey(b) /\ otk = KeyPair(b, fresh[b] + 1)
    OBVIOUS
  <2>2. PICK o : o = [spk |-> k, otk |-> otk]
    OBVIOUS
  <2>3. offered[b] = {}
    <3>1. /\ MaxBundles[b] <= 1 /\ GeneratePreKeyBundle(b)
          /\ \A c \in offered[b] : offered[b] = {c}
      BY <1>1, <1>2, <1>7, DeviceFacts
    <3> QED BY <1>4, <3>1, FirstBundle
  <2>4. offered'[b] = {o} /\ spk'[b] = k /\ opk'[b] = opk[b] \cup {otk}
    BY <1>2, <1>4, <1>7, <2>1, <2>2, <2>3 DEF GeneratePreKeyBundle
  <2>5. o.spk = k /\ o.otk = otk
    BY <2>2
  <2>6. /\ sess[a] = None /\ sess[b] = None /\ sealed = {}
        /\ imports \in [Party -> Nat] /\ imports[b] = 0 /\ failed = {}
        /\ task[b]["ui"].at # "import" /\ task[a]["ui"].at # "import"
    BY <1>1, <2>3, DeviceFacts
  <2>7. StoresAgree(a)'
    BY <1>1, <1>2, <2>4, <2>5, <2>6 DEF StoresAgree
  <2>8. UiAgrees(a)'
    BY <1>1, <1>2, <2>6 DEF UiAgrees
  <2> QED BY <1>5, <2>7, <2>8 DEF DevicesAgree
<1> QED BY <1>4, <1>6, <1>7

\* The import is that of a, before anything was sealed.
LEMMA ContactAgrees ==
    ASSUME MsgInv, NEW a \in Party, Initiates(a), DevicesAgree(a), NEW p \in Party,
           ImportContact(p)
    PROVE  DevicesAgree(a)'
<1>1. PICK b : b = Peer(a)
  OBVIOUS
<1>2. "ui" \in Slot /\ "ui" \notin Frame
  BY Slots
<1>3. /\ UNCHANGED <<sess, spk, opk, offered, net, sealed, opened, failed>>
      /\ imports[p] < MaxImports[p] /\ imports' = [imports EXCEPT ![p] = @ + 1]
  BY DEF ImportContact, stores
<1>4. /\ b \in Party /\ b # a /\ a = Peer(b) /\ (p = a \/ p = b) /\ imports[b] = 0
      /\ MaxImports[b] = 0 /\ MaxImports[a] <= 1 /\ MaxImports[a] \in Nat
      /\ imports \in [Party -> Nat]
  BY <1>1, DeviceFacts, RatchetAssumption
<1>5. p = a
  BY <1>3, <1>4
<1>6. /\ imports' \in [Party -> Nat] /\ imports'[b] = 0
      /\ ~(imports'[a] < MaxImports[a])
  BY <1>3, <1>4, <1>5
<1>7. /\ sess[a] = None /\ sess[b] = None /\ sealed = {} /\ failed = {}
      /\ \A o \in offered[b] : offered[b] = {o} /\ o.spk = spk[b] /\ o.otk \in opk[b]
      /\ task[b]["ui"].at # "import"
  BY <1>1, <1>3, <1>5, DeviceFacts
<1>8. PICK o \in offered[b] : Becomes(a, "ui", [Idle EXCEPT !.at = "import", !.copy = o])
  BY <1>1, <1>5 DEF ImportContact
<1>9. PICK t : t = [Idle EXCEPT !.at = "import", !.copy = o]
  OBVIOUS
<1>10. OnlySlot(a, "ui")
  <2>1. TaskTypes /\ Becomes(a, "ui", t)
    BY <1>8, <1>9 DEF MsgInv
  <2> QED BY <1>2, <2>1, OneSlot
<1>11. StoresAgree(a)'
  BY <1>1, <1>3, <1>6, <1>7 DEF StoresAgree
<1>12. UiAgrees(a)'
  <2>1. task'[b]["ui"] = task[b]["ui"]
    BY <1>2, <1>4, <1>10 DEF OnlySlot
  <2> QED BY <1>1, <1>3, <1>6, <1>7, <1>8, <2>1 DEF UiAgrees
<1>13. FramesAgree(a)'
  BY <1>2, <1>3, <1>10, JoinedStays, FramesStep DEF DevicesAgree
<1> QED BY <1>11, <1>12, <1>13 DEF DevicesAgree

\* With its session, a knocks.
LEMMA KnockAgrees ==
    ASSUME MsgInv, NEW a \in Party, Initiates(a), DevicesAgree(a), NEW p \in Party,
           ImportSession(p)
    PROVE  DevicesAgree(a)'
<1>1. PICK b : b = Peer(a)
  OBVIOUS
<1>2. "ui" \in Slot /\ "ui" \notin Frame /\ Idle.at = "idle"
  BY Slots DEF Idle
<1>3. PICK o : o = task[p]["ui"].copy
  OBVIOUS
<1>4. PICK ek : ek = NewKey(p)
  OBVIOUS
<1>5. PICK x : x = AliceSession(p, ek, o)
  OBVIOUS
<1>6. /\ Becomes(p, "ui", Idle) /\ task[p]["ui"].at = "import"
      /\ sess' = [sess EXCEPT ![p] = x]
      /\ UNCHANGED <<spk, opk, offered, imports, net, sealed, opened, failed>>
  BY <1>3, <1>4, <1>5 DEF ImportSession, Running, stores, counts
<1>7. /\ p = a /\ b \in Party /\ b # a /\ a = Peer(b)
      /\ sess[a] = None /\ sess[b] = None /\ sealed = {}
      /\ imports \in [Party -> Nat] /\ imports[b] = 0 /\ failed = {}
      /\ offered[b] # {} /\ ~(imports[a] < MaxImports[a])
      /\ \A c \in offered[b] : offered[b] = {c} /\ c.spk = spk[b] /\ c.otk \in opk[b]
      /\ task[b]["ui"].at # "import"
  BY <1>1, <1>6, DeviceFacts
<1>8. o \in offered[b]
  BY <1>1, <1>2, <1>3, <1>6, <1>7 DEF MsgInv, Copies, CopyOK
<1>9. Knocks(a, x, o, {}) /\ x # None
  <2>1. PICK f \in Nat : f = fresh[a]
    BY MsgParty
  <2>2. /\ o \in [spk : KeyPairs, otk : KeyPairs] /\ o.spk.of = Peer(a) /\ o.otk.of = Peer(a)
        /\ ek = KeyPair(a, f)
    BY <1>1, <1>4, <1>7, <1>8, <2>1, MsgParty
  <2>3. x = AliceSession(a, KeyPair(a, f), o)
    BY <1>5, <1>7, <2>2
  <2> QED BY <2>2, <2>3, AliceKnocks
<1>10. opened = {} /\ SealedOf(a) = {} /\ SealedOf(b) = {}
  BY <1>7 DEF SealedOf, MsgInv, Mail, Sent
<1>11. \A q : SealedOf(q)' = SealedOf(q)
  BY <1>6, SealedStays
<1>12. sess'[a] = x /\ sess'[b] = None
  BY <1>6, <1>7 DEF MsgInv, StoreTypes
<1>13. StoresAgree(a)'
  <2>1. Unanswered(a, o)'
    BY <1>1, <1>6, <1>7, <1>8 DEF Unanswered
  <2>2. Knocks(a, x, o, SealedOf(a))' /\ SealedOf(b)' = {} /\ opened' = {}
    <3>1. SealedOf(a)' = {} /\ SealedOf(b)' = {} /\ opened' = {}
      BY <1>6, <1>10, <1>11
    <3> QED BY <1>9, <3>1
  <2> QED BY <1>1, <1>6, <1>7, <1>8, <1>9, <1>12, <2>1, <2>2 DEF StoresAgree
<1>14. task'[p]["ui"] = Idle /\ OnlySlot(p, "ui")
  BY <1>2, <1>6, OneSlot DEF MsgInv
<1>15. UiAgrees(a)'
  <2>1. task'[b]["ui"] = task[b]["ui"]
    BY <1>2, <1>7, <1>14 DEF OnlySlot
  <2> QED BY <1>1, <1>2, <1>7, <1>14, <2>1 DEF UiAgrees
<1>16. FramesAgree(a)'
  <2> SUFFICES ASSUME NEW q \in Party, NEW j \in Frame PROVE FrameAgrees(a, q, j)'
    BY DEF FramesAgree
  <2>1. j \in Slot /\ task'[q][j] = task[q][j]
    BY <1>2, <1>14, Slots DEF OnlySlot
  <2>2. task[q][j].at \notin Waiting
    BY <1>7, <2>1, HeldFacts
  <2> QED BY <2>1, <2>2 DEF FrameAgrees, Waiting
<1> QED BY <1>13, <1>15, <1>16 DEF DevicesAgree

-----------------------------------------------------------------------------
(* The answer *)

\* The first message is answered: the session that is made joins that of a.
LEMMA TakeKeyAgrees ==
    ASSUME MsgInv, NEW a \in Party, Initiates(a), DevicesAgree(a),
           NEW p \in Party, NEW i \in Frame, ReceiveTakeKey(p, i)
    PROVE  DevicesAgree(a)'
<1>1. PICK b : b = Peer(a)
  OBVIOUS
<1>2. i \in Slot /\ i # "ui" /\ "ui" \in Slot
  BY Slots
<1>3. PICK m : m = task[p][i].msg
  OBVIOUS
<1>4. PICK s : s = BobSession(p, m)
  OBVIOUS
<1>5. PICK t : t = [task[p][i] EXCEPT !.copy = s, !.at = "answered"]
  OBVIOUS
<1>6. /\ Becomes(p, i, t) /\ task[p][i].at = "answer"
      /\ UNCHANGED <<sess, spk, offered, imports, net, sealed, opened, failed>>
  BY <1>3, <1>4, <1>5 DEF ReceiveTakeKey, Running, counts
<1>7. /\ m \in sealed \ Sent /\ m.from = Peer(p) /\ m.seq = 0 /\ sess[p] = None
  <2>1. m \in sealed \ Sent /\ m.from = Sender(p, i)
    BY <1>2, <1>3, <1>6, HeldFacts DEF Waiting
  <2> QED BY <1>2, <1>3, <1>6, <2>1, HandlerFacts DEF Sender
<1>8. /\ p = b /\ b \in Party /\ b # a /\ a = Peer(b) /\ sess[a] # None /\ sess[b] = None
      /\ SealedOf(b) = {} /\ opened = {}
      /\ \E o \in offered[b] : Knocks(a, sess[a], o, SealedOf(a)) /\ Unanswered(a, o)
      /\ \A o \in offered[b] : offered[b] = {o} /\ o.spk = spk[b]
      /\ imports \in [Party -> Nat] /\ imports[b] = 0 /\ failed = {}
      /\ offered[b] # {} /\ ~(imports[a] < MaxImports[a])
      /\ task[b]["ui"].at # "import" /\ task[a]["ui"].at # "import"
  BY <1>1, <1>7, DeviceFacts
<1>9. PICK x, X : x = sess[a] /\ X = SealedOf(a)
  OBVIOUS
<1>10. PICK o \in offered[b] : Knocks(a, x, o, X) /\ Unanswered(a, o)
  BY <1>8, <1>9
<1>11. m \in X /\ m.from = a
  BY <1>7, <1>8, <1>9 DEF SealedOf
<1>12. o.otk \in opk[b]
  <2> SUFFICES ASSUME NEW n \in X, n.seq = 0, ~OnTheWay(n) PROVE FALSE
    BY <1>1, <1>9, <1>10 DEF Unanswered
  <2>1. n = m
    BY <1>7, <1>10, <1>11 DEF Knocks, Sends
  <2>2. OnTheWay(m)
    BY <1>2, <1>3, <1>6 DEF OnTheWay, Answering
  <2> QED BY <2>1, <2>2
<1>13. Joined(s, x, {}, X, {})
  <2>1. o.spk = spk[b] /\ o.spk # NewKey(b)
    BY <1>8, MsgParty
  <2>2. x \in Sessions
    BY <1>8, <1>9 DEF MsgInv, StoreTypes
  <2>3. m.seq = 0 /\ s = BobSession(b, m)
    BY <1>4, <1>7, <1>8
  <2> QED BY <1>1, <1>8, <1>10, <1>11, <1>12, <2>1, <2>2, <2>3, AnswerLinks
<1>14. JoinedNow(b, s)
  BY <1>8, <1>9, <1>13 DEF JoinedNow
<1>15. task'[p][i] = t /\ OnlySlot(p, i) /\ t.at = "answered" /\ t.copy = s
  <2>1. task[p][i] \in Tasks
    BY <1>2, TaskFacts
  <2>2. t.at = "answered" /\ t.copy = s
    BY <1>5, <2>1 DEF Tasks
  <2>3. TaskTypes
    BY DEF MsgInv
  <2> QED BY <1>2, <1>6, <2>2, <2>3, OneSlot
<1>16. ~OnTheWay(m)'
  <2> SUFFICES ASSUME OnTheWay(m)' PROVE FALSE
    OBVIOUS
  <2>1. m \notin net'
    BY <1>6, <1>7 DEF Sent
  <2>2. PICK q \in Party, j \in Slot : task'[q][j].at \in Answering /\ task'[q][j].msg = m
    BY <2>1 DEF OnTheWay
  <2>3. q # p \/ j # i
    BY <1>15, <2>2 DEF Answering
  <2>4. task[q][j].at \in Working /\ task[q][j].msg = m
    BY <1>15, <2>2, <2>3 DEF OnlySlot, Answering, Working, Waiting
  <2>5. SameMessage(p, i, q, j)
    BY <1>3, <1>6, <2>4 DEF SameMessage, Working, Waiting
  <2> QED BY <1>2, <2>3, <2>5 DEF MsgInv, HeldOnce
<1>17. \A q : SealedOf(q)' = SealedOf(q)
  BY <1>6, SealedStays
<1>18. StoresAgree(a)'
  <2>1. Unanswered(a, o)'
    BY <1>7, <1>9, <1>11, <1>16, <1>17 DEF Unanswered
  <2> QED BY <1>1, <1>6, <1>8, <1>9, <1>10, <1>17, <2>1 DEF StoresAgree
<1>19. UiAgrees(a)'
  <2>1. task'[a]["ui"] = task[a]["ui"] /\ task'[b]["ui"] = task[b]["ui"]
    BY <1>2, <1>8, <1>15 DEF OnlySlot
  <2> QED BY <1>1, <1>8, <2>1 DEF UiAgrees
<1>20. FramesAgree(a)'
  <2>1. FrameAgrees(a, p, i)'
    <3>1. JoinedNow(b, s)'
      BY <1>6, <1>14, JoinedStays
    <3> QED BY <1>1, <1>6, <1>8, <1>15, <3>1 DEF FrameAgrees, JoinedNow
  <2> QED BY <1>2, <1>6, <1>15, <2>1, JoinedStays, FramesStep DEF DevicesAgree
<1> QED BY <1>18, <1>19, <1>20 DEF DevicesAgree

\* The session that answers is saved.
LEMMA AnswerAgrees ==
    ASSUME MsgInv, NEW a \in Party, Initiates(a), DevicesAgree(a), OneFrame,
           NEW p \in Party, NEW i \in Frame, ReceiveAnswer(p, i)
    PROVE  DevicesAgree(a)'
<1>1. PICK b : b = Peer(a)
  OBVIOUS
<1>2. i \in Slot /\ i # "ui" /\ "ui" \in Slot
  BY Slots
<1>3. PICK c : c = task[p][i].copy
  OBVIOUS
<1>4. PICK t : t = [task[p][i] EXCEPT !.at = "decrypt"]
  OBVIOUS
<1>5. /\ Becomes(p, i, t) /\ task[p][i].at = "answered" /\ sess' = [sess EXCEPT ![p] = c]
      /\ UNCHANGED <<spk, opk, offered, imports, net, sealed, opened, failed>>
  BY <1>3, <1>4 DEF ReceiveAnswer, Running, stores, counts
<1>6. /\ p = b /\ sess[b] = None /\ JoinedNow(b, c)
  BY <1>1, <1>3, <1>5, HandlerFacts
<1>7. sealed # {}
  BY <1>2, <1>5, HeldFacts DEF Waiting
<1>8. /\ b \in Party /\ b # a /\ a = Peer(b) /\ sess[a] # None
      /\ \A o \in offered[b] : offered[b] = {o} /\ o.spk = spk[b]
      /\ imports \in [Party -> Nat] /\ imports[b] = 0 /\ failed = {}
      /\ offered[b] # {} /\ ~(imports[a] < MaxImports[a])
      /\ task[b]["ui"].at # "import" /\ task[a]["ui"].at # "import"
  BY <1>1, <1>7, DeviceFacts
<1>9. GoodNow(p, c)
  BY <1>2, <1>3, <1>5 DEF MsgInv, Copies, CopyOK
<1>10. c # None
  BY <1>9, GoodSession
<1>11. sess'[b] = c /\ sess'[a] = sess[a]
  BY <1>5, <1>6, <1>8 DEF MsgInv, StoreTypes
<1>12. \A q : SealedOf(q)' = SealedOf(q)
  BY <1>5, SealedStays
<1>13. StoresAgree(a)'
  <2>1. JoinedNow(b, sess[b])'
    <3>1. Joined(c, sess[a], SealedOf(b), SealedOf(a), opened)
      BY <1>6, <1>8 DEF JoinedNow
    <3> QED BY <1>5, <1>8, <1>11, <1>12, <3>1 DEF JoinedNow
  <2> QED BY <1>1, <1>5, <1>8, <1>10, <1>11, <2>1 DEF StoresAgree
<1>14. task'[p][i] = t /\ OnlySlot(p, i) /\ t.at = "decrypt" /\ t.copy = c
  <2>1. task[p][i] \in Tasks
    BY <1>2, TaskFacts
  <2>2. t.at = "decrypt" /\ t.copy = c
    BY <1>3, <1>4, <2>1 DEF Tasks
  <2>3. TaskTypes
    BY DEF MsgInv
  <2> QED BY <1>2, <1>5, <2>2, <2>3, OneSlot
<1>15. UiAgrees(a)'
  <2>1. task'[a]["ui"] = task[a]["ui"] /\ task'[b]["ui"] = task[b]["ui"]
    BY <1>2, <1>8, <1>14 DEF OnlySlot
  <2> QED BY <1>1, <1>8, <2>1 DEF UiAgrees
<1>16. FramesAgree(a)'
  <2>1. FrameAgrees(a, p, i)'
    BY <1>6, <1>11, <1>14 DEF FrameAgrees
  <2>2. \A j \in Frame : j = i
    BY DEF OneFrame
  <2>3. \A q \in Party : q # p => sess'[q] = sess[q]
    BY <1>5
  <2> QED BY <1>1, <1>2, <1>6, <1>14, <2>1, <2>2, <2>3, FramesStep DEF DevicesAgree
<1> QED BY <1>13, <1>15, <1>16 DEF DevicesAgree

-----------------------------------------------------------------------------
(* Sealing and opening *)

\* A message that is sealed is one more of those of its sender.
LEMMA SealAgrees ==
    ASSUME MsgInv, NEW a \in Party, Initiates(a), DevicesAgree(a),
           NEW p \in Party, SendSeal(p)
    PROVE  DevicesAgree(a)'
<1>1. PICK b, q : b = Peer(a) /\ q = Peer(p)
  OBVIOUS
<1>2. PICK s, n : s = task[p]["ui"].copy /\ n = task[p]["ui"].n
  OBVIOUS
<1>3. PICK w : w = WithSendChain(s)
  OBVIOUS
<1>4. PICK m, u : m = Sealed(p, n, w) /\ u = NextSend(w)
  OBVIOUS
<1>5. PICK t : t = [task[p]["ui"] EXCEPT !.at = "post", !.copy = None, !.msg = m]
  OBVIOUS
<1>6. /\ Becomes(p, "ui", t) /\ task[p]["ui"].at = "seal" /\ s # None
      /\ sess' = [sess EXCEPT ![p] = u] /\ sealed' = sealed \cup {m}
      /\ UNCHANGED <<spk, opk, offered, imports, net, opened, failed>>
  BY <1>2, <1>3, <1>4, <1>5 DEF SendSeal, SaveSealed, Running, stores, counts
<1>7. "ui" \in Slot /\ "ui" \notin Frame /\ \A j \in Frame : task[p][j].at = "idle"
  BY <1>6, Slots, TaskFacts
<1>8. s = sess[p]
  BY <1>2, <1>6, <1>7 DEF MsgInv, Copies, CopyOK
<1>9. PICK U, f, A, B : U = Keys(p) /\ f = fresh[p] /\ A = Spks(p) /\ B = Spks(Peer(p))
  OBVIOUS
<1>10. Good(p, s, U, f, A, B)
  BY <1>6, <1>8, <1>9 DEF MsgInv, Stored, GoodNow
<1>11. KeysInv(p, s, U, f) /\ StepsOK(s)
  BY <1>10 DEF Good
<1>12. /\ s.ns \in Nat /\ s.pn \in Nat /\ u \in Sessions
       /\ w.root = SendRoot(s) /\ u.root = w.root /\ u.send # None
       /\ s.send # None => w.root = s.root
       /\ u.ns = s.ns + 1 /\ u.pn = s.pn /\ u.local = s.local /\ u.remote = s.remote
       /\ u.recv = s.recv /\ u.skipped = s.skipped
       /\ m.from = p /\ m.dh = s.local /\ m.seq = s.ns /\ m.pn = s.pn
       /\ m.key.root = w.root /\ m.key.step = s.ns
       /\ (s.ns = 0 => m.otk = s.otk) /\ u.otk = s.otk
  BY <1>3, <1>4, <1>11, SealedFields
<1>13. m \notin sealed /\ m \notin opened
  <2>1. w.send \notin U /\ SentBy(p, w.send.root)
    BY <1>3, <1>10, GoodSealed
  <2>2. m.key = w.send
    BY <1>4 DEF Sealed
  <2>3. \A x \in sealed : x.key # m.key
    BY <1>9, <1>12, <2>1, <2>2, NewLetter
  <2>4. opened \subseteq sealed
    BY DEF MsgInv, Mail, Sent
  <2> QED BY <2>3, <2>4
<1>14. /\ SealedOf(p)' = SealedOf(p) \cup {m}
       /\ \A x : x # p => SealedOf(x)' = SealedOf(x)
  BY <1>6, <1>12 DEF SealedOf
<1>15. /\ b \in Party /\ b # a /\ a = Peer(b) /\ (p = a \/ p = b)
       /\ imports \in [Party -> Nat] /\ imports[b] = 0 /\ failed = {}
       /\ \A o \in offered[b] : offered[b] = {o} /\ o.spk = spk[b]
       /\ sess[a] # None /\ offered[b] # {} /\ ~(imports[a] < MaxImports[a])
       /\ sess[b] = None =>
             /\ SealedOf(b) = {} /\ opened = {}
             /\ \E o \in offered[b] : Knocks(a, sess[a], o, SealedOf(a)) /\ Unanswered(a, o)
       /\ sess[b] # None => JoinedNow(b, sess[b])
       /\ task[b]["ui"].at # "import" /\ task[a]["ui"].at # "import"
  BY <1>1, <1>6, <1>8, DeviceFacts
<1>16. /\ sess'[p] = u /\ u # None /\ \A x \in Party : x # p => sess'[x] = sess[x]
  BY <1>6, <1>12, NoneAssumption DEF MsgInv, StoreTypes
<1>17. q \in Party /\ q # p /\ Peer(q) = p /\ (p = a => q = b) /\ (p = b => q = a)
  BY <1>1, Peers
<1>18. ASSUME NEW x \in Sessions, Joined(s, x, SealedOf(p), SealedOf(q), opened)
       PROVE  Joined(u, x, SealedOf(p)', SealedOf(q)', opened')
  <2>1. PICK S, X, O : S = SealedOf(p) /\ X = SealedOf(q) /\ O = opened
    OBVIOUS
  <2>2. Joined(s, x, S, X, O) /\ m \notin O
    BY <1>13, <1>18, <2>1
  <2>3. Joined(u, x, S \cup {m}, X, O)
    BY <1>3, <1>4, <1>11, <2>2, JoinedSeals
  <2> QED BY <1>6, <1>14, <1>17, <2>1, <2>3
<1>19. task'[p]["ui"] = t /\ OnlySlot(p, "ui") /\ t.at = "post" /\ t.msg = m
  <2>1. task[p]["ui"] \in Tasks
    BY <1>7, TaskFacts
  <2>2. t.at = "post" /\ t.msg = m
    BY <1>5, <2>1 DEF Tasks
  <2>3. TaskTypes
    BY DEF MsgInv
  <2> QED BY <1>6, <1>7, <2>2, <2>3, OneSlot
<1>20. StoresAgree(a)'
  <2>1. CASE sess[b] = None
    <3>1. p = a
      BY <1>6, <1>8, <1>15, <2>1
    <3>2. PICK X : X = SealedOf(a)
      OBVIOUS
    <3>3. PICK o \in offered[b] : Knocks(a, s, o, X) /\ Unanswered(a, o)
      BY <1>8, <1>15, <2>1, <3>1, <3>2
    <3>4. /\ s.send # None /\ Sends(s, X) /\ s.otk = o.otk
          /\ \A y \in X : y.dh = s.local /\ (y.seq = 0 => y.otk = o.otk)
      BY <3>3 DEF Knocks
    <3>5. Sends(u, X \cup {m})
      BY <1>12, <3>4, SealSends
    <3>6. Knocks(a, u, o, X \cup {m})
      BY <1>12, <3>3, <3>4, <3>5 DEF Knocks
    <3>7. Unanswered(a, o)'
      <4>1. CASE o.otk \in opk[Peer(a)]
        BY <1>6, <4>1 DEF Unanswered
      <4>2. ASSUME NEW y \in SealedOf(a), y.seq = 0, ~OnTheWay(y) PROVE Unanswered(a, o)'
        <5>1. y # m
          BY <1>13, <4>2 DEF SealedOf
        <5>2. ~OnTheWay(y)'
          <6>1. y \notin net'
            BY <1>6, <4>2 DEF OnTheWay
          <6> QED BY <1>7, <1>19, <4>2, <5>1, <6>1, WayStep
        <5>3. y \in SealedOf(a)'
          BY <1>14, <3>1, <4>2
        <5> QED BY <4>2, <5>2, <5>3 DEF Unanswered
      <4> QED BY <3>3, <4>1, <4>2 DEF Unanswered
    <3>8. /\ SealedOf(a)' = X \cup {m} /\ SealedOf(b)' = {} /\ sess'[a] = u /\ sess'[b] = None
          /\ opened' = {}
      BY <1>6, <1>14, <1>15, <1>16, <2>1, <3>1, <3>2
    <3> QED BY <1>1, <1>6, <1>15, <1>16, <3>3, <3>6, <3>7, <3>8 DEF StoresAgree
  <2>2. CASE sess[b] # None
    <3>1. PICK x : x = sess[q]
      OBVIOUS
    <3>2. x \in Sessions
      BY <1>15, <1>17, <2>2, <3>1 DEF MsgInv, StoreTypes
    <3>3. Joined(s, x, SealedOf(p), SealedOf(q), opened)
      BY <1>8, <1>15, <1>17, <2>2, <3>1 DEF JoinedNow, Joined
    <3>4. Joined(u, x, SealedOf(p)', SealedOf(q)', opened')
      BY <1>18, <3>2, <3>3
    <3>5. Joined(sess'[b], sess'[a], SealedOf(b)', SealedOf(a)', opened')
      BY <1>15, <1>16, <1>17, <3>1, <3>4 DEF Joined
    <3>6. JoinedNow(b, sess[b])'
      BY <1>15, <3>5 DEF JoinedNow
    <3>7. sess'[a] # None /\ sess'[b] # None
      BY <1>15, <1>16, <2>2
    <3> QED BY <1>1, <1>6, <1>15, <3>6, <3>7 DEF StoresAgree
  <2> QED BY <2>1, <2>2
<1>21. UiAgrees(a)'
  <2>1. task'[a]["ui"].at # "import" /\ task'[b]["ui"].at # "import"
    BY <1>7, <1>15, <1>19 DEF OnlySlot
  <2> QED BY <1>1, <2>1 DEF UiAgrees
<1>22. FramesAgree(a)'
  <2>1. ASSUME NEW j \in Frame, NEW c, task[b][j].at = "answered", task[b][j].copy = c,
               JoinedNow(b, c)
        PROVE  JoinedNow(b, c)'
    <3>1. p = a /\ q = b
      BY <1>7, <1>15, <1>17, <2>1
    <3>2. c \in Sessions
      <4>1. j \in Slot
        BY Slots
      <4>2. GoodNow(b, c)
        BY <1>15, <2>1, <4>1 DEF MsgInv, Copies, CopyOK
      <4> QED BY <4>2, GoodSession
    <3>3. Joined(s, c, SealedOf(p), SealedOf(q), opened)
      BY <1>8, <1>15, <2>1, <3>1 DEF JoinedNow, Joined
    <3>4. Joined(u, c, SealedOf(p)', SealedOf(q)', opened')
      BY <1>18, <3>2, <3>3
    <3>5. Joined(c, sess'[a], SealedOf(b)', SealedOf(a)', opened')
      BY <1>16, <3>1, <3>4 DEF Joined
    <3> QED BY <1>15, <3>5 DEF JoinedNow
  <2>2. \A x \in Party, j \in Frame : task[x][j].at # "idle" => sess'[x] = sess[x]
    BY <1>7, <1>16
  <2> QED BY <1>1, <1>7, <1>19, <2>1, <2>2, FramesStep DEF DevicesAgree
<1> QED BY <1>20, <1>21, <1>22 DEF DevicesAgree

\* The session that a handler decrypts with, and that of the sender.
LEMMA HandlerJoined ==
    ASSUME MsgInv, NEW a \in Party, Initiates(a), DevicesAgree(a),
           NEW p \in Party, NEW i \in Frame, task[p][i].at = "decrypt",
           NEW m, m = task[p][i].msg, NEW s, s = task[p][i].copy, NEW q, q = Peer(p)
    PROVE  /\ m \in sealed \ Sent /\ m \in SealedOf(q) /\ m \notin SealedOf(p)
           /\ s = sess[p] /\ GoodNow(p, s)
           /\ sess[a] # None /\ sess[Peer(a)] # None /\ sess[q] \in Sessions
           /\ Joined(s, sess[q], SealedOf(p), SealedOf(q), opened)
<1>1. PICK b : b = Peer(a)
  OBVIOUS
<1>2. i \in Slot /\ i # "ui"
  BY Slots
<1>3. m \in sealed \ Sent /\ m.from = q
  BY <1>2, HeldFacts DEF Waiting, Sender
<1>4. s = sess[p] /\ GoodNow(p, s)
  BY <1>2, HandlerFacts DEF MsgInv, Copies, CopyOK
<1>5. s # None
  BY <1>4, GoodSession
<1>6. b \in Party /\ b # a /\ a = Peer(b) /\ ((p = a /\ q = b) \/ (p = b /\ q = a)) /\ q # p
  BY <1>1, DeviceFacts
<1>7. m \in SealedOf(q) /\ m \notin SealedOf(p)
  BY <1>3, <1>6 DEF SealedOf
<1>8. sess[a] # None /\ sess[b] # None
  <2>1. sess[a] # None
    BY <1>1, <1>3, DeviceFacts
  <2>2. ASSUME sess[b] = None PROVE FALSE
    <3>1. SealedOf(b) = {}
      BY <1>1, <2>1, <2>2, DeviceFacts
    <3> QED BY <1>4, <1>5, <1>6, <1>7, <2>2, <3>1
  <2> QED BY <2>1, <2>2
<1>9. JoinedNow(b, sess[b])
  BY <1>1, <1>8, DeviceFacts
<1>10. Joined(s, sess[q], SealedOf(p), SealedOf(q), opened)
  BY <1>4, <1>6, <1>9 DEF JoinedNow, Joined
<1>11. sess[q] \in Sessions
  BY <1>6, <1>8 DEF MsgInv, StoreTypes
<1> QED BY <1>1, <1>3, <1>4, <1>7, <1>8, <1>10, <1>11

\* What decrypt does to the session: it stays joined, and the message opens or is
\* refused.
LEMMA HandlerOpens ==
    ASSUME MsgInv, NEW a \in Party, Initiates(a), DevicesAgree(a),
           NEW p \in Party, NEW i \in Frame, ReceiveDecrypt(p, i), NEW q, q = Peer(p)
    PROVE  /\ failed' = failed
           /\ Joined(sess'[p], sess[q], SealedOf(p), SealedOf(q), opened')
<1>1. PICK m, s : m = task[p][i].msg /\ s = task[p][i].copy
  OBVIOUS
<1>2. PICK x, S, X, O : x = sess[q] /\ S = SealedOf(p) /\ X = SealedOf(q) /\ O = opened
  OBVIOUS
<1>3. /\ task[p][i].at = "decrypt"
      /\ \/ DecryptSkipped(p, s, m)
         \/ DecryptRefused(s, m, NewKey(p)) /\ UNCHANGED sess
         \/ DecryptNext(p, s, m, NewKey(p))
  BY <1>1 DEF ReceiveDecrypt, Running
<1>4. /\ m \in sealed \ Sent /\ m \in X /\ m \notin S
      /\ s = sess[p] /\ GoodNow(p, s) /\ x \in Sessions /\ Joined(s, x, S, X, O)
  BY <1>1, <1>2, <1>3, HandlerJoined
<1>5. PICK U, f, A, B : U = Keys(p) /\ f = fresh[p] /\ A = Spks(p) /\ B = Spks(Peer(p))
  OBVIOUS
<1>6. Good(p, s, U, f, A, B)
  BY <1>4, <1>5 DEF GoodNow
<1>7. KeysInv(p, s, U, f) /\ StepsOK(s) /\ s.local.n \in 1..(f - 1)
  BY <1>6 DEF Good
<1>8. PICK dhs \in KeyPairs : dhs = NewKey(p) /\ dhs.n = f /\ f \in Nat
  BY <1>5, MsgParty
<1>9. X \subseteq Envelopes /\ m \notin O
  BY <1>2, <1>4 DEF SealedOf, MsgInv, Mail, Sent
<1>10. Turns(s, m) => dhs # s.local /\ \A n \in S : n.dh # dhs
  <2>1. ASSUME NEW n \in S PROVE n.dh.n \in 1..(f - 1)
    <3>1. n \in sealed /\ n.from = p
      BY <1>2 DEF SealedOf
    <3>2. SealedBy(n)
      BY <3>1 DEF MsgInv, Mail
    <3> QED BY <1>5, <3>1, <3>2 DEF SealedBy
  <2>2. \A k \in 1..(f - 1) : k # f
    BY <1>8
  <2> QED BY <1>7, <1>8, <2>1, <2>2
<1>11. /\ \A k \in SkippedKeys(s, m) :
             k.key = m.key /\ Joined([s EXCEPT !.skipped = @ \ {k}], x, S, X, O \cup {m})
       /\ SkippedKeys(s, m) = {} =>
             LET t == Skip(OnChain(s, m, dhs), m.seq) IN
             t.recv = m.key /\ Joined(NextRecv(t), x, S, X, O \cup {m})
  <2>1. KeysInv(p, s, U, f) /\ StepsOK(s) /\ x \in Sessions /\ Joined(s, x, S, X, O)
    BY <1>4, <1>7
  <2>2. X \subseteq Envelopes /\ m \in X /\ m \notin O /\ m \notin S /\ dhs \in KeyPairs
    BY <1>4, <1>9
  <2> QED BY <1>10, <2>1, <2>2, JoinedDecrypts
<1>12. sess \in [Party -> Sessions \cup {None}]
  BY DEF MsgInv, StoreTypes
<1>13. CASE DecryptSkipped(p, s, m)
  <2>1. PICK k \in SkippedKeys(s, m) :
          /\ sess' = [sess EXCEPT ![p] = [s EXCEPT !.skipped = @ \ {k}]]
          /\ Open(m, k.key)
    BY <1>13 DEF DecryptSkipped
  <2>2. PICK v : v = [s EXCEPT !.skipped = @ \ {k}]
    OBVIOUS
  <2>3. k.key = m.key /\ Joined(v, x, S, X, O \cup {m})
    BY <1>11, <2>2
  <2>4. opened' = O \cup {m} /\ failed' = failed
    BY <1>2, <2>1, <2>3 DEF Open
  <2>5. sess'[p] = v
    BY <1>12, <2>1, <2>2
  <2> QED BY <1>2, <2>3, <2>4, <2>5
<1>14. CASE DecryptRefused(s, m, NewKey(p)) /\ UNCHANGED sess
  BY <1>2, <1>4, <1>14 DEF DecryptRefused
<1>15. CASE DecryptNext(p, s, m, NewKey(p))
  <2>1. PICK t, v : t = Skip(OnChain(s, m, dhs), m.seq) /\ v = NextRecv(t)
    OBVIOUS
  <2>2. /\ SkippedKeys(s, m) = {} /\ sess' = [sess EXCEPT ![p] = v] /\ Open(m, t.recv)
    BY <1>8, <1>15, <2>1 DEF DecryptNext, NextRecv
  <2>3. t.recv = m.key /\ Joined(v, x, S, X, O \cup {m})
    BY <1>11, <2>1, <2>2
  <2>4. opened' = O \cup {m} /\ failed' = failed
    BY <1>2, <2>2, <2>3 DEF Open
  <2>5. sess'[p] = v
    BY <1>12, <2>2
  <2> QED BY <1>2, <2>3, <2>4, <2>5
<1> QED BY <1>3, <1>13, <1>14, <1>15

\* A message that is decrypted opens, or is refused.
LEMMA OpenAgrees ==
    ASSUME MsgInv, NEW a \in Party, Initiates(a), DevicesAgree(a), OneFrame,
           NEW p \in Party, NEW i \in Frame, ReceiveDecrypt(p, i)
    PROVE  DevicesAgree(a)'
<1>1. PICK b, q : b = Peer(a) /\ q = Peer(p)
  OBVIOUS
<1>2. i \in Slot /\ i # "ui" /\ "ui" \in Slot
  BY Slots
<1>3. /\ task[p][i].at = "decrypt"
      /\ UNCHANGED <<spk, opk, offered, imports, net, sealed>>
  BY DEF ReceiveDecrypt, Running, stores, counts
<1>4. sess[a] # None /\ sess[b] # None
  BY <1>1, <1>3, HandlerJoined
<1>5. /\ b \in Party /\ b # a /\ a = Peer(b) /\ ((p = a /\ q = b) \/ (p = b /\ q = a))
      /\ imports \in [Party -> Nat] /\ imports[b] = 0 /\ failed = {}
      /\ \A o \in offered[b] : offered[b] = {o} /\ o.spk = spk[b]
      /\ offered[b] # {} /\ ~(imports[a] < MaxImports[a])
      /\ task[b]["ui"].at # "import" /\ task[a]["ui"].at # "import"
  BY <1>1, <1>4, DeviceFacts
<1>6. failed' = {} /\ Joined(sess'[p], sess[q], SealedOf(p), SealedOf(q), opened')
  BY <1>1, <1>5, HandlerOpens
<1>7. sess'[p] # None /\ sess'[q] = sess[q]
  <2>1. PICK m, c : m = task[p][i].msg /\ c = task[p][i].copy
    OBVIOUS
  <2>2. PICK g \in Nat :
          /\ fresh[p] <= g /\ fresh' = [fresh EXCEPT ![p] = g]
          /\ \/ UNCHANGED sess /\ Keys(p)' \subseteq Keys(p)
             \/ \E u, K : Advances(p, u, K, g)
    BY <2>1, DecryptResult
  <2>3. CASE UNCHANGED sess
    BY <1>4, <1>5, <2>3
  <2>4. ASSUME NEW u, NEW K, Advances(p, u, K, g) PROVE sess'[p] # None /\ sess'[q] = sess[q]
    <3>1. u \in Sessions /\ sess' = [sess EXCEPT ![p] = u]
      BY <2>4 DEF Advances
    <3> QED BY <1>5, <3>1, NoneAssumption DEF MsgInv, StoreTypes
  <2> QED BY <2>2, <2>3, <2>4
<1>8. sess'[a] # None /\ sess'[b] # None
  BY <1>4, <1>5, <1>7
<1>9. JoinedNow(b, sess[b])'
  <2>1. SealedOf(p)' = SealedOf(p) /\ SealedOf(q)' = SealedOf(q)
    BY <1>3, SealedStays
  <2>2. Joined(sess'[p], sess'[q], SealedOf(p)', SealedOf(q)', opened')
    BY <1>6, <1>7, <2>1
  <2>3. Joined(sess'[b], sess'[a], SealedOf(b)', SealedOf(a)', opened')
    BY <1>5, <2>2 DEF Joined
  <2> QED BY <1>5, <2>3 DEF JoinedNow
<1>10. StoresAgree(a)'
  BY <1>1, <1>3, <1>5, <1>6, <1>8, <1>9 DEF StoresAgree
<1>11. OnlySlot(p, i) /\ task'[p][i].at \in {"idle", "keep"}
  <2>1. PICK m : m = task[p][i].msg
    OBVIOUS
  <2>2. PICK t : t = IF m \in opened' THEN [Idle EXCEPT !.at = "keep", !.msg = m] ELSE Idle
    OBVIOUS
  <2>3. Becomes(p, i, t) /\ TaskTypes
    BY <2>1, <2>2 DEF ReceiveDecrypt, MsgInv
  <2>4. t.at \in {"idle", "keep"}
    BY <2>2 DEF Idle
  <2> QED BY <1>2, <2>3, <2>4, OneSlot
<1>12. UiAgrees(a)'
  <2>1. task'[a]["ui"] = task[a]["ui"] /\ task'[b]["ui"] = task[b]["ui"]
    BY <1>2, <1>5, <1>11 DEF OnlySlot
  <2> QED BY <1>1, <1>5, <2>1 DEF UiAgrees
<1>13. FramesAgree(a)'
  <2>1. FrameAgrees(a, p, i)'
    BY <1>11 DEF FrameAgrees
  <2>2. \A y \in Party, j \in Frame : y # p \/ j # i => sess'[y] = sess[y]
    <3>1. \A y \in Party : y # p => y = q
      BY <1>5, Peers
    <3> QED BY <1>7, <3>1 DEF OneFrame
  <2>3. \A j \in Frame : task[b][j].at # "answered"
    BY <1>1, <1>4, <1>5, HandlerFacts
  <2> QED BY <1>1, <1>2, <1>11, <2>1, <2>2, <2>3, FramesStep DEF DevicesAgree
<1> QED BY <1>10, <1>12, <1>13 DEF DevicesAgree

-----------------------------------------------------------------------------
\* Before anything there is nothing to agree on.
LEMMA DevicesInit ==
    ASSUME MessagingInit, NEW a \in Party
    PROVE  DevicesAgree(a)
<1>1. Peer(a) \in Party
  BY Peers
<1>2. \A p \in Party, i \in Slot : task[p][i] = Idle
  BY DEF MessagingInit
<1>3. "ui" \in Slot /\ Frame \subseteq Slot /\ Idle.at = "idle"
  BY Slots DEF Idle
<1>4. StoresAgree(a)
  BY <1>1 DEF MessagingInit, Init, StoresAgree
<1>5. UiAgrees(a)
  BY <1>1, <1>2, <1>3 DEF UiAgrees
<1>6. FramesAgree(a)
  <2>1. \A p \in Party, i \in Frame : task[p][i].at = "idle"
    BY <1>2, <1>3
  <2> QED BY <2>1 DEF FramesAgree, FrameAgrees
<1> QED BY <1>4, <1>5, <1>6 DEF DevicesAgree

\* Every step keeps the agreement.
LEMMA DevicesNext ==
    ASSUME NEW a \in Party, Initiates(a), Orderly, OneFrame
    PROVE  MsgInv /\ DevicesAgree(a) /\ [MessagingNext]_messaging => DevicesAgree(a)'
<1> SUFFICES ASSUME MsgInv, DevicesAgree(a), [MessagingNext]_messaging PROVE DevicesAgree(a)'
  OBVIOUS
<1>1. ASSUME NEW p \in Party, Export(p) PROVE DevicesAgree(a)'
  BY <1>1, ExportAgrees
<1>2. ASSUME NEW p \in Party, ImportContact(p) PROVE DevicesAgree(a)'
  BY <1>2, ContactAgrees
<1>3. ASSUME NEW p \in Party, SendBegin(p) PROVE DevicesAgree(a)'
  BY <1>3, SendAgrees
<1>4. ASSUME NEW p \in Party, Crash(p) PROVE DevicesAgree(a)'
  BY <1>4, CrashAgrees
<1>5. ASSUME NEW p \in Party, UiStep(p) PROVE DevicesAgree(a)'
  <2>1. CASE ImportSession(p)
    BY <2>1, KnockAgrees
  <2>2. CASE SendNoSession(p) \/ SendPost(p) \/ SendRecord(p)
    BY <2>2, SendAgrees
  <2>3. CASE SendSeal(p)
    BY <2>3, SealAgrees
  <2> QED BY <1>5, <2>1, <2>2, <2>3 DEF UiStep, LocalStep
<1>6. ASSUME NEW p \in Party, NEW i \in Frame, FrameStep(p, i) PROVE DevicesAgree(a)'
  <2>1. CASE ReceiveRead(p, i) \/ ReceiveRecord(p, i)
    BY <2>1, HandlerAgrees
  <2>2. CASE ReceiveTakeKey(p, i)
    BY <2>2, TakeKeyAgrees
  <2>3. CASE ReceiveAnswer(p, i)
    BY <2>3, AnswerAgrees
  <2>4. CASE ReceiveDecrypt(p, i)
    BY <2>4, OpenAgrees
  <2> QED BY <1>6, <2>1, <2>2, <2>3, <2>4 DEF FrameStep
<1>7. ASSUME NEW p \in Party, NEW i \in Frame, NEW m \in net, ReceiveBegin(p, i, m)
      PROVE  DevicesAgree(a)'
  BY <1>7, ArrivalAgrees
<1>8. CASE UNCHANGED messaging
  <2>1. UNCHANGED <<sess, spk, opk, offered, imports, net, sealed, opened, failed, task>>
    BY <1>8 DEF messaging, vars, stores, counts, device
  <2>2. \A q : SealedOf(q)' = SealedOf(q)
    BY <2>1, SealedStays
  <2>3. \A o : Unanswered(a, o)' <=> Unanswered(a, o)
    BY <2>1, <2>2 DEF Unanswered, OnTheWay
  <2>4. StoresAgree(a)'
    BY <2>1, <2>2, <2>3 DEF DevicesAgree, StoresAgree, JoinedNow
  <2>5. UiAgrees(a)' /\ FramesAgree(a)'
    BY <2>1, <2>2 DEF DevicesAgree, UiAgrees, FramesAgree, FrameAgrees, JoinedNow
  <2> QED BY <2>4, <2>5 DEF DevicesAgree
<1> QED BY <1>1, <1>2, <1>3, <1>4, <1>5, <1>6, <1>7, <1>8 DEF MessagingNext

\* The two devices agree in every state.
LEMMA DevicesInvariant ==
    ASSUME NEW a \in Party, Initiates(a), Orderly, OneFrame
    PROVE  MessagingSpec => []DevicesAgree(a)
<1>1. MessagingInit => DevicesAgree(a)
  BY DevicesInit
<1>2. MsgInv /\ DevicesAgree(a) /\ [MessagingNext]_messaging => DevicesAgree(a)'
  BY DevicesNext
<1> QED BY <1>1, <1>2, MessagingInvariant, PTL DEF MessagingSpec

(***************************************************************************)
(* sendOutboundMessage and handleIncomingMessage, wherever their awaits    *)
(* are, whatever fails, and whenever either process ends: what arrives     *)
(* after the message that opens the session is opened with the key that    *)
(* sealed it, or refused because too many were missing before it.          *)
(***************************************************************************)
THEOREM DeliveredOpensHolds ==
    Orderly /\ OneImport /\ OneFrame /\ MessagingSpec => []DeliveredOpens
<1> SUFFICES ASSUME Orderly, OneImport, OneFrame PROVE MessagingSpec => []DeliveredOpens
  OBVIOUS
<1>1. PICK a \in Party : Initiates(a)
  BY DEF OneImport
<1>2. DevicesAgree(a) => DeliveredOpens
  BY DEF DevicesAgree, StoresAgree, DeliveredOpens
<1>3. MessagingSpec => []DevicesAgree(a)
  BY <1>1, DevicesInvariant
<1> QED BY <1>2, <1>3, PTL

-----------------------------------------------------------------------------
(* What becomes of a message on a device *)

\* The handler of the opened message m is about to store it.
Keeping(p, m) == \E i \in Frame : task[p][i].at = "keep" /\ task[p][i].msg = m

\* The send of p's n-th message goes on, whatever became of its POST.
Sending(p, n) ==
    task[p]["ui"].at \in {"seal", "post", "record"} /\ task[p]["ui"].n = n

(***************************************************************************)
(* On a device whose process has not ended, every message that was opened  *)
(* is stored or about to be, and so is every message that its user sent.   *)
(***************************************************************************)
NothingLost ==
    \A p \in Party : crashes[p] = 0 =>
        /\ \A m \in opened : m.from = Peer(p) => m \in recorded[p] \/ Keeping(p, m)
        /\ \A n \in 0..(sends[p] - 1) : n \in outgoing[p] \/ Sending(p, n)

\* A handler's sender has a row, which saveMessage's foreign key needs.
Known == \A p \in Party : (\E i \in Frame : task[p][i].at # "idle") => contacts[p] # {}

LostInv ==
    /\ Known /\ NothingLost
    /\ crashes \in [Party -> Nat] /\ outgoing \in [Party -> SUBSET Nat]

\* One operation goes on: it lets go of nothing that it does not store.
LEMMA LostStep ==
    ASSUME MsgInv, LostInv, NEW p \in Party, NEW i \in Slot, OnlySlot(p, i),
           UNCHANGED crashes, outgoing' \in [Party -> SUBSET Nat],
           \A q \in Party : /\ recorded[q] \subseteq recorded'[q] /\ outgoing[q] \subseteq outgoing'[q]
                            /\ contacts[q] # {} => contacts'[q] # {}
                            /\ q # p => sends'[q] = sends[q],
           i \in Frame /\ task'[p][i].at # "idle" => contacts'[p] # {},
           i \in Frame /\ task[p][i].at = "keep" => task[p][i].msg \in recorded'[p],
           \A m \in opened' \ opened : m.from = Peer(p) /\ Keeping(p, m)',
           \A n \in 0..(sends'[p] - 1) : n \in 0..(sends[p] - 1) \/ Sending(p, n)',
           \A n : i = "ui" /\ Sending(p, n) => Sending(p, n)' \/ n \in outgoing'[p]
    PROVE  LostInv'
<1>1. "ui" \in Slot /\ Frame \subseteq Slot /\ "ui" \notin Frame
  BY Slots
<1>2. Known'
  <2> SUFFICES ASSUME NEW q \in Party, NEW j \in Frame, task'[q][j].at # "idle"
               PROVE  contacts'[q] # {}
    BY DEF Known
  <2>1. CASE q = p /\ j = i
    BY <2>1
  <2>2. CASE q # p \/ j # i
    <3>1. task'[q][j] = task[q][j]
      BY <1>1, <2>2 DEF OnlySlot
    <3> QED BY <3>1 DEF LostInv, Known
  <2> QED BY <2>1, <2>2
<1>3. ASSUME NEW q \in Party, crashes'[q] = 0, NEW m \in opened', m.from = Peer(q)
      PROVE  m \in recorded'[q] \/ Keeping(q, m)'
  <2>1. CASE m \in opened
    <3>1. CASE m \in recorded[q]
      BY <3>1
    <3>2. CASE Keeping(q, m)
      <4>1. PICK j \in Frame : task[q][j].at = "keep" /\ task[q][j].msg = m
        BY <3>2 DEF Keeping
      <4>2. CASE q = p /\ j = i
        BY <4>1, <4>2
      <4>3. CASE q # p \/ j # i
        <5>1. task'[q][j] = task[q][j]
          BY <1>1, <4>3 DEF OnlySlot
        <5> QED BY <4>1, <5>1 DEF Keeping
      <4> QED BY <4>2, <4>3
    <3>3. m \in recorded[q] \/ Keeping(q, m)
      BY <1>3, <2>1 DEF LostInv, NothingLost
    <3> QED BY <3>1, <3>2, <3>3
  <2>2. CASE m \notin opened
    <3>1. m.from = Peer(p) /\ Keeping(p, m)'
      BY <2>2
    <3>2. Peer(q) = Peer(p)
      BY <1>3, <3>1
    <3>3. q = Peer(Peer(q)) /\ p = Peer(Peer(p))
      BY Peers
    <3>4. q = p
      BY <3>2, <3>3
    <3> QED BY <3>1, <3>4
  <2> QED BY <2>1, <2>2
<1>4. ASSUME NEW q \in Party, crashes'[q] = 0, NEW n \in 0..(sends'[q] - 1)
      PROVE  n \in outgoing'[q] \/ Sending(q, n)'
  <2>1. n \in 0..(sends[q] - 1) \/ (q = p /\ Sending(q, n)')
    BY <1>4
  <2>2. ASSUME n \in 0..(sends[q] - 1) PROVE n \in outgoing'[q] \/ Sending(q, n)'
    <3>1. n \in outgoing[q] \/ Sending(q, n)
      BY <1>4, <2>2 DEF LostInv, NothingLost
    <3>2. CASE q = p /\ i = "ui"
      BY <3>1, <3>2
    <3>3. CASE q # p \/ i # "ui"
      <4>1. task'[q]["ui"] = task[q]["ui"]
        BY <1>1, <3>3 DEF OnlySlot
      <4> QED BY <3>1, <4>1 DEF Sending
    <3> QED BY <3>2, <3>3
  <2> QED BY <2>1, <2>2
<1>5. NothingLost'
  BY <1>3, <1>4 DEF NothingLost
<1>6. crashes' \in [Party -> Nat]
  BY DEF LostInv
<1> QED BY <1>2, <1>5, <1>6 DEF LostInv

\* The user's operations: a send goes on until it is recorded.
LEMMA LostUi ==
    ASSUME MsgInv, LostInv, NEW p \in Party, ImportContact(p) \/ SendBegin(p) \/ UiStep(p)
    PROVE  LostInv'
<1>1. "ui" \in Slot /\ "ui" \notin Frame
  BY Slots
<1>2. /\ sends \in [Party -> Nat] /\ outgoing \in [Party -> SUBSET Nat] /\ TaskTypes
      /\ contacts \in [Party -> SUBSET Addresses]
      /\ task[p]["ui"] \in Tasks /\ task[p]["ui"].n \in Nat
  <2>1. task[p]["ui"] \in Tasks
    BY <1>1, TaskFacts
  <2> QED BY <2>1 DEF MsgInv, StoreTypes, TaskTypes, LostInv, Tasks
<1>3. UNCHANGED <<crashes, recorded, opened>>
  BY DEF ImportContact, SendBegin, UiStep, LocalStep, ImportSession, SendNoSession, SendSeal,
         SendPost, SendRecord, vars
<1>4. PICK t : Becomes(p, "ui", t) /\
        \/ task[p]["ui"].at = "idle" /\ ImportContact(p)
        \/ /\ task[p]["ui"].at = "idle" /\ SendBegin(p)
           /\ t.at = "seal" /\ t.n = sends[p]
        \/ task[p]["ui"].at = "import" /\ ImportSession(p)
        \/ /\ task[p]["ui"].at \in {"seal", "post"}
           /\ t.at \in {"post", "record"} /\ t.n = task[p]["ui"].n
           /\ SendNoSession(p) \/ SendSeal(p) \/ SendPost(p)
        \/ task[p]["ui"].at = "record" /\ SendRecord(p)
  <2>1. PICK u \in Tasks : u = task[p]["ui"]
    BY <1>2
  <2>2. CASE ImportContact(p)
    BY <2>2 DEF ImportContact, Running
  <2>3. CASE SendBegin(p)
    <3>1. PICK to \in contacts[p] :
            Becomes(p, "ui", [Idle EXCEPT !.at = "seal", !.copy = sess[p], !.n = sends[p], !.to = to])
      BY <2>3 DEF SendBegin
    <3>2. PICK t : t = [Idle EXCEPT !.at = "seal", !.copy = sess[p], !.n = sends[p], !.to = to]
      OBVIOUS
    <3>3. t.at = "seal" /\ t.n = sends[p]
      BY <3>2 DEF Idle
    <3>4. Becomes(p, "ui", t) /\ task[p]["ui"].at = "idle"
      BY <2>3, <3>1, <3>2 DEF SendBegin, Running
    <3> QED BY <2>3, <3>3, <3>4
  <2>4. CASE ImportSession(p)
    BY <2>4 DEF ImportSession, Running
  <2>5. CASE SendNoSession(p) \/ SendPost(p)
    <3>1. PICK t : t = [u EXCEPT !.at = "record"]
      OBVIOUS
    <3>2. t.at = "record" /\ t.n = u.n
      BY <3>1 DEF Tasks
    <3>3. Becomes(p, "ui", t) /\ u.at \in {"seal", "post"}
      BY <2>1, <2>5, <3>1 DEF SendNoSession, SendPost, Running
    <3> QED BY <2>1, <2>5, <3>2, <3>3
  <2>6. CASE SendSeal(p)
    <3>1. PICK m : m = Sealed(p, u.n, WithSendChain(u.copy))
      OBVIOUS
    <3>2. PICK t : t = [u EXCEPT !.at = "post", !.copy = None, !.msg = m]
      OBVIOUS
    <3>3. t.at = "post" /\ t.n = u.n
      BY <3>2 DEF Tasks
    <3>4. Becomes(p, "ui", t) /\ u.at = "seal"
      BY <2>1, <2>6, <3>1, <3>2 DEF SendSeal, Running
    <3> QED BY <2>1, <2>6, <3>3, <3>4
  <2>7. CASE SendRecord(p)
    BY <2>7 DEF SendRecord, Running
  <2> QED BY <2>2, <2>3, <2>4, <2>5, <2>6, <2>7 DEF UiStep, LocalStep
<1>5. task'[p]["ui"] = t /\ OnlySlot(p, "ui")
  BY <1>1, <1>2, <1>4, OneSlot
<1>6. \A q \in Party : contacts[q] # {} => contacts'[q] # {}
  BY <1>2, <1>4 DEF ImportContact, SendBegin, ImportSession, SendNoSession, SendSeal, SendPost, SendRecord
<1>7. /\ outgoing' \in [Party -> SUBSET Nat]
      /\ \A q \in Party : outgoing[q] \subseteq outgoing'[q]
      /\ SendRecord(p) => task[p]["ui"].n \in outgoing'[p]
  <2>1. CASE SendRecord(p)
    BY <1>2, <2>1 DEF SendRecord
  <2>2. CASE ~SendRecord(p)
    BY <1>2, <1>4, <2>2 DEF ImportContact, SendBegin, ImportSession, SendNoSession, SendSeal, SendPost
  <2> QED BY <2>1, <2>2
<1>8. /\ \A q \in Party : q # p => sends'[q] = sends[q]
      /\ \A n \in 0..(sends'[p] - 1) : n \in 0..(sends[p] - 1) \/ Sending(p, n)'
  <2>1. CASE task[p]["ui"].at = "idle" /\ SendBegin(p) /\ t.at = "seal" /\ t.n = sends[p]
    <3>1. sends' = [sends EXCEPT ![p] = @ + 1]
      BY <2>1 DEF SendBegin
    <3>2. sends'[p] = sends[p] + 1 /\ \A q \in Party : q # p => sends'[q] = sends[q]
      BY <1>2, <3>1
    <3>4. ASSUME NEW n \in 0..(sends'[p] - 1) PROVE n \in 0..(sends[p] - 1) \/ Sending(p, n)'
      <4>1. n \in 0..(sends[p] - 1) \/ n = sends[p]
        BY <1>2, <3>2
      <4>2. ASSUME n = sends[p] PROVE Sending(p, n)'
        BY <1>5, <2>1, <4>2 DEF Sending
      <4> QED BY <4>1, <4>2
    <3> QED BY <3>2, <3>4
  <2>2. CASE \/ ImportContact(p) \/ ImportSession(p) \/ SendNoSession(p)
             \/ SendSeal(p) \/ SendPost(p) \/ SendRecord(p)
    <3>1. sends' = sends
      <4>1. CASE ImportContact(p)
        BY <4>1 DEF ImportContact
      <4>2. CASE ImportSession(p) \/ SendSeal(p) \/ SendPost(p)
        BY <4>2 DEF ImportSession, SendSeal, SendPost, counts
      <4>3. CASE SendNoSession(p) \/ SendRecord(p)
        BY <4>3 DEF SendNoSession, SendRecord, vars, counts
      <4> QED BY <2>2, <4>1, <4>2, <4>3
    <3> QED BY <3>1
  <2> QED BY <1>4, <2>1, <2>2
<1>9. \A n : Sending(p, n) => Sending(p, n)' \/ n \in outgoing'[p]
  BY <1>4, <1>5, <1>7 DEF Sending
<1> QED BY <1>1, <1>2, <1>3, <1>5, <1>6, <1>7, <1>8, <1>9, LostStep

\* The handlers of frames: what they open is kept until it is recorded.
LEMMA LostFrame ==
    ASSUME MsgInv, LostInv, NEW p \in Party, NEW i \in Frame,
           FrameStep(p, i) \/ \E m \in net : ReceiveBegin(p, i, m)
    PROVE  LostInv'
<1>1. i \in Slot /\ i # "ui"
  BY Slots
<1>2. /\ contacts \in [Party -> SUBSET Addresses] /\ recorded \in [Party -> SUBSET opened]
      /\ outgoing \in [Party -> SUBSET Nat] /\ TaskTypes
  BY DEF MsgInv, StoreTypes, LostInv
<1>3. UNCHANGED <<crashes, outgoing, sends>>
  BY DEF FrameStep, ReceiveRead, ReceiveTakeKey, ReceiveAnswer, ReceiveDecrypt, ReceiveRecord,
         ReceiveBegin, vars, counts
<1>4. PICK u, m : u = task[p][i] /\ m = u.msg
  OBVIOUS
<1>5. PICK t : Becomes(p, i, t) /\
        \/ /\ u.at \in {"read", "answer", "answered"}
           /\ ReceiveRead(p, i) \/ ReceiveTakeKey(p, i) \/ ReceiveAnswer(p, i)
        \/ ReceiveDecrypt(p, i) /\ u.at = "decrypt" /\ (m \in opened' => t.at = "keep" /\ t.msg = m)
        \/ ReceiveRecord(p, i) /\ u.at = "keep"
        \/ (\E x \in net : ReceiveBegin(p, i, x)) /\ u.at = "idle"
  <2>1. CASE ReceiveRead(p, i) \/ ReceiveTakeKey(p, i) \/ ReceiveAnswer(p, i)
    BY <1>4, <2>1 DEF ReceiveRead, ReceiveTakeKey, ReceiveAnswer, Running
  <2>2. CASE ReceiveDecrypt(p, i)
    <3>1. PICK t : t = IF m \in opened' THEN [Idle EXCEPT !.at = "keep", !.msg = m] ELSE Idle
      OBVIOUS
    <3>2. m \in opened' => t.at = "keep" /\ t.msg = m
      BY <3>1 DEF Idle
    <3>3. Becomes(p, i, t) /\ u.at = "decrypt"
      BY <1>4, <2>2, <3>1 DEF ReceiveDecrypt, Running
    <3> QED BY <2>2, <3>2, <3>3
  <2>3. CASE ReceiveRecord(p, i)
    BY <1>4, <2>3 DEF ReceiveRecord, Running
  <2>4. ASSUME NEW x \in net, ReceiveBegin(p, i, x)
        PROVE  \E t : Becomes(p, i, t) /\ (\E y \in net : ReceiveBegin(p, i, y)) /\ u.at = "idle"
    BY <1>4, <2>4 DEF ReceiveBegin, Running
  <2> QED BY <2>1, <2>2, <2>3, <2>4 DEF FrameStep
<1>6. task'[p][i] = t /\ OnlySlot(p, i)
  BY <1>1, <1>2, <1>5, OneSlot
<1>7. \A q \in Party : contacts[q] # {} => contacts'[q] # {}
  BY <1>2 DEF FrameStep, ReceiveRead, ReceiveTakeKey, ReceiveAnswer, ReceiveDecrypt, ReceiveRecord,
              ReceiveBegin
<1>8. contacts'[p] # {}
  <2>1. CASE u.at # "idle"
    BY <1>4, <1>7, <2>1 DEF LostInv, Known
  <2>2. CASE \E x \in net : ReceiveBegin(p, i, x)
    BY <1>2, <2>2 DEF ReceiveBegin
  <2> QED BY <1>5, <2>1, <2>2
<1>9. /\ \A q \in Party : recorded[q] \subseteq recorded'[q]
      /\ u.at = "keep" => m \in recorded'[p]
  <2>1. CASE ReceiveRecord(p, i)
    <3>1. contacts[p] # {}
      BY <1>4, <1>5, <2>1 DEF LostInv, Known, ReceiveRecord, Running
    <3>2. recorded' = [recorded EXCEPT ![p] = @ \cup {m}]
      BY <1>4, <2>1, <3>1 DEF ReceiveRecord
    <3> QED BY <1>2, <3>2
  <2>2. CASE ~ReceiveRecord(p, i)
    BY <1>5, <2>2 DEF ReceiveRead, ReceiveTakeKey, ReceiveAnswer, ReceiveDecrypt, ReceiveBegin
  <2> QED BY <2>1, <2>2
<1>10. ASSUME NEW x \in opened' \ opened PROVE x.from = Peer(p) /\ Keeping(p, x)'
  <2>1. ReceiveDecrypt(p, i)
    BY <1>5 DEF ReceiveRead, ReceiveTakeKey, ReceiveAnswer, ReceiveRecord, ReceiveBegin, vars
  <2>2. u.at = "decrypt" /\ x = m
    <3>1. u.at = "decrypt"
      BY <1>4, <2>1 DEF ReceiveDecrypt, Running
    <3>2. opened' = opened \/ opened' = opened \cup {m}
      <4>1. PICK c : c = task[p][i].copy
        OBVIOUS
      <4>2. \A key : Open(m, key) => opened' = opened \/ opened' = opened \cup {m}
        BY DEF Open
      <4>3. \/ DecryptSkipped(p, c, m) \/ DecryptRefused(c, m, NewKey(p))
            \/ DecryptNext(p, c, m, NewKey(p))
        BY <1>4, <2>1, <4>1 DEF ReceiveDecrypt
      <4>4. (\E key : Open(m, key)) \/ opened' = opened
        <5>1. CASE DecryptSkipped(p, c, m)
          <6>1. PICK k \in SkippedKeys(c, m) : Open(m, k.key)
            BY <5>1 DEF DecryptSkipped
          <6> QED BY <6>1
        <5>2. CASE DecryptRefused(c, m, NewKey(p))
          BY <5>2 DEF DecryptRefused
        <5>3. CASE DecryptNext(p, c, m, NewKey(p))
          <6>1. PICK s : s = Skip(OnChain(c, m, NewKey(p)), m.seq)
            OBVIOUS
          <6>2. Open(m, s.recv)
            BY <5>3, <6>1 DEF DecryptNext
          <6> QED BY <6>2
        <5> QED BY <4>3, <5>1, <5>2, <5>3
      <4> QED BY <4>2, <4>4
    <3> QED BY <1>10, <3>1, <3>2
  <2>3. m.from = Peer(p)
    BY <1>1, <1>4, <2>2 DEF MsgInv, HeldOK, Holding, Working, Waiting, Sender
  <2>4. t.at = "keep" /\ t.msg = m
    BY <1>5, <1>10, <2>2
  <2> QED BY <1>6, <2>2, <2>3, <2>4 DEF Keeping
<1>11. \A n \in 0..(sends'[p] - 1) : n \in 0..(sends[p] - 1) \/ Sending(p, n)'
  BY <1>3
<1> QED BY <1>1, <1>2, <1>3, <1>4, <1>6, <1>7, <1>8, <1>9, <1>10, <1>11, LostStep

\* A process that ends is excused.
LEMMA LostCrash ==
    ASSUME MsgInv, LostInv, NEW p \in Party, Crash(p)
    PROVE  LostInv'
<1>1. /\ task \in [Party -> [Slot -> Tasks]] /\ crashes \in [Party -> Nat]
      /\ UNCHANGED <<contacts, opened, recorded, outgoing, sends>>
  BY DEF MsgInv, TaskTypes, LostInv, Crash, vars, counts
<1>2. \A q \in Party : q # p => task'[q] = task[q] /\ crashes'[q] = crashes[q]
  BY <1>1 DEF Crash
<1>3. \A j \in Frame : task'[p][j].at = "idle"
  BY <1>1, Slots DEF Crash, Idle
<1>4. crashes' \in [Party -> Nat] /\ crashes'[p] # 0
  BY <1>1 DEF Crash
<1>5. Known'
  BY <1>1, <1>2, <1>3 DEF LostInv, Known
<1>6. NothingLost'
  <2> SUFFICES ASSUME NEW q \in Party, crashes'[q] = 0
               PROVE  /\ \A m \in opened : m.from = Peer(q) => m \in recorded[q] \/ Keeping(q, m)'
                      /\ \A n \in 0..(sends[q] - 1) : n \in outgoing[q] \/ Sending(q, n)'
    BY <1>1 DEF NothingLost
  <2>1. task'[q] = task[q] /\ crashes[q] = 0
    BY <1>2, <1>4
  <2>2. \A m : Keeping(q, m) => Keeping(q, m)'
    BY <2>1 DEF Keeping
  <2>3. \A n : Sending(q, n) => Sending(q, n)'
    BY <2>1 DEF Sending
  <2> QED BY <2>1, <2>2, <2>3 DEF LostInv, NothingLost
<1> QED BY <1>1, <1>4, <1>5, <1>6 DEF LostInv

(***************************************************************************)
(* handleIncomingMessage and sendOutboundMessage lose nothing while their  *)
(* process lives: a message that decrypt opened, whose key is gone, is in  *)
(* the messages table or its handler is about to save it, and a message    *)
(* that the user sent is in the table or its send goes on, whether its     *)
(* POST succeeds, fails or was never made for want of a session.  With the *)
(* fairness of the handlers it is what OpenedIsRecorded comes to.          *)
(***************************************************************************)
THEOREM NothingLostHolds == MessagingSpec => []NothingLost
<1>1. MessagingInit => LostInv
  <2> SUFFICES ASSUME MessagingInit PROVE LostInv
    OBVIOUS
  <2>1. /\ opened = {} /\ sends = [p \in Party |-> 0] /\ crashes = [p \in Party |-> 0]
        /\ outgoing = [p \in Party |-> {}]
    BY DEF MessagingInit, Init
  <2>2. \A p \in Party, j \in Frame : task[p][j].at = "idle"
    BY Slots DEF MessagingInit, Idle
  <2>3. NothingLost
    BY <2>1 DEF NothingLost
  <2> QED BY <2>1, <2>2, <2>3 DEF LostInv, Known
<1>2. MsgInv /\ LostInv /\ [MessagingNext]_messaging => LostInv'
  <2> SUFFICES ASSUME MsgInv, LostInv, [MessagingNext]_messaging PROVE LostInv'
    OBVIOUS
  <2>1. CASE UNCHANGED <<task, contacts, sends, opened, recorded, outgoing, crashes>>
    BY <2>1 DEF LostInv, Known, NothingLost, Keeping, Sending
  <2>2. ASSUME NEW p \in Party, Export(p) PROVE LostInv'
    <3>1. UNCHANGED <<task, contacts, sends, opened, recorded, outgoing, crashes>>
      BY <2>2 DEF Export, GeneratePreKeyBundle, device, counts
    <3> QED BY <2>1, <3>1
  <2>3. CASE UNCHANGED messaging
    <3>1. UNCHANGED <<task, contacts, sends, opened, recorded, outgoing, crashes>>
      BY <2>3 DEF messaging, device, vars, counts
    <3> QED BY <2>1, <3>1
  <2>4. ASSUME NEW p \in Party, ImportContact(p) \/ SendBegin(p) \/ UiStep(p) PROVE LostInv'
    BY <2>4, LostUi
  <2>5. ASSUME NEW p \in Party, NEW i \in Frame,
               FrameStep(p, i) \/ \E m \in net : ReceiveBegin(p, i, m)
        PROVE  LostInv'
    BY <2>5, LostFrame
  <2>6. ASSUME NEW p \in Party, Crash(p) PROVE LostInv'
    BY <2>6, LostCrash
  <2> QED BY <2>2, <2>3, <2>4, <2>5, <2>6 DEF MessagingNext
<1>3. LostInv => NothingLost
  BY DEF LostInv
<1> QED BY <1>1, <1>2, <1>3, MessagingInvariant, PTL DEF MessagingSpec
=============================================================================
