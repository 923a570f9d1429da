------------------------------ MODULE Ratchet ------------------------------
(***************************************************************************)
(* CryptoEngine: the X3DH handshake and the double ratchet of two parties  *)
(* whose messages the network may delay, reorder and lose.                 *)
(*                                                                         *)
(* Keys are symbolic.  A key pair is named by its owner and a number; a    *)
(* Diffie-Hellman output is the set of the two key pairs; a root key is    *)
(* the sequence of what went into it; a chain key is the root it was       *)
(* derived with and the number of steps taken, and the message key at that *)
(* step is named by the chain key it is derived from.  Two derivations     *)
(* give the same key exactly when their inputs are the same.               *)
(*                                                                         *)
(* An engine operation is one step: it reads the stored session once and   *)
(* writes it once.  The races between operations that overlap at their     *)
(* awaits belong to the orchestrator, which issues them.                   *)
(***************************************************************************)
EXTENDS Naturals, Sequences, FiniteSets

CONSTANTS
    Party,
    MaxSkip,       \* MAX_SKIP_MESSAGES
    Orderly,       \* whether the message that opens a session arrives first
    MaxBundles,    \* bound: MaxBundles[p] pre-key bundles of p
    MaxImports,    \* bound: MaxImports[p] sessions initiated by p
    MaxSends,      \* bound: MaxSends[p] messages of p
    None

ASSUME RatchetAssumption ==
    /\ IsFiniteSet(Party) /\ Cardinality(Party) = 2
    /\ MaxSkip \in Nat
    /\ Orderly \in BOOLEAN
    /\ MaxBundles \in [Party -> Nat]
    /\ MaxImports \in [Party -> Nat]
    /\ MaxSends \in [Party -> Nat]

VARIABLES
    sess,      \* sess[p]: the stored session of p with its peer, or None
    spk,       \* spk[p]: the latest signed pre-key of p, or None
    opk,       \* opk[p]: the one-time pre-keys in p's store
    offered,   \* offered[p]: the bundles p has exported
    fresh,     \* fresh[p]: how many key pairs p has generated
    imports,   \* imports[p]: how many sessions p has initiated
    sends,     \* sends[p]: how many messages p has encrypted
    net,       \* messages not yet delivered, in no order
    opened, failed, refused   \* delivered messages, by what decrypt did

stores == <<spk, opk, offered>>
counts == <<imports, sends>>
vars   == <<sess, stores, fresh, counts, net, opened, failed, refused>>

Peer(p) == CHOOSE q \in Party : q # p

-----------------------------------------------------------------------------
(* Keys *)

KeyPair(p, n) == [of |-> p, n |-> n]
Identity(p)   == KeyPair(p, 0)
NewKey(p)     == KeyPair(p, fresh[p])

DH(a, b) == {a, b}

\* kdfRoot: the next root key; the chain derived with it starts at step 0.
KdfRoot(root, dh) == Append(root, dh)
ChainOf(root)     == [root |-> root, step |-> 0]

\* kdfChain, n times.
Advance(chain, n) == [chain EXCEPT !.step = @ + n]

KeyPairs == [of : Party, n : Nat]

\* A root key is a list of X3DH outputs and of the DH outputs after them.
Mixed  == SUBSET (KeyPairs \cup {None})
Roots  == Seq(Mixed \cup Seq(Mixed))
Chains == [root : Roots, step : Nat]

\* SessionRecord and EncryptedMessage.
Sessions ==
    [root : Roots, send : Chains \cup {None}, recv : Chains \cup {None},
     local : KeyPairs, remote : KeyPairs, ns : Nat, nr : Nat, pn : Nat,
     skipped : SUBSET [dh : KeyPairs, seq : Nat, key : Chains],
     otk : KeyPairs \cup {None}]
Envelopes ==
    [from : Party, n : Nat, dh : KeyPairs, seq : Nat, pn : Nat, key : Chains,
     otk : KeyPairs \cup {None}]

ASSUME NoneAssumption == None \notin Chains /\ None \notin Sessions

-----------------------------------------------------------------------------
(* generatePreKeyBundle, initiateSession *)

(***************************************************************************)
(* A new signed pre-key, which becomes the latest, and one-time pre-keys,  *)
(* of which the bundle names the first; the others are never offered.      *)
(***************************************************************************)
GeneratePreKeyBundle(p) ==
    LET otk == KeyPair(p, fresh[p] + 1) IN
    /\ Cardinality(offered[p]) < MaxBundles[p]
    /\ spk' = [spk EXCEPT ![p] = NewKey(p)]
    /\ opk' = [opk EXCEPT ![p] = @ \cup {otk}]
    /\ offered' = [offered EXCEPT ![p] = @ \cup {[spk |-> NewKey(p), otk |-> otk]}]
    /\ fresh' = [fresh EXCEPT ![p] = @ + 2]
    /\ UNCHANGED <<sess, counts, net, opened, failed, refused>>

\* The initiator's side of X3DH, with its new key pair ek.
AliceSession(p, ek, bundle) ==
    LET ikB    == Identity(Peer(p))
        x3dh   == <<DH(Identity(p), bundle.spk), DH(ek, ikB),
                    DH(ek, bundle.spk), DH(ek, bundle.otk)>>
        root   == KdfRoot(<<x3dh>>, DH(ek, bundle.spk))
    IN [root |-> root, send |-> ChainOf(root), recv |-> None,
        local |-> ek, remote |-> bundle.spk,
        ns |-> 0, nr |-> 0, pn |-> 0, skipped |-> {}, otk |-> bundle.otk]

\* A contact is imported: its bundle replaces whatever session there was.
InitiateSession(p) ==
    /\ imports[p] < MaxImports[p]
    /\ \E bundle \in offered[Peer(p)] :
          sess' = [sess EXCEPT ![p] = AliceSession(p, NewKey(p), bundle)]
    /\ fresh' = [fresh EXCEPT ![p] = @ + 1]
    /\ imports' = [imports EXCEPT ![p] = @ + 1]
    /\ UNCHANGED <<stores, sends, net, opened, failed, refused>>

-----------------------------------------------------------------------------
(* encrypt *)

\* The responder's first message derives its sending chain.
WithSendChain(s) ==
    LET root == KdfRoot(s.root, DH(s.local, s.remote)) IN
    IF s.send # None THEN s ELSE [s EXCEPT !.root = root, !.send = ChainOf(root)]

\* The session after a message was sealed with its sending chain key.
NextSend(s) == [s EXCEPT !.send = Advance(@, 1), !.ns = @ + 1]

\* The n-th message of p, sealed with session s.
Sealed(p, n, s) ==
    [from |-> p, n |-> n, dh |-> s.local, seq |-> s.ns, pn |-> s.pn, key |-> s.send,
     otk |-> IF s.ns = 0 THEN s.otk ELSE None]

Encrypt(p) ==
    LET s == WithSendChain(sess[p]) IN
    /\ sess[p] # None
    /\ sends[p] < MaxSends[p]
    /\ net' = net \cup {Sealed(p, sends[p], s)}
    /\ sess' = [sess EXCEPT ![p] = NextSend(s)]
    /\ sends' = [sends EXCEPT ![p] = @ + 1]
    /\ UNCHANGED <<stores, fresh, imports, opened, failed, refused>>

-----------------------------------------------------------------------------
(* decrypt *)

(***************************************************************************)
(* initiateBobSession: the responder's side of X3DH, with its latest signed*)
(* pre-key, and with the one-time pre-key only if the message names one    *)
(* that is still in the store.                                             *)
(***************************************************************************)
BobSession(p, m) ==
    LET ikA  == Identity(m.from)
        base == <<DH(spk[p], ikA), DH(Identity(p), m.dh), DH(spk[p], m.dh)>>
        x3dh == IF m.otk \in opk[p] THEN Append(base, DH(m.otk, m.dh)) ELSE base
        root == KdfRoot(<<x3dh>>, DH(spk[p], m.dh))
    IN [root |-> root, send |-> None, recv |-> ChainOf(root),
        local |-> NewKey(p), remote |-> m.dh,
        ns |-> 0, nr |-> 0, pn |-> 0, skipped |-> {}, otk |-> None]

Session(p, m) == IF sess[p] = None THEN BobSession(p, m) ELSE sess[p]

TooFar(s, until) == s.recv # None /\ s.nr + MaxSkip < until

\* Fault variant: the keys of the messages that are passed over are forgotten.
SkipForget(s, until) ==
    IF s.recv = None \/ until <= s.nr THEN s
    ELSE [s EXCEPT !.recv = Advance(@, until - s.nr), !.nr = until]

\* Fault variant: the key of the message at hand is put aside as well.
SkipOneMore(s, until) ==
    IF s.recv = None \/ until <= s.nr THEN s
    ELSE [s EXCEPT
            !.skipped = @ \cup {[dh |-> s.remote, seq |-> i,
                                 key |-> Advance(s.recv, i - s.nr)] : i \in s.nr..until},
            !.recv = Advance(@, until - s.nr),
            !.nr = until]

\* skipMessageKeys: the keys of messages nr..until-1 are put aside.
Skip(s, until) ==
    IF s.recv = None \/ until <= s.nr THEN s
    ELSE [s EXCEPT
            !.skipped = @ \cup {[dh |-> s.remote, seq |-> i,
                                 key |-> Advance(s.recv, i - s.nr)] : i \in s.nr..(until - 1)},
            !.recv = Advance(@, until - s.nr),
            !.nr = until]

\* Fault variant: receiveSequenceNumber is not reset for the new chain.
DhRatchetStepNoReset(s, dh, dhs) ==
    LET root1 == KdfRoot(s.root, DH(s.local, dh))
        root2 == KdfRoot(root1, DH(dhs, dh))
    IN [s EXCEPT !.pn = s.ns, !.ns = 0, !.remote = dh,
                 !.recv = ChainOf(root1), !.local = dhs,
                 !.root = root2, !.send = ChainOf(root2)]

\* dhRatchetStep, with the new local key pair dhs.
DhRatchetStep(s, dh, dhs) ==
    LET root1 == KdfRoot(s.root, DH(s.local, dh))
        root2 == KdfRoot(root1, DH(dhs, dh))
    IN [s EXCEPT !.pn = s.ns, !.ns = 0, !.nr = 0, !.remote = dh,
                 !.recv = ChainOf(root1), !.local = dhs,
                 !.root = root2, !.send = ChainOf(root2)]

Turns(s, m) == s.remote # m.dh

\* The session once the chain of m is the receiving chain.
OnChain(s, m, dhs) ==
    IF Turns(s, m) THEN DhRatchetStep(Skip(s, m.pn), m.dh, dhs) ELSE s

Refuses(s, m, dhs) ==
    (Turns(s, m) /\ TooFar(s, m.pn)) \/ TooFar(OnChain(s, m, dhs), m.seq)

SkippedKeys(s, m) == {k \in s.skipped : k.dh = m.dh /\ k.seq = m.seq}

\* secretbox.open succeeds exactly under the key that sealed m.
Open(m, key) ==
    IF key = m.key THEN opened' = opened \cup {m} /\ UNCHANGED <<failed, refused>>
                   ELSE failed' = failed \cup {m} /\ UNCHANGED <<opened, refused>>

Deliverable(p, m) ==
    /\ m.from = Peer(p)
    /\ Orderly /\ sess[p] = None => m.seq = 0

\* Fault variant: a key that was put aside stays there after its use.
DecryptSkippedKeep(p, s, m) ==
    \E k \in SkippedKeys(s, m) :
        /\ sess' = [sess EXCEPT ![p] = s]
        /\ Open(m, k.key)

\* The key of m had been put aside: it is removed, the session saved, m opened.
DecryptSkipped(p, s, m) ==
    \E k \in SkippedKeys(s, m) :
        /\ sess' = [sess EXCEPT ![p] = [s EXCEPT !.skipped = @ \ {k}]]
        /\ Open(m, k.key)

\* "Too many skipped messages": thrown before the session is saved.
DecryptRefused(s, m, dhs) ==
    /\ SkippedKeys(s, m) = {}
    /\ Refuses(s, m, dhs)
    /\ refused' = refused \cup {m}
    /\ UNCHANGED <<opened, failed>>

\* The session is advanced and saved; only then is m opened.
DecryptNext(p, s, m, dhs) ==
    LET t == Skip(OnChain(s, m, dhs), m.seq) IN
    /\ SkippedKeys(s, m) = {}
    /\ ~Refuses(s, m, dhs)
    /\ sess' = [sess EXCEPT ![p] = [t EXCEPT !.recv = Advance(@, 1), !.nr = @ + 1]]
    /\ Open(m, t.recv)

\* A message that turns the ratchet of s makes its receiver a new key pair.
Renews(s, m) == Turns(s, m) /\ SkippedKeys(s, m) = {}

\* A first message uses up its one-time pre-key; key pairs that were generated
\* are numbered.
Consume(p, m) ==
    /\ opk' = [opk EXCEPT ![p] = IF sess[p] = None THEN @ \ {m.otk} ELSE @]
    /\ fresh' = [fresh EXCEPT ![p] =
                    IF sess[p] = None \/ Renews(sess[p], m) THEN @ + 1 ELSE @]

(***************************************************************************)
(* A refusal leaves the stored session as it was, except for the new one   *)
(* that initiateBobSession has saved by itself.                            *)
(***************************************************************************)
Decrypt(p, m) ==
    LET s == Session(p, m) IN
    /\ Deliverable(p, m)
    /\ \/ DecryptSkipped(p, s, m)
       \/ DecryptRefused(s, m, NewKey(p)) /\ sess' = [sess EXCEPT ![p] = s]
       \/ DecryptNext(p, s, m, NewKey(p))
    /\ net' = net \ {m}
    /\ Consume(p, m)
    /\ UNCHANGED <<spk, offered, counts>>

-----------------------------------------------------------------------------
Init ==
    /\ sess    = [p \in Party |-> None]
    /\ spk     = [p \in Party |-> None]
    /\ opk     = [p \in Party |-> {}]
    /\ offered = [p \in Party |-> {}]
    /\ fresh   = [p \in Party |-> 1]     \* number 0 is the identity key
    /\ imports = [p \in Party |-> 0]
    /\ sends   = [p \in Party |-> 0]
    /\ net = {} /\ opened = {} /\ failed = {} /\ refused = {}

Next ==
    \E p \in Party :
        \/ GeneratePreKeyBundle(p)
        \/ InitiateSession(p)
        \/ Encrypt(p)
        \/ \E m \in net : Decrypt(p, m)

Spec == Init /\ [][Next]_vars

-----------------------------------------------------------------------------
(* Properties *)

Sent == net \cup opened \cup failed \cup refused

\* A session's keys are its owner's and its peer's, and its sequence numbers
\* are the steps taken on the chains.
TypeOK ==
    /\ \A p \in Party :
          /\ spk[p] = None \/ spk[p].of = p
          /\ \A k \in opk[p] : k.of = p /\ k.n < fresh[p]
          /\ sess[p] # None =>
                /\ sess[p].local.of = p /\ sess[p].local.n < fresh[p]
                /\ sess[p].remote.of = Peer(p)
                /\ sess[p].recv # None => sess[p].recv.step = sess[p].nr
                /\ sess[p].send # None => sess[p].send.step = sess[p].ns
    /\ net \cap (opened \cup failed \cup refused) = {}

(***************************************************************************)
(* CryptoEngine.test.ts:109, "correctly handles messages received out of   *)
(* order": every message that is delivered opens, or is refused because    *)
(* too many were missing before it.                                        *)
(***************************************************************************)
EveryDeliveryOpens == failed = {}

\* A party that holds session s can derive the message key.
Derives(s, key) ==
    \/ \E c \in {s.send, s.recv} \ {None} : c.root = key.root /\ c.step <= key.step
    \/ \E k \in s.skipped : k.key = key

(***************************************************************************)
(* Forward secrecy: once a message is opened, neither the session of its   *)
(* sender nor that of its receiver can derive its key again.               *)
(***************************************************************************)
ForwardSecrecy ==
    \A m \in opened, p \in Party : sess[p] # None => ~Derives(sess[p], m.key)

(***************************************************************************)
(* A key that is put aside belongs to a message that was really sent on    *)
(* that chain with that number, and that has not been opened.              *)
(***************************************************************************)
SkippedAwaited ==
    \A p \in Party : sess[p] # None =>
        \A k \in sess[p].skipped :
            \E m \in net \cup refused :
                m.from = Peer(p) /\ m.dh = k.dh /\ m.seq = k.seq /\ m.key = k.key
=============================================================================
