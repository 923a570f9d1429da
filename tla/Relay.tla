------------------------------- MODULE Relay -------------------------------
(***************************************************************************)
(* The blind-drop relay server (server/src): POST /api/v1/message handlers,*)
(* WebSocket sessions, the SQLite queue, the live channels of active_peers *)
(* and the TTL worker, interleaved at their await points.                  *)
(*                                                                         *)
(* A message of Msg is one POST; a session of Session is one WebSocket     *)
(* connection, so both are used once.  A ratchet ciphertext is opaque to   *)
(* the relay: only the recipient hash and the lengths it validates matter. *)
(***************************************************************************)
EXTENDS Naturals, Sequences, Functions

CONSTANTS
    Msg,          \* messages, one POST each
    Session,      \* WebSocket connections; a session names its own challenge
    Key,          \* Ed25519 identity keys of clients
    Address,      \* strings usable as recipient_pubkey_hash
    HexAddress,   \* those of 64 hexadecimal digits, in either case
    HashOf,       \* the lower-case hex SHA-256 of a key
    To,           \* the recipient_pubkey_hash of a message
    PayloadLen,   \* the length of its encrypted_payload
    NonceLen,     \* the length of its nonce
    MaxPayload,   \* config.max_payload_bytes
    TTL,          \* config.ttl_seconds, in clock steps
    NoKey, NoAddress

MaxNonceLen == 256

ASSUME RelayAssumption ==
    /\ HexAddress \subseteq Address
    /\ HashOf \in [Key -> HexAddress]
    /\ \A k1, k2 \in Key : HashOf[k1] = HashOf[k2] => k1 = k2
    /\ To \in [Msg -> Address]
    /\ PayloadLen \in [Msg -> Nat]
    /\ NonceLen \in [Msg -> Nat]
    /\ MaxPayload \in Nat
    /\ TTL \in Nat
    /\ NoKey \notin Key
    /\ NoAddress \notin Address

VARIABLES
    post,     \* post[m]: where the POST handler of m is, or how it answered
    db,       \* the messages table
    rowid,    \* rowid[m]: the AUTOINCREMENT id m was given, 0 if it had none
    nextid,   \* the next AUTOINCREMENT id
    ttl,      \* ttl[m]: clock steps until expires_at <= now, for m in db
    peers,    \* active_peers: the sessions whose Sender is registered
    pc,       \* pc[s]: where handle_ws_session is
    client,   \* client[s]: the key held by the process at the other end
    addr,     \* addr[s]: pubkey_hash, once verified
    outbox,   \* outbox[s]: fetched rows the session has still to write
    chan,     \* chan[s]: the unbounded channel of the session
    sent,     \* sent[s]: messages written to the socket, in order
    got,      \* got[s]: how many of them the client has read
    conn,     \* conn[s]: whether the socket still carries bytes
    lost,     \* history: messages dropped with a session's memory
    purged,   \* history: messages the TTL worker deleted
    prior     \* history: prior[m] = POSTs already answered when m's began

server  == <<pc, addr, outbox, chan, peers>>
socket  == <<client, sent, got, conn>>
table   == <<db, rowid, nextid, ttl>>
history == <<lost, purged, prior>>
vars    == <<post, table, server, socket, history>>

\* The two 200 answers: delivered_live true, delivered_live false.
Answered == {"live", "queued"}

(***************************************************************************)
(* Initially the table is empty and nobody is connected.                   *)
(***************************************************************************)
Init ==
    /\ post   = [m \in Msg |-> "new"]
    /\ db     = {}
    /\ rowid  = [m \in Msg |-> 0]
    /\ nextid = 1
    /\ ttl    = [m \in Msg |-> 0]
    /\ peers  = [a \in Address |-> {}]
    /\ pc     = [s \in Session |-> "idle"]
    /\ client = [s \in Session |-> NoKey]
    /\ addr   = [s \in Session |-> NoAddress]
    /\ outbox = [s \in Session |-> {}]
    /\ chan   = [s \in Session |-> <<>>]
    /\ sent   = [s \in Session |-> <<>>]
    /\ got    = [s \in Session |-> 0]
    /\ conn   = [s \in Session |-> "none"]
    /\ lost   = {}
    /\ purged = {}
    /\ prior  = [m \in Msg |-> {}]

-----------------------------------------------------------------------------
(* handle_send_message *)

Accepts(m) ==
    /\ To[m] \in HexAddress
    /\ PayloadLen[m] \in 1..MaxPayload
    /\ NonceLen[m] \in 1..MaxNonceLen

RejectPost(m) ==
    /\ post[m] = "new"
    /\ ~Accepts(m)
    /\ post' = [post EXCEPT ![m] = "rejected"]
    /\ UNCHANGED <<table, server, socket, history>>

\* A Sender accepts a message while the session still owns the Receiver.
\* The session creates the channel at "subscribe" and drops it when it ends.
RxOpen(s) == pc[s] = "live"

Listeners(a) == {s \in peers[a] : RxOpen(s)}

\* Fault variant: the handler enqueues whether or not the dispatch succeeded.
DispatchAndEnqueue(m) ==
    LET live == Listeners(To[m]) IN
    /\ post[m] = "new"
    /\ Accepts(m)
    /\ chan' = [s \in Session |-> IF s \in live THEN Append(chan[s], m) ELSE chan[s]]
    /\ peers' = [peers EXCEPT ![To[m]] = live]
    /\ post' = [post EXCEPT ![m] = "enqueue"]
    /\ prior' = [prior EXCEPT ![m] = {n \in Msg : post[n] \in Answered}]
    /\ UNCHANGED <<table, pc, addr, outbox, socket, lost, purged>>

(***************************************************************************)
(* dispatch_live, under the write lock of active_peers: every open channel *)
(* of the recipient gets a copy, the closed ones are forgotten, and the    *)
(* handler goes on to enqueue when none was open.                          *)
(***************************************************************************)
DispatchLive(m) ==
    LET live == Listeners(To[m]) IN
    /\ post[m] = "new"
    /\ Accepts(m)
    /\ chan' = [s \in Session |-> IF s \in live THEN Append(chan[s], m) ELSE chan[s]]
    /\ peers' = [peers EXCEPT ![To[m]] = live]
    /\ post' = [post EXCEPT ![m] = IF live # {} THEN "live" ELSE "enqueue"]
    /\ prior' = [prior EXCEPT ![m] = {n \in Msg : post[n] \in Answered}]
    /\ UNCHANGED <<table, pc, addr, outbox, socket, lost, purged>>

\* Fault variant: expires_at lies one clock step too late.
InsertLate(m) ==
    /\ db' = db \cup {m}
    /\ rowid' = [rowid EXCEPT ![m] = nextid]
    /\ nextid' = nextid + 1
    /\ ttl' = [ttl EXCEPT ![m] = TTL + 1]

(***************************************************************************)
(* enqueue_message: the INSERT.                                            *)
(***************************************************************************)
Insert(m) ==
    /\ db' = db \cup {m}
    /\ rowid' = [rowid EXCEPT ![m] = nextid]
    /\ nextid' = nextid + 1
    /\ ttl' = [ttl EXCEPT ![m] = TTL]

Enqueue(m) ==
    /\ post[m] = "enqueue"
    /\ Insert(m)
    /\ post' = [post EXCEPT ![m] = "queued"]
    /\ UNCHANGED <<server, socket, history>>

\* The INSERT fails: 500 to the sender, nothing stored.
EnqueueError(m) ==
    /\ post[m] = "enqueue"
    /\ post' = [post EXCEPT ![m] = "failed"]
    /\ UNCHANGED <<table, server, socket, history>>

(***************************************************************************)
(* The sender's connection goes away and hyper drops the handler's future  *)
(* in the await of enqueue_message.  The statement is on SQLite's own      *)
(* thread: it may or may not have been executed.                           *)
(***************************************************************************)
PostCancelled(m) ==
    /\ post[m] = "enqueue"
    /\ post' = [post EXCEPT ![m] = "cancelled"]
    /\ Insert(m) \/ UNCHANGED table
    /\ UNCHANGED <<server, socket, history>>

-----------------------------------------------------------------------------
(* handle_ws_session *)

\* A WebSocket is upgraded and its challenge is sent.
Connect(s, k) ==
    /\ pc[s] = "idle"
    /\ pc' = [pc EXCEPT ![s] = "challenge"]
    /\ client' = [client EXCEPT ![s] = k]
    /\ conn' = [conn EXCEPT ![s] = "up"]
    /\ UNCHANGED <<post, table, addr, outbox, chan, peers, sent, got, history>>

(***************************************************************************)
(* Signatures the client of s may present: its own over any challenge, or  *)
(* one that another key once made, which was over another session's.       *)
(***************************************************************************)
Signatures(s) ==
    {sig \in [by : Key, over : Session] : sig.by = client[s] \/ sig.over # s}

\* Fault variant: the signature is checked, but not what it signs.
VerifyAnyChallenge(s, key, sig) == sig.by = key

\* verify_challenge_signature: sig is by the presented key over s's challenge.
Verify(s, key, sig) == sig.by = key /\ sig.over = s

AuthOk(s, key, sig) ==
    /\ pc[s] = "challenge"
    /\ sig \in Signatures(s)
    /\ Verify(s, key, sig)
    /\ addr' = [addr EXCEPT ![s] = HashOf[key]]
    /\ pc' = [pc EXCEPT ![s] = "fetch"]
    /\ UNCHANGED <<post, table, outbox, chan, peers, socket, history>>

\* A bad signature, another message, 10 s of silence or a dropped socket.
AuthReject(s) ==
    /\ pc[s] = "challenge"
    /\ pc' = [pc EXCEPT ![s] = "closed"]
    /\ conn' = [conn EXCEPT ![s] = "down"]
    /\ UNCHANGED <<post, table, addr, outbox, chan, peers, client, sent, got, history>>

Mailbox(a) == {m \in db : To[m] = a}

\* Fault variant: the rows are read, and the transaction never deletes them.
FetchKeep(s) ==
    /\ pc[s] = "fetch"
    /\ outbox' = [outbox EXCEPT ![s] = Mailbox(addr[s])]
    /\ pc' = [pc EXCEPT ![s] = "drain"]
    /\ UNCHANGED <<post, table, addr, chan, peers, socket, history>>

\* Fault variant: DELETE FROM messages without its WHERE clause.
FetchDeleteAll(s) ==
    /\ pc[s] = "fetch"
    /\ outbox' = [outbox EXCEPT ![s] = Mailbox(addr[s])]
    /\ db' = {}
    /\ pc' = [pc EXCEPT ![s] = "drain"]
    /\ UNCHANGED <<post, rowid, nextid, ttl, addr, chan, peers, socket, history>>

(***************************************************************************)
(* fetch_and_delete_messages: one transaction that reads and deletes every *)
(* row of the mailbox, the expired ones that the worker has not reached    *)
(* included.                                                               *)
(***************************************************************************)
Fetch(s) ==
    /\ pc[s] = "fetch"
    /\ outbox' = [outbox EXCEPT ![s] = Mailbox(addr[s])]
    /\ db' = db \ Mailbox(addr[s])
    /\ pc' = [pc EXCEPT ![s] = "drain"]
    /\ UNCHANGED <<post, rowid, nextid, ttl, addr, chan, peers, socket, history>>

\* The transaction fails and is rolled back; the session goes on without it.
FetchError(s) ==
    /\ pc[s] = "fetch"
    /\ pc' = [pc EXCEPT ![s] = "drain"]
    /\ UNCHANGED <<post, table, addr, outbox, chan, peers, socket, history>>

\* A write to a socket that is down may still succeed into a kernel buffer.
Write(s, m) ==
    /\ sent' = [sent EXCEPT ![s] = Append(@, m)]
    /\ lost' = IF conn[s] = "up" THEN lost ELSE lost \cup {m}
    /\ UNCHANGED <<client, got, conn, purged, prior>>

\* Fault variant: the rows are written in no particular order.
AnyOf(s, m) == m \in outbox[s]

\* ORDER BY id ASC.
FirstOf(s, m) ==
    /\ m \in outbox[s]
    /\ \A n \in outbox[s] : rowid[m] <= rowid[n]

DrainSend(s) ==
    /\ pc[s] = "drain"
    /\ \E m \in outbox[s] :
          /\ FirstOf(s, m)
          /\ outbox' = [outbox EXCEPT ![s] = @ \ {m}]
          /\ Write(s, m)
    /\ UNCHANGED <<post, table, pc, addr, chan, peers>>

\* A write fails: the handler returns and the rows it still held are gone.
DrainFail(s) ==
    /\ pc[s] = "drain"
    /\ outbox[s] # {}
    /\ conn[s] = "down"
    /\ lost' = lost \cup outbox[s]
    /\ outbox' = [outbox EXCEPT ![s] = {}]
    /\ pc' = [pc EXCEPT ![s] = "closed"]
    /\ UNCHANGED <<post, table, addr, chan, peers, socket, purged, prior>>

\* Fault variant: the session registers before it has written its backlog.
SubscribeEarly(s) ==
    /\ pc[s] = "drain"
    /\ peers' = [peers EXCEPT ![addr[s]] = @ \cup {s}]
    /\ pc' = [pc EXCEPT ![s] = "live"]
    /\ UNCHANGED <<post, table, addr, outbox, chan, socket, history>>

\* subscribe_peer, once the backlog is written.
Subscribe(s) ==
    /\ pc[s] = "drain"
    /\ outbox[s] = {}
    /\ peers' = [peers EXCEPT ![addr[s]] = @ \cup {s}]
    /\ pc' = [pc EXCEPT ![s] = "live"]
    /\ UNCHANGED <<post, table, addr, outbox, chan, socket, history>>

\* send_task: one turn of its loop.
LiveSend(s) ==
    /\ pc[s] = "live"
    /\ chan[s] # <<>>
    /\ chan' = [chan EXCEPT ![s] = Tail(@)]
    /\ Write(s, Head(chan[s]))
    /\ UNCHANGED <<post, table, pc, addr, outbox, peers>>

(***************************************************************************)
(* One of send_task and recv_task notices that the socket is gone and the  *)
(* other is aborted: the receiver and what it still held are dropped.  The *)
(* sender stays in active_peers until the next dispatch to the mailbox.    *)
(***************************************************************************)
LiveEnd(s) ==
    /\ pc[s] = "live"
    /\ conn[s] = "down"
    /\ lost' = lost \cup Range(chan[s])
    /\ chan' = [chan EXCEPT ![s] = <<>>]
    /\ pc' = [pc EXCEPT ![s] = "closed"]
    /\ UNCHANGED <<post, table, addr, outbox, peers, socket, purged, prior>>

-----------------------------------------------------------------------------
(* The network, the clock and the process *)

Unread(s) == {sent[s][i] : i \in (got[s] + 1)..Len(sent[s])}
HasRead(s) == {sent[s][i] : i \in 1..got[s]}

ClientRead(s) ==
    /\ conn[s] = "up"
    /\ got[s] < Len(sent[s])
    /\ got' = [got EXCEPT ![s] = @ + 1]
    /\ UNCHANGED <<post, table, server, client, sent, conn, history>>

\* The client closes or the circuit dies; what was under way is gone.
ConnBreak(s) ==
    /\ conn[s] = "up"
    /\ conn' = [conn EXCEPT ![s] = "down"]
    /\ lost' = lost \cup Unread(s)
    /\ UNCHANGED <<post, table, server, client, sent, got, purged, prior>>

Tick ==
    /\ \E m \in db : ttl[m] > 0
    /\ ttl' = [m \in Msg |-> IF m \in db /\ ttl[m] > 0 THEN ttl[m] - 1 ELSE ttl[m]]
    /\ UNCHANGED <<post, db, rowid, nextid, server, socket, history>>

\* Fault variant: expires_at >= now.
NotYetExpired == {m \in db : ttl[m] >= 0}

Expired == {m \in db : ttl[m] = 0}

\* Fault variant: the worker runs at start-up and never again.
CleanupOnce ==
    /\ Expired # {}
    /\ purged = {}
    /\ db' = db \ Expired
    /\ purged' = purged \cup Expired
    /\ UNCHANGED <<post, rowid, nextid, ttl, server, socket, lost, prior>>

\* cleanup_expired_messages, as start_ttl_worker calls it.
Cleanup ==
    /\ Expired # {}
    /\ db' = db \ Expired
    /\ purged' = purged \cup Expired
    /\ UNCHANGED <<post, rowid, nextid, ttl, server, socket, lost, prior>>

\* What a session holds in memory, what it was ever given and has not
\* dropped, and what it wrote that can still arrive.
Holds(s) == outbox[s] \cup Range(chan[s])
Carried(s) == Holds(s) \cup Range(sent[s])
InFlight(s) == IF conn[s] = "up" THEN Unread(s) ELSE {}

(***************************************************************************)
(* The process dies and main runs again on the same database file: every   *)
(* handler, session and channel is gone, the table is not.  DATABASE_URL   *)
(* is taken to name a file; the default of config.rs, "sqlite::memory:",   *)
(* keeps the table no longer than the process.                             *)
(***************************************************************************)
Crash ==
    /\ post' = [m \in Msg |-> IF post[m] = "enqueue" THEN "cancelled" ELSE post[m]]
    /\ pc' = [s \in Session |-> IF pc[s] = "idle" THEN "idle" ELSE "closed"]
    /\ conn' = [s \in Session |-> IF pc[s] = "idle" THEN conn[s] ELSE "down"]
    /\ lost' = lost \cup UNION {Holds(s) \cup InFlight(s) : s \in Session}
    /\ outbox' = [s \in Session |-> {}]
    /\ chan' = [s \in Session |-> <<>>]
    /\ peers' = [a \in Address |-> {}]
    /\ UNCHANGED <<table, addr, client, sent, got, purged, prior>>

-----------------------------------------------------------------------------
Post(m) ==
    \/ RejectPost(m)
    \/ DispatchLive(m)
    \/ Enqueue(m)
    \/ EnqueueError(m)
    \/ PostCancelled(m)

Serve(s) ==
    \/ AuthReject(s)
    \/ Fetch(s)
    \/ FetchError(s)
    \/ DrainSend(s)
    \/ DrainFail(s)
    \/ Subscribe(s)
    \/ LiveSend(s)
    \/ LiveEnd(s)

Next ==
    \/ \E m \in Msg : Post(m)
    \/ \E s \in Session :
          \/ Serve(s)
          \/ ClientRead(s)
          \/ ConnBreak(s)
          \/ \E k \in Key : Connect(s, k)
          \/ \E k \in Key, sig \in [by : Key, over : Session] : AuthOk(s, k, sig)
    \/ Tick
    \/ Cleanup
    \/ Crash

Spec == Init /\ [][Next]_vars

(***************************************************************************)
(* tokio runs every task that is ready, TCP delivers on a connection that  *)
(* stays up, time passes and the worker's interval fires.                  *)
(***************************************************************************)
Fairness ==
    /\ \A s \in Session :
          /\ WF_vars(DrainSend(s))
          /\ WF_vars(LiveSend(s))
          /\ WF_vars(ClientRead(s))
    /\ WF_vars(Tick)
    /\ WF_vars(Cleanup)

FairSpec == Spec /\ Fairness

-----------------------------------------------------------------------------
(* Properties *)

TypeOK ==
    /\ post \in [Msg -> {"new", "rejected", "enqueue", "live", "queued", "failed", "cancelled"}]
    /\ db \subseteq Msg
    /\ rowid \in [Msg -> Nat]
    /\ nextid \in Nat \ {0}
    /\ ttl \in [Msg -> 0..TTL]
    /\ peers \in [Address -> SUBSET Session]
    /\ pc \in [Session -> {"idle", "challenge", "fetch", "drain", "live", "closed"}]
    /\ client \in [Session -> Key \cup {NoKey}]
    /\ addr \in [Session -> Address \cup {NoAddress}]
    /\ outbox \in [Session -> SUBSET Msg]
    /\ chan \in [Session -> Seq(Msg)]
    /\ sent \in [Session -> Seq(Msg)]
    /\ got \in [Session -> Nat]
    /\ conn \in [Session -> {"none", "up", "down"}]
    /\ lost \subseteq Msg
    /\ purged \subseteq Msg
    /\ prior \in [Msg -> SUBSET Msg]

(***************************************************************************)
(* A message answered with 200 is never silently dropped by the relay: it  *)
(* is in the table, in a session's memory, on the wire, read, deleted by   *)
(* the TTL worker, or was in the hands of a session that ended.            *)
(***************************************************************************)
Accounted ==
    \A m \in Msg : post[m] \in Answered =>
        \/ m \in db \cup lost \cup purged
        \/ \E s \in Session : m \in Holds(s) \cup InFlight(s) \cup HasRead(s)

(***************************************************************************)
(* Zero retention (db.rs:69): a message that was given to any session, was *)
(* lost with one, or expired, is not in the table, and never comes back.   *)
(***************************************************************************)
ZeroRetention ==
    \A m \in db :
        /\ m \notin lost \cup purged
        /\ \A s \in Session : m \notin Carried(s)

(***************************************************************************)
(* A mailbox is read only by the holder of its key: whatever a session     *)
(* fetched, was sent or has written is addressed to the hash of the key at *)
(* the other end of its socket.                                            *)
(***************************************************************************)
Isolation ==
    \A s \in Session : \A m \in Carried(s) :
        /\ client[s] \in Key
        /\ To[m] = HashOf[client[s]]

\* Inductive strengthening of Isolation: what addr and active_peers mean.
Bound ==
    /\ \A s \in Session : IF pc[s] = "idle" THEN client[s] = NoKey ELSE client[s] \in Key
    /\ \A s \in Session : addr[s] # NoAddress =>
          pc[s] \notin {"idle", "challenge"} /\ addr[s] = HashOf[client[s]]
    /\ \A s \in Session : pc[s] \in {"fetch", "drain", "live"} => addr[s] # NoAddress
    /\ \A a \in Address : \A s \in peers[a] : addr[s] = a

\* Inductive strengthening of ZeroRetention: a POST that has not been
\* dispatched or inserted has left no trace in the table or in a session.
Pending == {"new", "rejected", "enqueue", "failed"}
Untouched ==
    \A m \in Msg : post[m] \in Pending =>
        /\ m \notin db \cup lost \cup purged
        /\ \A s \in Session : m \notin Carried(s)

(***************************************************************************)
(* No session is given a message twice, and one that went through the      *)
(* table is given to a single session.                                     *)
(***************************************************************************)
AtMostOnce ==
    \A s \in Session :
        /\ IsInjective(chan[s]) /\ IsInjective(sent[s])
        /\ outbox[s] \cap Range(chan[s]) = {}
        /\ Holds(s) \cap Range(sent[s]) = {}
        /\ \A r \in Session \ {s}, m \in Carried(s) :
              rowid[m] # 0 => m \notin Carried(r)

(***************************************************************************)
(* A session writes messages in the order in which a sender that waits for *)
(* each answer posted them: none precedes one whose POST was answered      *)
(* before its own began, whether they went by the table or by the channel. *)
(***************************************************************************)
SessionFifo ==
    \A s \in Session : \A i, j \in DOMAIN sent[s] :
        i < j => sent[s][j] \notin prior[sent[s][i]]

(***************************************************************************)
(* A row leaves the table only to a session of its own mailbox or because  *)
(* it has expired: no crash, failed fetch or other mailbox's fetch does it.*)
(***************************************************************************)
RowsLeaveOnlyTo ==
    [][\A m \in db \ db' :
          \/ ttl[m] = 0
          \/ \E s \in Session : addr[s] = To[m] /\ m \in outbox'[s]]_vars

(***************************************************************************)
(* Whatever a session holds reaches its client, in spite of other sessions,*)
(* POSTs and the worker, unless the connection breaks.                     *)
(***************************************************************************)
HandedReaches ==
    \A s \in Session, m \in Msg :
        m \in Holds(s) ~> (m \in HasRead(s) \/ conn[s] = "down")

(***************************************************************************)
(* No row stays for ever, not even one for a mailbox that nobody reads.    *)
(***************************************************************************)
RowsLeave == \A m \in Msg : m \in db ~> m \notin db

(***************************************************************************)
(* The refinement mapping to BlindDrop: a message is read once any session *)
(* carried it to its client, handed while any session still can, stored    *)
(* while it is in the table.                                               *)
(***************************************************************************)
Fate(m) ==
    CASE \E s \in Session : m \in HasRead(s)               -> "read"
      [] /\ \A s \in Session : m \notin HasRead(s)
         /\ \E s \in Session : m \in Holds(s) \cup InFlight(s) -> "handed"
      [] m \in db                                           -> "stored"
      [] OTHER -> IF m \in lost \cup purged THEN "gone" ELSE "outside"

Readers(m) == {client[s] : s \in {r \in Session : m \in HasRead(r)}}

Drop == INSTANCE BlindDrop WITH
            Owner   <- [m \in Msg |-> {k \in Key : HashOf[k] = To[m]}],
            fate    <- [m \in Msg |-> Fate(m)],
            readers <- [m \in Msg |-> Readers(m)]

(***************************************************************************)
(* The relay implements BlindDrop: every step of handlers, sessions,       *)
(* network, worker and crash is one step in the lives of some messages.    *)
(***************************************************************************)
RefinesBlindDrop == Drop!Spec

=============================================================================
