# TorE2EE Messenger: TLA+ models, model checking and proofs

TorE2EE Messenger is an end-to-end encrypted messenger. A Rust relay
(`server/`) keeps a mailbox per identity key, the *blind drop*: a sender POSTs a
ciphertext to the hash of the recipient's key, the recipient proves that it
holds the key over a WebSocket and is handed what is waiting. A React Native
client (`client/`) talks to it through Tor, encrypts with X3DH and a double
ratchet, and stores everything in an encrypted SQLite database.

Paths below are relative to `src/`.

## Files

| File | What it is |
|---|---|
| `BlindDrop.tla` | abstract specification: the life of a message, from outside |
| `Relay.tla` | the relay server |
| `RelayProofs.tla` | theorems about `Relay`, checked by TLAPS, among them that it implements `BlindDrop` |
| `Ratchet.tla` | the crypto engine of two parties, with symbolic keys |
| `RatchetProofs.tla` | theorems about `Ratchet` |
| `Messaging.tla` | the orchestrator on two devices, cut at its awaits; extends `Ratchet` |
| `MessagingProofs.tla` | theorems about `Messaging`; extends `RatchetProofs` |
| `WsClient.tla` | the client's WebSocket connection and its reconnecting |
| `BackgroundSync.tla` | a headless sync cycle and the Tor manager; extends `WsClient` |
| `Request.tla` | abstract specification: what the caller of the HTTP client can rely on |
| `HttpClient.tla` | the HTTP client and the SOCKS5 tunnel |
| `Conversations.tla` | one device with several others: sends, self-sync, the tables, the view; extends `Request` |
| `Lifecycle.tla` | identity, keychain, database files, provider and orchestrators |
| `WsClientProofs.tla`, `BackgroundSyncProofs.tla`, `HttpClientProofs.tla`, `ConversationsProofs.tla`, `LifecycleProofs.tla` | theorems about these modules |
| `MCRelay.tla`, `MCRatchet.tla`, `MCMessaging.tla`, `MCWsClient.tla`, `MCBackgroundSync.tla`, `MCConversations.tla`, `MCLifecycle.tla` | small instances |
| `*.cfg` | one TLC run each |
| `PROJECT.json` | components, runs, source map, fault variants, findings, hazards, theorems |

A run is `tlc -config RelaySafety.cfg MCRelay`; the proofs are checked with
`tlapm RelayProofs.tla`, and so for each `*Proofs` module.

In the specifications, an operator whose comment begins "Fault variant" is the
definition that follows it with a plausible mistake. No specification uses it:
putting it in place of the original must make TLC find a violation, which shows
that the property in question depends on that piece of code.

## Inventory

**Relay server** (`server/src`). State: the table `messages`
(AUTOINCREMENT id, recipient hash, payload, nonce, expiry), `active_peers`
(per hash, the senders of unbounded channels), and per connection a task
(`handle_ws_session`), later two. Operations: `POST /api/v1/message` validates,
dispatches to live channels and enqueues if there were none; the WebSocket
session sends a challenge, verifies a signature, fetches and deletes the backlog
in one transaction, writes it, subscribes, and then streams; the TTL worker
deletes expired rows. Handlers, sessions and worker share the table and
`active_peers`, and interleave at every await. It is correct if no accepted
message disappears without one of the known causes, none is handed out twice or
kept after it was handed out, none reaches another key, and what a session holds
is delivered in order.

**Crypto engine** (`client/src/crypto`). State: per peer a session record (root
key, two chain keys, DH pair and remote key, three counters, keys put aside);
signed and one-time pre-keys. Operations: make a bundle, initiate a session from
one, encrypt, decrypt (which also answers a first message). Hard: messages that
arrive in another order than they were sent, across ratchet turns; the order of
saving and opening; the skip limit. It is correct if what is delivered opens, no
message key is used twice, and a key is gone once it was used.

**WebSocket client** (`client/src/network/TorWebSocketClient.ts`,
`Socks5Tunnel.ts`). State: connection state, current socket and its listeners,
reconnect timer, ping timer, receive buffer, `autoReconnect`,
`reconnectAttempts`. Operations: connect (two awaits), frame handlers, close
handler, timer, disconnect. Hard: stop, close and timer events that fall between
the pieces of connect. It is correct if it owns at most one socket, arms a timer
exactly while it waits to reconnect, reports itself connected only when it is,
and comes back after a loss.

**Orchestrator** (`client/src/orchestration/AppOrchestrator.ts`). Owns all of
the above. `sendOutboundMessage` encrypts and POSTs for each device of the
contact and of the user, then stores; `handleIncomingMessage` resolves the
sender, decrypts, stores and emits. Incoming envelopes are not awaited, so the
handlers of frames that arrive in one chunk overlap, on one session record. It is
correct if every message key encrypts one message whatever fails or crashes
around it, what is delivered opens, and what was opened is stored.

**Contact exchange** (`ContactExchange.ts`): exports a bundle as a URI, parses
and verifies one, stores the contact and initiates the session.

**Background sync** (`client/src/background`): a headless cycle under a
bootstrap and a drain timeout, with its own client, database handle and a share
in the Tor singleton. Hard: the phases wait for promises that callbacks of the
client settle, the bootstrap goes on after its timeout, and a notification may end
after the cycle that awaits it. It is correct if every cycle ends, leaves nothing of
its client running, and loses no message it has taken.

**HTTP client and tunnel** (`TorHttpClient.ts`, `Socks5Tunnel.ts`). State, per
request: a socket, the tunnel's timer and then the request's, what has arrived
of the answer, a promise. Operations: `sendMessage`, `checkHealth`. Hard: every
callback may be the last one; data, end, error and timer race; an answer comes in
pieces or is cut. It is correct if the promise settles once and only truly, and
socket and timer are gone when it has.

**Tor manager** (`TorManager.ts`): a process-wide daemon handle and its status.

**Storage** (`client/src/storage`). State: the key of the database in the
keychain, one file per identity with its tables. Operations: key creation in two
calls of the keychain, two migrations without a transaction, repositories of
single statements. It is correct if whatever a crash leaves can be opened and
completed.

**Identity** (`client/src/identity`) and **UI state**
(`ui/context/OrchestratorContext.tsx`). State: the identity in the keychain and
in the provider, the orchestrator in a ref, the open conversation and its
messages. Operations: load, create, restore, log out; two effects; select a
conversation, send, import. Hard: the effect awaits `create()` and `start()`
while the user goes on; event handlers keep the state of the render that made
them. It is correct if only the current identity's orchestrator is connected, no
identity is replaced unasked, and what is marked as read was shown.

**Device linking** (`client/src/devices`). State: `linked_devices` of contacts
and `own_linked_devices`. Operations: encrypt and POST a payload to a new device,
add, list and remove devices. Every send goes to each device of the contact and
of the user; what arrives from an own device is a copy of a sent message. It is
correct if one device that fails keeps no other from its copy, and what is
recorded of the send is true.

**Notifications**, **battery bridge**, **screens**, **tester CLI**: see
"Not modelled".

`PROJECT.json` lists what is hard to test in each, at its line, under `hazards`.

## What is modelled

### Relay

One action per piece of code between two awaits. `post[m]` is the state of the
POST handler of `m` (`DispatchLive` is one step because it runs under the write
lock; `Enqueue`, `EnqueueError` and `PostCancelled` are the ways the INSERT can
end). `pc[s]` is where the session is: `challenge`, `fetch`, `drain`, `live`,
`closed`. `outbox` is the vector the fetch returned, `chan` the session's
channel, `peers` is `active_peers`, in which a closed session stays until the
next dispatch prunes it. A session can send on its channel while `pc` is `live`,
which is as long as it owns the receiver. `sent`/`got`/`conn` are the socket: a
write to a connection that is down may still succeed, in which case the message
is lost. The clock is `ttl`, steps until `expires_at <= now`; the worker is
`Cleanup`. `Crash` is the end of the process at any point and `main` on the same
database file: `DATABASE_URL` is taken to name one. Its default,
`sqlite::memory:` (`config.rs:12`), keeps no table (see "Known limits"). A session is used once and so is a message, which bounds the
state space without bounding any counter of the code.

A client holds one key and may present any key with any signature it can have:
its own over anything, or one that somebody once made over another session's
challenge. `lost`, `purged` and `prior` are history variables.

`BlindDrop` states the same service without sessions or tables: a message is
outside, stored, handed, read or gone, and only ever moves forward.
`Relay!Drop` is the refinement mapping.

### Ratchet

Keys are terms: a DH output is the set of the two key pairs, a root key the
sequence of inputs that led to it, a chain key its root and a step, and two
derivations agree exactly if their inputs do. Thus `Open` succeeds exactly when
both ends derived the same key. The network holds messages in no order and may
never deliver one. `Orderly` is the assumption that the first message a
responder sees is one with sequence number 0, without which the code does not
open it (see "Known limits"). An engine operation is one step and a message is delivered once.

### Messaging

`Messaging` extends `Ratchet` with the devices around the engine: `task[p]` is
what p's UI and its frame handlers are doing, each with the copy of the session
it has read; `contacts`, `recorded` and `outgoing` are rows of the database. The
engine's operations are built from the same operators as in `Ratchet`, cut where
the code awaits: `SendBegin` reads, `SendSeal` advances and saves, `SendPost` may
fail after or before the relay has the message, `SendRecord` stores;
`ReceiveBegin` resolves the sender, `ReceiveRead` reads the session,
`ReceiveTakeKey` and `ReceiveAnswer` are `initiateBobSession`, `ReceiveDecrypt`
saves and opens, `ReceiveRecord` stores. `Crash` falls between any two.

The one database driver there is runs synchronously inside async functions, so a
handler gives way only to handlers that wait in the same way. `Quiet` and
`InChunk` say so: another event is taken when only a POST is under way, and
several frames are handed over together only if they were in one chunk. `Frame`
is how many. `Introduced` devices may start with a contact row and no session,
which an interrupted import leaves; without it no reply would ever reach anyone,
because the row made for an unknown sender has no usable address (`"identity"`).
Each contact has one device and nobody has linked ones; several devices are the
subject of `Conversations`. A POST may fail at any time and may also stay open for
ever, as `HttpClient` shows that it can.

### WsClient

`connect()` is cut at its two awaits (`ConnectFrom`, then `DialOk`/`DialFail`,
then `UpgradeOk`/`UpgradeRejected`); every event handler is one action.
`sock[c]` records which listeners a socket has, because that decides what its
closing does: before the upgrade, nothing. `buffer` is the socket whose
incomplete frame is waiting, `strays` counts timers that no field refers to any
more. `reconnectAttempts` is kept up to 5, beyond which the code does not tell
values apart. `start()` runs once and may still be on its way when `stop()` is
called; `stop()` is called at most twice, by `logout` and by the effect's
cleanup.

### BackgroundSync

`executeSync` is a sequence of phases: `setup`, `bootstrap` (the native start of
Tor races a timeout), `drain` (the client connects and the promise waits for one
of its callbacks), `settled`, and `stopping` (the `finally` block awaits the
native stop). `run` also says which resources the cycle holds. The client is
`WsClient` itself, without `start()` and `stop()`: each of its events is taken
together with what the cycle's callback does. `onError` and `onDisconnect`
settle the promise, `onAuthenticated` arms the drain timer, `onMessage` stores,
awaits the notification (`notes`) and then arms the timer anew
(`NotificationShown`), unless the notification throws (`NotificationFails`).
Code that follows a settled promise runs before the next event, which `Calm`
expresses. `tor` is the status of the Tor singleton and the number of native
starts that a timed-out cycle has left behind (`orphans`); such a start sets
the status when it ends (`LateStart`).

Timers and notifications carry the number of the cycle that began them, since two
of them outlive it. Nothing clears the bootstrap timer, whoever wins the race
(`bootTimers`, `LateBootTimer`). And `drainTimer` is never reset: a notification
that ends when the promise is settled arms a timer in a cycle that is over, perhaps
while the next one drains (`overrun` remembers this, `LateDrainTimer` is its
firing). Both timers then find their own promise settled and do nothing.

The database driver is synchronous, so storing a message is one step. How long a
notification takes is open; it may never end. The count that is returned, dev mode,
and a call of `executeSync` while one is running are left out.

### HttpClient

One action per callback: connect, the proxy's two answers, a chunk, end, error,
and each timer. `phase` is the listener that is installed (`AUTH`, `CONNECT`,
`request`; `dial` is the direct connection of dev mode), `timers` the armed ones.
An answer is a status, a declared length or none, and a number of pieces; `got`
counts those that have arrived, of which two are the header. A body is JSON only
when it is complete, so that `Judged` says what `parseHttpResponse` and its two
callers make of a part of it. The relay may take a message and answer late, cut
short, malformed or not at all, and the connection may end or break at any point.
`Throw` is the exception that leaves the listener after the timer was cleared.

`Request` is the same seen by the caller: pending, then ok, failed or abandoned.
`HttpClient!Caller` is the refinement mapping.

### Conversations

One device of a user, whose own other devices and whose contacts' devices are
`Device`. `sendOutboundMessage` is cut at its POSTs: `out` is the send that is
under way with the targets still to do, in the loop over the contact's devices
(`contact`) and in that over the user's own (`self`), which is read only when the
first one is done. A POST is a `Request` and may never end, in which case so
does the send. Between two events the code runs at once (`Calm`). `Row` is a
contact row's key: a hash, or the identity key that stands there for an unknown
sender. `Receive`, `ReceiveSync` and `ReceiveFails` are `handleIncomingMessage`
for an ordinary message, one whose payload says that it is the copy of what the
user has sent from another device, and one that does not open. Any device may send
either: the code does not check that a copy comes from one of the user's own. Whether a given message opens is `Ratchet`'s
and `Messaging`'s subject and left open here. `active` and `view` are what the
provider shows; `Page` reads up to `Limit` rows with the lowest timestamps, which
are whichever the clocks of the senders have made lowest. `Notified` changes
nothing, because the handlers hold the state of the first render. `fate` is a
history variable: the copies that are owed, that the relay has taken, that were
missed, and for which it answered that they were delivered live.

### Lifecycle

The keychain and Tor answer later; the user, the provider's effect and other
orchestrators go on meanwhile. `orch` lists the orchestrators in the order in
which they were made, each at one of its awaits: `get` and `set` are the two calls
of the keychain for the database's key, `migrate` the statements of `todo`, one
action each, `connecting` Tor's start and the client's dial. `Entered` and
`LoggedOut` are the continuations of `createIdentity`/`restoreIdentity` and of
`logout`, `Effect` the provider's effect together with the cleanup of the one
before. `Initialized` sets the ref, whoever the identity is by then. `file[x]` is
the database of identity `x`: the key it was made with and the tables, columns and
version rows in it, in the order of `V1` and `V2`. `Crash` falls between any two
statements, and a restart finds the keychain and the files. `WsClient` has the
detail of what is `online` here. A crash leaves the place of each orchestrator in
`orch` taken, so that `MaxStarts` bounds the starts over all restarts.

## Runs

| Run | Instance | States | Shows |
|---|---|---|---|
| `relay_safety` | 3 messages (one is refused), 2 connections, Bob and a client with another key, TTL 1 | 282,260 | `Accounted`, `ZeroRetention`, `Isolation`, `AtMostOnce`, `SessionFifo`, `RowsLeaveOnlyTo` |
| `relay_service` | 2 messages to Bob, 2 connections | 138,908 | the relay implements `BlindDrop`; `HandedReaches`, `RowsLeave` under fairness |
| `ratchet_safety` | Alice 6, Bob 4 messages, skip limit 1 | 70,891 | `EveryDeliveryOpens`, `ForwardSecrecy`, `SkippedAwaited` |
| `messaging` | Alice 3, Bob 2 messages, one frame per chunk, one crash of Bob | 44,263 | `SealedOnce`, `DeliveredOpens`, `KeysForgotten`; `OpenedIsRecorded` under fairness |
| `messaging_overlap` | the same with two frames per chunk | violated | finding 1 |
| `wsclient` | 2 runs of connect() at a time, 2 stops | 402 | `NoSocketLeaked`, `TimerMeansReconnecting`, `BufferIsCurrent`, `Recovers` |
| `background` | 3 cycles, 2 messages | 146,331 | `NothingLeftBehind`, `NoMailLost`, `TorSuspended`; `CycleEndsIfAnswered` under fairness |
| `background_ends` | 1 cycle | violated | finding 2 |
| `http` | bodies of 1 or 2 pieces, both modes | 514 | the client implements `Request`; `NothingLeft`; `Settles` under fairness |
| `conversations` | a contact with up to 2 devices, 1 own device, 2 messages, pages of 1 row, 1 import | 2,614,024 | `RecordedTruly`, `ReadIsShown` |
| `conversations_live` | the same | violated | finding 3 |
| `lifecycle` | 2 identities, 3 starts, any number of crashes, one failure of the keychain | 2,875,042 | `StartsAgain`, `SchemaComplete`, `OnlyCurrentConnects`, `IdentityKept` |

*Bounds.* Two sessions are what every race of the relay needs: two connections
of one mailbox, or a dead one and its successor. Two messages to one mailbox are
what an order needs; the third has a payload over the limit.
Sessions are symmetric in `relay_safety`; no liveness is checked there. TTL 1 gives a row a time before and a time after its expiry. The
ratchet's message counts give each party a second turn of the ratchet with
messages of earlier chains still under way; a skip limit of 1 makes a gap of one
acceptable and of two refused. In `messaging` Alice's three messages are a gap and
what fills it, Bob's two a turn of the ratchet and a message after it. Three
cycles of background sync are one that times out, one that its late start falls
into, and one that begins with the status the late start has set; of its two
messages one may be notified late, in the next cycle or after it, while the other
is notified in time.
A body of two pieces in `http` arrives whole, in parts, or is cut at either, and
so does its header. In `conversations` a page of one row makes a
conversation of two messages longer than a page (the code's page has 100), and two
messages are one sent and one received meanwhile, or two received. Three targets (two devices
of the contact, one own) let one fail between two that do not. One import is what makes a contact; rows of unknown
senders and synced conversations are made without it. One send or provisioning at
a time is a bound too: the screen's `sending` flag goes when the screen is left,
so that the code can have two sends under way. Three starts in `lifecycle` are
an interrupted one, one that completes it, and another identity's; the keychain
fails at most once (`KeychainFails`).
`CHECK_DEADLOCK FALSE` is set for the ratchet and for messaging, where the message bounds end a behaviour, for background sync,
where the bound on cycles does, for the client, which stops after `stop()`, for
the HTTP client, whose abandoned request leaves nothing to do, and for the
conversations, where the bound on messages ends a behaviour. The two identities
of `lifecycle` are symmetric, and no liveness is checked there.

*Fairness.* Relay: tokio polls every task that is ready (`DrainSend`,
`LiveSend`), TCP delivers on a connection that stays up (`ClientRead`), time
passes (`Tick`) and the worker's interval fires (`Cleanup`). None for POSTs,
connects, crashes or errors. Messaging: the event loop goes on with an operation
that was begun, up to its POST, and with a frame that was taken; none for
beginning one, and none for a POST, which may stay open. HTTP client: an armed
timer fires, and the operating system ends the dial of dev mode; nothing is
assumed of the proxy or the relay. Conversations and lifecycle: none. Client: the event loop runs an armed timer and a
dial ends, in 30 s at the latest (weak fairness). Of the network it is assumed
that a step that is tried again and again succeeds at last (strong fairness of
`DialOk`, `UpgradeOk`, `Challenge`, `Authenticated`); without it no client could
promise to be connected again. Background sync: weak fairness of what the event
loop runs (setup, timers, the `finally` block) and of the handshake: a dial ends,
and on a connection that stays up the server goes on to authenticate. A
connection that breaks is not excluded.

## Findings

1. **The first messages of a conversation must not arrive together**
   (`messaging_overlap`). If the opening message and the next one are drained in
   one chunk, both handlers read the store before either has saved a session. The
   second derives one without the one-time pre-key and its message is lost. Later
   in a conversation the same overlap loses no message, but a key that was used
   is put aside for good (`KeysForgotten` fails).
2. **A background sync may never end** (`background_ends`). Only the bootstrap has
   a time limit. If the socket closes during the upgrade, or a close frame comes
   before the client is authenticated, no callback is called and the promise of
   the drain stays open: `isRunning` remains true, the `finally` block is not
   reached, and every later sync returns at once.
3. **The open conversation does not show what arrives in it**
   (`conversations_live`). `OrchestratorContext.tsx:128` says "If message belongs
   to active conversation, append". The handlers are made when the identity is
   set and see the active contact of that render, which is none; the effect
   depends on `identity` and `devMode` alone. A message received or sent is in the
   database, and on the screen when the conversation is opened again.

## Known limits

What the code does not do and the properties therefore do not claim. Each is
excluded by a named assumption, exemption or bound.

*Relay.* A session subscribes after it has written its backlog (`ws.rs:144`).
A POST that is dispatched between the fetch and the subscription finds no
listener and is queued, and this connection never looks at the table again: the
message waits for the next connection or for its expiry.
`tester-cli/src/main.rs:347` expects "Should be delivered live when Bob is
connected!". `HandedReaches` speaks only of what a session was handed.
With the default `DATABASE_URL`, `sqlite::memory:` (`config.rs:12`), a crash or
restart loses every row; what is said of crashes is said of a file.

*Opening message.* Only sequence number 0 carries the one-time pre-key id. If
another message arrives first, the responder derives the master secret without
DH4, saves that session, and opens neither that message nor the opening one. The
same happens when the first POST fails: `sendOutboundMessage` swallows the error,
the ratchet stays advanced, and the next message is the first to arrive.
`Orderly` excludes it.

*Earlier bundles.* The responder derives with its latest signed pre-key, and each
export of the own URI makes a new one, so that only the last exported URI works.
The runs export one bundle. An import replaces whatever session there is: two
users who scan each other's code do not understand each other. In the runs one
side imports.

*Repeated delivery.* A message that is delivered again after its key was used is
taken for the next one. The relay hands a message out once, except a live one to
two connections of one mailbox; the runs deliver it once.

*Stopping.* `stop()` finds no socket while the client dials, or while `start()`
waits for Tor, and `connect()` goes on on a closed database. A `create()` that ends
after a logout puts its orchestrator into the ref and connects. `hasty` records
that an orchestrator was left while it started or dialled, or that two identities
were entered at once; `OnlyCurrentConnects`, `StartsAgain` and `IdentityKept` do
not speak of such histories. `StartsAgain` excludes them because two starts at
once make two keys.

*Keychain.* If it cannot be read or written, the database gets a key that nobody
keeps, and a failed load shows the screen that makes a new identity; `saveIdentity`
answering false is ignored. `trouble` marks such histories. The file is assumed to
open only with its own key; the one driver there is takes `PRAGMA key` for an
unknown pragma and ignores it.

*Requests.* A request is abandoned, and its promise never settles, if the server
ends the connection without a byte (`TorHttpClient.ts:109`) or sends a complete
answer without a status line (`TorHttpClient.ts:101`). `Settles` excludes these
two, and `Request` has a state for them.

*Contacts.* The row made for an unknown sender has the identity key where the
mailbox hash belongs, so that a reply goes nowhere; the one made for a synced
conversation has no key, so that its sends miss. A message of a contact's second
device, or of the user's own, makes such a row next to the contact's.
An import over an existing contact forgets its linked devices.

*Copies of sent messages.* Whoever sends a payload with `isSyncMessage`
(`AppOrchestrator.ts:309`) has it stored as the user's own sent and read message, in
the conversation that it names and under the number that it brings; the sender is
not looked up among the own devices. In the runs any device may send one. Its number
is a fresh one there, and it names a mailbox of `Contact`.

*Late timers.* A background cycle that is over may leave two timers: that of the
bootstrap, for up to `bootstrapTimeoutMs`, and a drain timer that was armed by a
notification which ended too late. Neither does anything when it fires.
`NothingLeftBehind` says nothing of the first and exempts the second (`overrun`).

*Pages.* `getMessagesForContact` reads the oldest 100 rows, while the whole
conversation is marked as read; `ReadIsShown` excludes conversations longer than a
page.

*Tor.* After a bootstrap timeout the native start goes on, and may set the status to
`READY` after `stopTor` has set it to `STOPPED`; the next `startTor` then returns
without starting anything. `TorSuspended` is stated for histories without such a
timeout.

*Reconnecting.* `Recovers` excludes two states in which the client stays down: after a close
frame, which the code treats like `disconnect()`, and after a socket that closed
during the upgrade, for which nothing listens (`Stalled`).

## Proofs

The theorems hold for every value of the constants that satisfies the named
assumption of the module: any sets of messages, sessions, sockets, contacts or
identities, and any value of every bound. Each module has one inductive invariant, a
conjunction of named parts; a step lemma says that every action keeps it, and the
theorems follow from it. TLC has checked each of these invariants on the small
instances.

### RelayProofs

From `RelayAssumption` (the hash is injective and yields a valid address).

* `TypeCorrect`, `IsolationHolds`, `ZeroRetentionHolds`, `RowsLeaveHolds`.
  `ZeroRetention` is not inductive as it stands: a dispatch could hand out what is
  already in the table. `Untouched` says that a POST that was neither dispatched
  nor inserted has left no trace. The argument goes through `NextEffect`, which
  says of any step how the table, the history sets and what each session carries
  may change, so that the invariant is proved once from those effects rather than
  for each action. `Isolation` rests on `Bound`: an authenticated session's
  address is the hash of the key at its other end, and `active_peers` lists a
  session only under its own address. The step that matters is `AuthOk`, where a
  signature over this session's challenge can only be the client's own.
* `AtMostOnceHolds`, `SessionFifoHolds`, from `DeliveryInv`. Its parts are where a
  session may hold what (`Stages`), that rows are numbered apart (`RowNumbers`),
  that what was dispatched before a message is known of it (`PriorInv`), and that
  the order of dispatch is kept in the channel and between what is written and
  what is still held (`HeldInOrder`). `NextMoves` says of any step which message
  moves from where to where in a session.
* `ImplementsBlindDrop`: every step of the relay is a step of `BlindDrop` or a
  stutter under the mapping `Fate`/`Readers`. It needs `DropInv` (isolation,
  retention, `Stages`), from which `Apart`: nothing that is stored was read or is
  held, so that the arms of `Fate` exclude each other.
* `AccountedHolds`: a message leaves `outside` only for the states that
  `Accounted` lists, and in `BlindDrop` none goes back.

### RatchetProofs

From `RatchetAssumption` (two parties) and `NoneAssumption` (`None` is no session
and no chain).

* `RatchetTypeCorrect`, `ForwardSecrecyHolds`, with no restriction on the order of
  delivery, on bundles, or on which side imports. `ForwardSecrecy` alone says
  nothing about keys that a session may yet come to. `RatchetInv` adds, for each
  session: the receiving, the sending and the put-aside keys lie on chains with
  different roots, or on the receiving chain behind its head (`ChainsApart`); and
  a used key lies on a root that the session has passed, with none of its chains
  at or before it (`Gone`). Roots of one session only get longer, so it does not
  pass one twice; a session that replaces it begins with another X3DH output,
  since that contains a key pair numbered later (`Old`). The operators are taken
  one by one: `WithSendChainKeeps`, `NextSendKeeps`, `SkipKeeps`, `TurnKeeps`,
  `AdvanceKeeps`, `SkippedKeeps`, `AliceKeeps` and `BobKeeps` speak of one session
  and a set of used keys, and the proofs of the actions only put them together.
* `EveryDeliveryOpensHolds`, `SkippedAwaitedHolds`, under `Orderly` and `OneImport`:
  one party imports, at most once, and the other exports at most one bundle. Without
  either the code does lose messages (see "Known limits", *Opening message* and
  *Earlier bundles*). The number of messages, the skip limit, what is lost and the
  order of delivery after the opening message are arbitrary.
* That both ends come to the same key relates the two sessions, the messages sent and
  those opened. `Sends` says how a session numbers what it has sent: one root to each
  key pair, no number twice, none left out on the current chain. `Receives` says how
  far the other session is with them: on its receiving chain to `nr`, on a chain that
  it has not turned to nowhere, and of every older chain it has put aside the keys of
  all that is not opened. `Leads` says that the session that turned last has derived its
  receiving chain from the other's root, and its own root from that. The sessions are
  `Joined` if this holds with either of them in the lead; a message that turns the
  follower makes it the leader (`TurnLinks`), and the messages that were missing on
  the chain it leaves are exactly those up to `pn` (`Limit`).
* `JoinedSeals` and `JoinedDecrypts` are the two facts that the actions need: sealing
  keeps two sessions joined, and opening finds the right key, put aside or next, and
  keeps them joined. `AgreeInv` adds the time before: nobody has a session, or only
  the initiator has one and `Knocks`, its first message naming the one-time pre-key that
  its peer still has. `AnswerLinks` takes it from there: both sides of X3DH come to
  one root (`SameRoot`), and the answer leads.

### MessagingProofs

From `RatchetAssumption`, `NoneAssumption` and `MessagingAssumption`.

* `TasksHold`, `SealedOnceHolds`, `KeysForgottenHolds`, for any number of frames to
  a chunk, bundles, imports, messages and crashes, and any order of delivery.
* `Good` is what `RatchetInv` says of a stored session, said of one session and a
  set of used keys, so that it can be said of the stored session (`Stored`) and of
  the copy that an operation holds (`Copies`). A copy goes stale while another
  operation saves a newer session over it. What keeps it good is that its keys are
  still unused: the UI reads and seals only while no frame is handled (`Alone`), so
  its copy is the stored session, and handlers of other frames only open.
* `Keys(p)` are the keys that this argument may count as used: the sealed ones, and
  the opened ones only where no two handlers overlap. With two frames in a chunk a
  handler may hold, and save, an older copy that still has the key the other opened
  with, the overlap of the finding `messaging_overlap`. `KeysForgottenHolds` therefore needs `OneFrame`;
  `TasksHold` and `SealedOnceHolds` do not.
* `SealedOnceHolds` takes one more thing: two parties never seal with the same key.
  `SentBy` reads off a root which party sends on its chain: from the X3DH output in
  it for the first two chains of a session, from its last two DH outputs for the
  others. `OneSender` shows that no root is both parties'.
* `TasksHold` rests on `HeldOK` and `HeldOnce`: a message is in the mailbox, or with
  one operation, or done with.
* `DeliveredOpensHolds`, under `Orderly`, `OneImport` and `OneFrame`; with two frames in
  a chunk it is false (`messaging_overlap`). `DevicesAgree` says of what the devices
  have stored what `AgreeInv` says, with all that was sealed in place of what was sent,
  since a sealed message may never reach the relay. It holds across the awaits by what
  it adds of the operations: only the initiator is importing (`UiAgrees`), a handler
  that answers has the opening message, and a copy to decrypt with is the stored session
  (`FrameAgrees`).
* A crash between the two statements of `initiateBobSession` leaves a responder without a
  session and without the one-time pre-key. Nothing opens then, and nothing fails
  either: `Unanswered` says that the opening message went with the handler, so that under
  `Orderly` no other message is taken. A copy that answers and is not saved yet must
  stay joined while the initiator goes on sealing (`SealAgrees`).
* `NothingLostHolds`, in every order of delivery and with any number of frames to a
  chunk: while a process lives, what it opened is recorded or its handler is about to
  save it, and what its user sent is recorded or the send goes on. It is the safety
  part of `OpenedIsRecorded`; TLC adds that the handler gets there. It needs `Known`,
  that a handler's sender has a row, since `saveMessage` has a foreign key.

### WsClientProofs, BackgroundSyncProofs

* `WsTypeCorrect`, `NoSocketLeakedHolds`, `TimerMeansReconnectingHolds`,
  `BufferIsCurrentHolds`, for any number of runs of `connect()` and calls of
  `stop()`. The strengthening is about what may overlap: a run of `connect()`
  dials only while no socket is open and no other dials (`DialsAlone`), an open
  socket excludes waiting for the timer (`OpenSockets`), and before `start()` goes
  on there is nothing (`NotStarted`).
* `SyncTypeCorrect`, `NothingLeftBehindHolds`, `NoMailLostHolds`,
  `TorSuspendedHolds`, for any number of cycles. `ClientInv` is taken over with
  the step lemmas of `WsClientProofs`, event by event. `PhaseInv` says what a cycle
  holds in each phase, `TorInv` that every late start belongs to a cycle that
  timed out. `DrainInv` says that a cycle's callbacks have neither armed a timer nor
  begun a notification before its client is there (`Fresh`), which is why nobody
  dials any more when a drain timer or the callback of a notification settles or
  goes on, and that a drain timer of another cycle than the draining one was armed
  late.

### HttpClientProofs

From `HttpAssumption` (a body has at least one piece).

* `NothingLeftHolds`, and `ImplementsRequest`: every step is a step of `Request` or
  a stutter. `PhaseInv` relates the phase to socket and timers, an abandoned
  request included; `AnswerInv` says that a result "ok" rests on an answer of a
  relay that took the message.

### ConversationsProofs

From `ConversationsAssumption`.

* `ConversationsTypeCorrect`, `RecordedTrulyHolds`, `ReadIsShownHolds`. `CopiesInv`
  accounts for each copy owed while the loop over the devices goes on: taken,
  missed, still to be posted, or under way; and `out.live` is the answer of the
  contact's devices and of no own one. `NumbersInv` keeps the row of a send apart from those
  that arrive meanwhile, `OpenInv` and `RequestInv` tie the view and the POST to
  the send.

### LifecycleProofs

From `LifecycleAssumption`.

* `LifecycleTypeCorrect`, `SchemaCompleteHolds`, `StartsAgainHolds`,
  `OnlyCurrentConnectsHolds`, `IdentityKeptHolds`, for any number of identities,
  starts and crashes. `IdentityKept` says both that the identity which is shown has
  been saved and that the saved one is not replaced. `Plan` is what makes the migrations repeatable: whatever is
  missing is among the statements to come, the row of a version comes after its
  tables, and what must not be made twice is not among what there is. `Recorded`
  is the converse for a file: a recorded version is complete. `CurrentInv` and
  `ProviderInv` say that without haste one orchestrator is at work, that of the identity in
  provider and keychain; `KeyInv` that a database has the kept key.

### Only model-checked

* All liveness (`RowsLeave`, `HandedReaches`, `OpenedIsRecorded`, `Recovers`,
  `CycleEndsIfAnswered`, `Settles`): fairness and `ENABLED` are beyond the proof
  system.

## Not modelled

* Cryptographic primitives, key derivation from a mnemonic, encodings (contact
  URI, QR code, base64, JSON), the layout of frames and HTTP messages, SQL other
  than by its effect, logging, error texts: pure functions, or data that no
  property tells apart.
* Repository operations that nothing calls: deleting and renaming, status
  updates, clearing a conversation.
* The summaries of `refreshConversations`, which are derived from the tables, and
  Tor's progress in the provider.
* The count and the status that background sync returns: it counts a message after
  its notification, so that one which is stored may be missing when the drain timer
  was faster.
* The foreground application as a second user of the Tor manager.
* Notifications and the battery bridge: calls into native code without a state of
  their own. Rendering. The tester CLI, which is a scripted test of the relay.

`PROJECT.json` gives the reason for each component.

## Plan

Done: every module of the first plan, `HttpClient`, `Conversations` and
`Lifecycle`.

Proved: both refinements, and every safety invariant and action property that a
passing run checks, those about decryption under the restrictions of their runs.

Next:

1. `BackgroundSync` next to a foreground application: Tor stopped under it, and a
   message that two connections of one mailbox both receive.
2. What exactly is lost when a contact is imported again or both sides import, which
   `OneImport` excludes: the sessions are then joined again from the next opening
   message, which is a statement about generations of sessions.
