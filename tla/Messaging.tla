----------------------------- MODULE Messaging -----------------------------
(***************************************************************************)
(* AppOrchestrator on two devices: importing a contact, sending and        *)
(* receiving, cut at the awaits between their database and network calls,  *)
(* over the sessions, pre-keys and keys of Ratchet.  Between two awaits    *)
(* the operation works on the copy of the session that it read.            *)
(*                                                                         *)
(* The database driver is synchronous: an await of it only yields to       *)
(* operations that are in the same position, and the event loop takes the  *)
(* next event when none is left.  Operations overlap in two ways: a POST   *)
(* is under way, or several frames were in one chunk of the socket, whose  *)
(* handlers are not awaited.  The UI runs one operation at a time, as the  *)
(* chat screen does for sends.  A contact has one device and the user has  *)
(* no linked ones: each loop over devices has one turn.                    *)
(***************************************************************************)
EXTENDS Ratchet

CONSTANTS
    Frame,         \* as many as the frames that a chunk may hold
    Introduced,    \* parties that may have a row of their peer from the start
    MaxCrashes     \* bound: MaxCrashes[p] ends of p's process

ASSUME MessagingAssumption ==
    /\ "ui" \notin Frame
    /\ Introduced \subseteq Party
    /\ MaxCrashes \in [Party -> Nat]

VARIABLES
    task,       \* task[p][i]: what the UI, or the handler of frame i, is doing
    contacts,   \* contacts[p]: the addresses in p's rows for its peer
    sealed,     \* history: every message that was encrypted
    recorded,   \* recorded[p]: incoming messages in p's messages table
    outgoing,   \* outgoing[p]: the numbers of the outgoing ones
    crashes

device    == <<task, contacts, recorded, outgoing>>
messaging == <<vars, device, sealed, crashes>>

Slot == {"ui"} \cup Frame

(***************************************************************************)
(* recipient_pubkey_hash of a contact: "hash" after an import; "identity", *)
(* the encryption key in its place, in the row made for an unknown sender. *)
(* Only the first is the address of a mailbox that anyone reads.           *)
(***************************************************************************)
Addresses == {"hash", "identity"}

Idle == [at |-> "idle", copy |-> None, msg |-> None, n |-> 0, to |-> ""]

Running(p, i, at) == task[p][i].at = at
Becomes(p, i, t)  == task' = [task EXCEPT ![p][i] = t]

\* Nothing is under way but a POST: the event loop takes the next event.
Quiet(p) == \A i \in Slot : task[p][i].at \in {"idle", "post"}

(***************************************************************************)
(* An earlier importContact that ended between its two statements, or      *)
(* saveContact by itself, leaves a row without a session.                  *)
(***************************************************************************)
MessagingInit ==
    /\ Init
    /\ task = [p \in Party |-> [i \in Slot |-> Idle]]
    /\ \E P \in SUBSET Introduced :
          contacts = [p \in Party |-> IF p \in P THEN {"hash"} ELSE {}]
    /\ sealed   = {}
    /\ recorded = [p \in Party |-> {}]
    /\ outgoing = [p \in Party |-> {}]
    /\ crashes  = [p \in Party |-> 0]

Export(p) ==
    /\ Quiet(p)
    /\ GeneratePreKeyBundle(p)
    /\ UNCHANGED <<device, sealed, crashes>>

-----------------------------------------------------------------------------
(* ContactExchange.importContact *)

\* The contact's row is saved ...
ImportContact(p) ==
    /\ Quiet(p) /\ Running(p, "ui", "idle")
    /\ imports[p] < MaxImports[p]
    /\ \E bundle \in offered[Peer(p)] :
          Becomes(p, "ui", [Idle EXCEPT !.at = "import", !.copy = bundle])
    /\ contacts' = [contacts EXCEPT ![p] = @ \cup {"hash"}]
    /\ imports' = [imports EXCEPT ![p] = @ + 1]
    /\ UNCHANGED <<sess, stores, fresh, sends, net, opened, failed, refused>>
    /\ UNCHANGED <<sealed, recorded, outgoing, crashes>>

\* ... and then its session.
ImportSession(p) ==
    /\ Running(p, "ui", "import")
    /\ sess' = [sess EXCEPT ![p] = AliceSession(p, NewKey(p), task[p]["ui"].copy)]
    /\ fresh' = [fresh EXCEPT ![p] = @ + 1]
    /\ Becomes(p, "ui", Idle)
    /\ UNCHANGED <<stores, counts, net, opened, failed, refused>>
    /\ UNCHANGED <<contacts, sealed, recorded, outgoing, crashes>>

-----------------------------------------------------------------------------
(* sendOutboundMessage *)

\* The contact is looked up and encrypt reads the session.
SendBegin(p) ==
    /\ Quiet(p) /\ Running(p, "ui", "idle")
    /\ sends[p] < MaxSends[p]
    /\ \E to \in contacts[p] :
          Becomes(p, "ui", [Idle EXCEPT !.at = "seal", !.copy = sess[p],
                                        !.n = sends[p], !.to = to])
    /\ sends' = [sends EXCEPT ![p] = @ + 1]
    /\ UNCHANGED <<sess, stores, fresh, imports, net, opened, failed, refused>>
    /\ UNCHANGED <<contacts, sealed, recorded, outgoing, crashes>>

\* Without a session encrypt throws, which the loop over devices swallows.
SendNoSession(p) ==
    /\ Running(p, "ui", "seal")
    /\ task[p]["ui"].copy = None
    /\ Becomes(p, "ui", [task[p]["ui"] EXCEPT !.at = "record"])
    /\ UNCHANGED <<vars, contacts, sealed, recorded, outgoing, crashes>>

\* Fault variant: the advanced session is not written back.
SaveSealedNot(p, s) == UNCHANGED sess

SaveSealed(p, s) == sess' = [sess EXCEPT ![p] = NextSend(s)]

\* encrypt saves the session that it has advanced and returns the envelope.
SendSeal(p) ==
    LET s == WithSendChain(task[p]["ui"].copy)
        m == Sealed(p, task[p]["ui"].n, s)
    IN
    /\ Running(p, "ui", "seal")
    /\ task[p]["ui"].copy # None
    /\ SaveSealed(p, s)
    /\ sealed' = sealed \cup {m}
    /\ Becomes(p, "ui", [task[p]["ui"] EXCEPT !.at = "post", !.copy = None, !.msg = m])
    /\ UNCHANGED <<stores, fresh, counts, net, opened, failed, refused>>
    /\ UNCHANGED <<contacts, recorded, outgoing, crashes>>

(***************************************************************************)
(* The POST.  The relay takes the message, whether or not its answer comes *)
(* back, or never sees it.  An error is swallowed like any other.          *)
(***************************************************************************)
SendPost(p) ==
    LET m == task[p]["ui"].msg
        reaches == task[p]["ui"].to = "hash"
    IN
    /\ Quiet(p) /\ Running(p, "ui", "post")
    /\ net' \in {net} \cup (IF reaches THEN {net \cup {m}} ELSE {})
    /\ Becomes(p, "ui", [task[p]["ui"] EXCEPT !.at = "record"])
    /\ UNCHANGED <<sess, stores, fresh, counts, opened, failed, refused>>
    /\ UNCHANGED <<contacts, sealed, recorded, outgoing, crashes>>

SendRecord(p) ==
    /\ Running(p, "ui", "record")
    /\ outgoing' = [outgoing EXCEPT ![p] = @ \cup {task[p]["ui"].n}]
    /\ Becomes(p, "ui", Idle)
    /\ UNCHANGED <<vars, contacts, sealed, recorded, crashes>>

-----------------------------------------------------------------------------
(* handleIncomingMessage *)

\* The frames of a chunk are handed over before any handler goes on.
InChunk(p) == \A i \in Slot : task[p][i].at \in {"idle", "post", "read"}

\* Under Orderly, the message that opens the session comes first: before this
\* one, or before it in the chunk.
Arrives(p, m) ==
    \/ Deliverable(p, m)
    \/ m.from = Peer(p) /\ \E i \in Frame : Running(p, i, "read") /\ task[p][i].msg.seq = 0

\* Fault variant: the relay keeps what it hands out.
ReceiveBeginKept(p, i, m) ==
    /\ InChunk(p) /\ Running(p, i, "idle")
    /\ Arrives(p, m)
    /\ contacts' = [contacts EXCEPT ![p] = IF @ = {} THEN {"identity"} ELSE @]
    /\ Becomes(p, i, [Idle EXCEPT !.at = "read", !.msg = m])
    /\ UNCHANGED <<vars, sealed, recorded, outgoing, crashes>>

\* Fault variant: no row is made for an unknown sender.
ReceiveBeginUnsaved(p, i, m) ==
    /\ InChunk(p) /\ Running(p, i, "idle")
    /\ Arrives(p, m)
    /\ net' = net \ {m}
    /\ Becomes(p, i, [Idle EXCEPT !.at = "read", !.msg = m])
    /\ UNCHANGED <<sess, stores, fresh, counts, opened, failed, refused>>
    /\ UNCHANGED <<contacts, sealed, recorded, outgoing, crashes>>

(***************************************************************************)
(* A message arrives and its sender is looked up by identity key; a row is *)
(* made for one that is unknown.                                           *)
(***************************************************************************)
ReceiveBegin(p, i, m) ==
    /\ InChunk(p) /\ Running(p, i, "idle")
    /\ Arrives(p, m)
    /\ net' = net \ {m}
    /\ contacts' = [contacts EXCEPT ![p] = IF @ = {} THEN {"identity"} ELSE @]
    /\ Becomes(p, i, [Idle EXCEPT !.at = "read", !.msg = m])
    /\ UNCHANGED <<sess, stores, fresh, counts, opened, failed, refused>>
    /\ UNCHANGED <<sealed, recorded, outgoing, crashes>>

\* decrypt reads the session.
ReceiveRead(p, i) ==
    /\ Running(p, i, "read")
    /\ Becomes(p, i, [task[p][i] EXCEPT
                        !.copy = sess[p],
                        !.at = IF sess[p] = None THEN "answer" ELSE "decrypt"])
    /\ UNCHANGED <<vars, contacts, sealed, recorded, outgoing, crashes>>

\* initiateBobSession: the one-time pre-key is removed from the store ...
ReceiveTakeKey(p, i) ==
    LET m == task[p][i].msg IN
    /\ Running(p, i, "answer")
    /\ opk' = [opk EXCEPT ![p] = @ \ {m.otk}]
    /\ fresh' = [fresh EXCEPT ![p] = @ + 1]
    /\ Becomes(p, i, [task[p][i] EXCEPT !.copy = BobSession(p, m), !.at = "answered"])
    /\ UNCHANGED <<sess, spk, offered, counts, net, opened, failed, refused>>
    /\ UNCHANGED <<contacts, sealed, recorded, outgoing, crashes>>

\* ... and then the session is saved.
ReceiveAnswer(p, i) ==
    /\ Running(p, i, "answered")
    /\ sess' = [sess EXCEPT ![p] = task[p][i].copy]
    /\ Becomes(p, i, [task[p][i] EXCEPT !.at = "decrypt"])
    /\ UNCHANGED <<stores, fresh, counts, net, opened, failed, refused>>
    /\ UNCHANGED <<contacts, sealed, recorded, outgoing, crashes>>

\* The rest of decrypt, on the copy; an error ends the handler.
ReceiveDecrypt(p, i) ==
    LET m == task[p][i].msg
        s == task[p][i].copy
    IN
    /\ Running(p, i, "decrypt")
    /\ \/ DecryptSkipped(p, s, m)
       \/ DecryptRefused(s, m, NewKey(p)) /\ UNCHANGED sess
       \/ DecryptNext(p, s, m, NewKey(p))
    /\ fresh' = [fresh EXCEPT ![p] = IF Renews(s, m) THEN @ + 1 ELSE @]
    /\ Becomes(p, i, IF m \in opened' THEN [Idle EXCEPT !.at = "keep", !.msg = m] ELSE Idle)
    /\ UNCHANGED <<stores, counts, net, contacts, sealed, recorded, outgoing, crashes>>

\* saveMessage, whose foreign key needs a row of the contact.
ReceiveRecord(p, i) ==
    /\ Running(p, i, "keep")
    /\ recorded' = [recorded EXCEPT ![p] =
                      IF contacts[p] = {} THEN @ ELSE @ \cup {task[p][i].msg}]
    /\ Becomes(p, i, Idle)
    /\ UNCHANGED <<vars, contacts, sealed, outgoing, crashes>>

-----------------------------------------------------------------------------
\* The process ends, or stop() closes the database: what was under way is
\* gone, what was saved is not.
Crash(p) ==
    /\ crashes[p] < MaxCrashes[p]
    /\ crashes' = [crashes EXCEPT ![p] = @ + 1]
    /\ task' = [task EXCEPT ![p] = [i \in Slot |-> Idle]]
    /\ UNCHANGED <<vars, contacts, sealed, recorded, outgoing>>

LocalStep(p) ==
    ImportSession(p) \/ SendNoSession(p) \/ SendSeal(p) \/ SendRecord(p)

UiStep(p) == LocalStep(p) \/ SendPost(p)

FrameStep(p, i) ==
    \/ ReceiveRead(p, i) \/ ReceiveTakeKey(p, i) \/ ReceiveAnswer(p, i)
    \/ ReceiveDecrypt(p, i) \/ ReceiveRecord(p, i)

MessagingNext ==
    \E p \in Party :
        \/ Export(p) \/ ImportContact(p) \/ SendBegin(p) \/ Crash(p)
        \/ UiStep(p)
        \/ \E i \in Frame : FrameStep(p, i) \/ \E m \in net : ReceiveBegin(p, i, m)

MessagingSpec == MessagingInit /\ [][MessagingNext]_messaging

\* The event loop goes on with what is under way on the device; a POST may
\* stay pending for ever.
MessagingFairSpec ==
    /\ MessagingSpec
    /\ \A p \in Party : WF_messaging(LocalStep(p)) /\ \A i \in Frame : WF_messaging(FrameStep(p, i))

-----------------------------------------------------------------------------
(* Properties *)

(***************************************************************************)
(* An operation is at one of its awaits with what it needs there, and what *)
(* it holds is its own: a message being sent has not been received, one    *)
(* being received is no longer in the mailbox.                             *)
(***************************************************************************)
TasksOK ==
    /\ contacts \in [Party -> SUBSET Addresses]
    /\ \A p \in Party, i \in Slot :
          LET t == task[p][i] IN
          /\ t.at = "post" => t.msg.from = p /\ t.msg \in sealed \ Sent
          /\ t.at \in {"read", "answer", "answered", "decrypt"} =>
                t.msg.from = Peer(p) /\ t.msg \in sealed \ Sent
          /\ t.at \in {"answered", "decrypt"} => t.copy # None
          /\ t.at = "keep" => t.msg \in opened \ recorded[p]

(***************************************************************************)
(* No two messages are ever encrypted with one key, whatever was lost,     *)
(* failed or crashed between sealing and sending.                          *)
(***************************************************************************)
SealedOnce == \A m1, m2 \in sealed : m1.key = m2.key => m1 = m2

(***************************************************************************)
(* Whatever is delivered opens (CryptoEngine.test.ts:82, "supports         *)
(* multiple sequential messages in the same direction").                   *)
(***************************************************************************)
DeliveredOpens == failed = {}

(***************************************************************************)
(* The key of a message that was opened cannot be derived from what either *)
(* device has stored, nor from the copies its operations hold.             *)
(***************************************************************************)
KeysForgotten ==
    \A m \in opened, p \in Party :
        /\ sess[p] # None => ~Derives(sess[p], m.key)
        /\ \A i \in Slot :
              task[p][i].at \in {"seal", "answered", "decrypt"} /\ task[p][i].copy # None
                  => ~Derives(task[p][i].copy, m.key)

(***************************************************************************)
(* A message that was opened, whose key is gone, is recorded, from known   *)
(* and unknown senders, unless the process ended in between.               *)
(***************************************************************************)
OpenedIsRecorded ==
    \A p \in Party :
        (\E i \in Frame : Running(p, i, "keep")) ~>
            (crashes[p] > 0 \/ \A m \in opened : m.from = p \/ m \in recorded[p])
=============================================================================
