--------------------------- MODULE Conversations ---------------------------
(***************************************************************************)
(* One device: its orchestrator, which sends to every device of a contact  *)
(* and to the user's own others, the rows of its database, and what the    *)
(* provider shows of them.  A POST is a Request, which HttpClient          *)
(* implements; messages arrive during it and the user goes on.             *)
(*                                                                         *)
(* The database is synchronous, so whatever runs between two events runs   *)
(* at once: a received message is stored and shown in one step.  Whether a *)
(* message can be decrypted is left open here.  A row of messages is its   *)
(* number; which of the rows have the lowest timestamps is left open too.  *)
(***************************************************************************)
EXTENDS Request, Naturals, FiniteSets

CONSTANTS
    Contact,        \* mailbox hashes of the contacts
    Device,         \* identity keys of other devices, the user's own included
    OwnDevice,
    MailboxOf,      \* MailboxOf[d]: the hash of d's signing key
    None,
    Limit,          \* how many rows selectConversation reads
    MaxMessages,    \* bound on the rows of messages
    MaxImports      \* bound on the imports

ASSUME ConversationsAssumption ==
    /\ OwnDevice \subseteq Device
    /\ \A c \in Contact : \E d \in Device \ OwnDevice : MailboxOf[d] = c
    /\ \A d1, d2 \in Device : MailboxOf[d1] = MailboxOf[d2] => d1 = d2
    /\ Device \cap {MailboxOf[d] : d \in Device} = {}
    /\ None \notin Device \cup Contact
    /\ Limit \in Nat \ {0}
    /\ MaxMessages \in Nat
    /\ MaxImports \in Nat

VARIABLES
    contacts,    \* the table contacts: a row or NoRow for each possible key
    own,         \* the table own_linked_devices
    sessions,    \* the devices with which there is a session
    messages,    \* the table messages
    numbers,     \* how many messages have been numbered
    imports,
    out,         \* the send, or the provisioning, that is under way
    fate,        \* history: what became of the copies of the message under way
    active,      \* the conversation that is open, or None
    view         \* the messages it shows

tables  == <<contacts, own, sessions, messages>>
shown   == <<active, view>>
device  == <<tables, numbers, imports, out, fate, shown>>

(***************************************************************************)
(* recipient_pubkey_hash is a contact's hash, or the identity key of an    *)
(* unknown sender, which stands in its place.                              *)
(***************************************************************************)
Row == Contact \cup Device

PrimaryOf(c) == CHOOSE d \in Device : MailboxOf[d] = c

\* A device to send to: where, and whose session encrypts.
Target == [box : Row \cup {MailboxOf[d] : d \in Device}, key : Device \cup {None}]

TargetOf(d) == [box |-> MailboxOf[d], key |-> d]

NoFate == [owed |-> {}, taken |-> {}, missed |-> {}, live |-> {}]

NoRow == [key |-> None, devices |-> {}, exists |-> FALSE]

Known(r) == contacts[r].exists

NewRow(key) == [key |-> key, devices |-> {}, exists |-> TRUE]

\* mapRowToContact: without linked devices the contact is its own.
DevicesOf(r) ==
    IF contacts[r].devices = {} THEN {[box |-> r, key |-> contacts[r].key]}
    ELSE contacts[r].devices

\* getContactByIdentityKey; of two such rows the database may give either.
RowsOf(d) == {r \in Row : Known(r) /\ contacts[r].key = d}

NoSend == [at |-> "none", id |-> 0, to |-> None, todo |-> {},
           target |-> None, live |-> FALSE]

ConversationsInit ==
    /\ RequestInit
    /\ contacts = [r \in Row |-> NoRow]
    /\ own = {} /\ sessions = {} /\ messages = {}
    /\ numbers = 0 /\ imports = 0
    /\ out = NoSend
    /\ fate = NoFate
    /\ active = None /\ view = {}

\* Events are taken when the code that runs has come to a POST, or has ended.
Calm == out = NoSend \/ state \in {"pending", "abandoned"}

-----------------------------------------------------------------------------
(* What the provider shows *)

InConversation(r) == {m \in messages : m.conv = r}

\* The rows with the lowest timestamps, up to Limit of them.
Page(r) ==
    LET all == {m.id : m \in InConversation(r)} IN
    {p \in SUBSET all :
        Cardinality(p) = IF Cardinality(all) < Limit THEN Cardinality(all) ELSE Limit}

\* Fault variant: the update has no WHERE.
MarkEveryMessageAsRead(r) ==
    messages' = {[m EXCEPT !.read = TRUE] : m \in messages}

MarkMessagesAsRead(r) ==
    messages' = {[m EXCEPT !.read = @ \/ m.conv = r] : m \in messages}

\* selectConversation
Show(r) ==
    /\ active' = r
    /\ view' \in Page(r)
    /\ MarkMessagesAsRead(r)

Select(r) ==
    /\ Calm /\ Known(r)
    /\ Show(r)
    /\ UNCHANGED <<contacts, own, sessions, numbers, imports, out, fate, request>>

Back ==
    /\ Calm /\ active # None
    /\ active' = None /\ view' = {}
    /\ UNCHANGED <<tables, numbers, imports, out, fate, request>>

(***************************************************************************)
(* onMessageReceived and onMessageSent.  They were made when the identity  *)
(* was set, and see the active contact of that time, which was null: no    *)
(* message is appended to the view.                                        *)
(***************************************************************************)
Notified == UNCHANGED shown

-----------------------------------------------------------------------------
(* Contacts and devices *)

\* ScannerScreen: the row is written over and the session made anew, and the
\* conversation is opened.
ImportContact(c) ==
    /\ Calm /\ imports < MaxImports
    /\ imports' = imports + 1
    /\ contacts' = [contacts EXCEPT ![c] = NewRow(PrimaryOf(c))]
    /\ sessions' = sessions \cup {PrimaryOf(c)}
    /\ Show(c)
    /\ UNCHANGED <<own, numbers, out, fate, request>>

\* addLinkedDevice, with the number of another device or a number of its own,
\* for a device whose bundle was imported or was not.
AddLinkedDevice(c, d) ==
    /\ Calm /\ Known(c) /\ d \notin {t.key : t \in DevicesOf(c)}
    /\ \E same \in {{}} \cup {{t} : t \in DevicesOf(c)} :
           contacts' = [contacts EXCEPT ![c].devices = (DevicesOf(c) \ same) \cup {TargetOf(d)}]
    /\ sessions' \in {sessions, sessions \cup {d}}
    /\ UNCHANGED <<own, messages, numbers, imports, out, fate, shown, request>>

\* DeviceLinkManager.provisionSlaveDevice ...
Provision(d) ==
    /\ out = NoSend /\ d \notin own
    /\ out' = [NoSend EXCEPT !.at = "link", !.target = d]
    /\ Ask
    /\ UNCHANGED <<tables, numbers, imports, fate, shown>>

\* ... returns the device's record once the relay has taken the payload; whoever
\* called it saves the record, and may make a session.
Provisioned ==
    /\ out.at = "link" /\ state \in Returned
    /\ own' = IF state = "ok" THEN own \cup {out.target} ELSE own
    /\ sessions' \in {sessions} \cup
                     (IF state = "ok" THEN {sessions \cup {out.target}} ELSE {})
    /\ out' = NoSend
    /\ Return
    /\ UNCHANGED <<contacts, messages, numbers, imports, fate, shown>>

-----------------------------------------------------------------------------
(* sendOutboundMessage *)

OwnTargets == {TargetOf(d) : d \in own}

SendBegin ==
    /\ out = NoSend
    /\ active # None
    /\ numbers < MaxMessages
    /\ numbers' = numbers + 1
    /\ out' = [NoSend EXCEPT !.at = "contact", !.id = numbers', !.to = active,
                             !.todo = DevicesOf(active)]
    /\ fate' = [NoFate EXCEPT !.owed = DevicesOf(active)]
    /\ UNCHANGED <<tables, imports, shown, request>>

Looping == out.at \in {"contact", "self"} /\ state = "idle"

\* encrypt throws without a session; the loop goes on with the next device.
SendNoSession(t) ==
    /\ Looping /\ t \in out.todo
    /\ t.key \notin sessions
    /\ out' = [out EXCEPT !.todo = @ \ {t}]
    /\ fate' = [fate EXCEPT !.missed = @ \cup {t}]
    /\ UNCHANGED <<tables, numbers, imports, shown, request>>

SendPost(t) ==
    /\ Looping /\ t \in out.todo
    /\ t.key \in sessions
    /\ out' = [out EXCEPT !.todo = @ \ {t}, !.target = t]
    /\ Ask
    /\ UNCHANGED <<tables, numbers, imports, fate, shown>>

\* Fault variant: delivered_live of the last answer is what counts.
AfterPostLast(delivered) ==
    [out EXCEPT !.target = None,
                !.live = IF out.at = "contact" THEN delivered ELSE @]

AfterPost(delivered) ==
    [out EXCEPT !.target = None, !.live = @ \/ (out.at = "contact" /\ delivered)]

(***************************************************************************)
(* The POST has ended.  delivered is the answer's delivered_live.          *)
(***************************************************************************)
SendPosted(delivered) ==
    /\ out.at \in {"contact", "self"} /\ state \in Returned
    /\ delivered => state = "ok"
    /\ out' = AfterPost(delivered)
    /\ fate' = [fate EXCEPT
          !.taken  = IF reached THEN @ \cup {out.target} ELSE @,
          !.missed = IF state = "failed" THEN @ \cup {out.target} ELSE @,
          !.live   = IF delivered THEN @ \cup {<<out.at, out.target>>} ELSE @]
    /\ Return
    /\ UNCHANGED <<tables, numbers, imports, shown>>

\* The user's own devices are read when the contact's are done.
SendSelf ==
    /\ Looping /\ out.at = "contact" /\ out.todo = {}
    /\ out' = [out EXCEPT !.at = "self", !.todo = OwnTargets]
    /\ fate' = [fate EXCEPT !.owed = @ \cup OwnTargets]
    /\ UNCHANGED <<tables, numbers, imports, shown, request>>

\* Stored, then shown.
SendRecord ==
    /\ Looping /\ out.at = "self" /\ out.todo = {}
    /\ messages' = messages \cup
          {[id |-> out.id, conv |-> out.to, outgoing |-> TRUE, read |-> TRUE,
            status |-> IF out.live THEN "delivered" ELSE "sent"]}
    /\ Notified
    /\ out' = NoSend /\ fate' = NoFate
    /\ UNCHANGED <<contacts, own, sessions, numbers, imports, request>>

-----------------------------------------------------------------------------
(* handleIncomingMessage *)

\* The row of the sender, one made for a sender without a row included.
SenderRow(d, r) == IF RowsOf(d) = {} THEN r = d ELSE r \in RowsOf(d)

\* Fault variant: the row is made and not saved.
WithSenderUnsaved(d) == contacts

WithSender(d) ==
    IF RowsOf(d) = {} THEN [contacts EXCEPT ![d] = NewRow(d)] ELSE contacts

\* A message that is not marked as a copy for the user's own devices.
Receive(d, r) ==
    /\ Calm /\ SenderRow(d, r)
    /\ numbers < MaxMessages
    /\ numbers' = numbers + 1
    /\ contacts' = WithSender(d)
    /\ sessions' = sessions \cup {d}
    /\ messages' = messages \cup
          {[id |-> numbers', conv |-> r, outgoing |-> FALSE, read |-> FALSE,
            status |-> "delivered"]}
    /\ Notified
    /\ UNCHANGED <<own, imports, out, fate, request>>

\* One that does not open: the row stays, nothing is stored and nothing shown.
ReceiveFails(d) ==
    /\ Calm
    /\ contacts' = WithSender(d)
    /\ contacts' # contacts
    /\ sessions' \in {sessions, sessions \cup {d}}
    /\ UNCHANGED <<own, messages, numbers, imports, out, fate, shown, request>>

\* A payload that says it is the copy of what the user has sent to c.  Nobody
\* checks that its sender is one of the user's devices.  The sender gets a row
\* like any other, and c one without an identity key.
ReceiveSync(d, c) ==
    /\ Calm
    /\ numbers < MaxMessages
    /\ numbers' = numbers + 1
    /\ contacts' = [WithSender(d) EXCEPT ![c] = IF Known(c) THEN @ ELSE NewRow(None)]
    /\ sessions' = sessions \cup {d}
    /\ messages' = messages \cup
          {[id |-> numbers', conv |-> c, outgoing |-> TRUE, read |-> TRUE,
            status |-> "delivered"]}
    /\ Notified
    /\ UNCHANGED <<own, imports, out, fate, request>>

-----------------------------------------------------------------------------
SendStep ==
    \/ \E t \in out.todo : SendNoSession(t) \/ SendPost(t)
    \/ \E delivered \in BOOLEAN : SendPosted(delivered)
    \/ SendSelf \/ SendRecord

RequestMoves == RequestStep /\ UNCHANGED device

ConversationsNext ==
    \/ \E r \in Row : Select(r)
    \/ Back
    \/ \E c \in Contact : ImportContact(c)
    \/ \E c \in Contact, d \in Device \ OwnDevice : AddLinkedDevice(c, d)
    \/ \E d \in OwnDevice : Provision(d)
    \/ Provisioned
    \/ SendBegin \/ SendStep
    \/ \E d \in Device : ReceiveFails(d) \/ \E r \in Row : Receive(d, r)
    \/ \E d \in Device, c \in Contact : ReceiveSync(d, c)
    \/ RequestMoves

conversation == <<device, request>>

ConversationsSpec == ConversationsInit /\ [][ConversationsNext]_conversation

-----------------------------------------------------------------------------
(* Properties *)

\* The tables and the send are of their types, and a message has one row.
ConversationsTypeOK ==
    /\ state \in {"idle", "pending", "ok", "failed", "abandoned"}
    /\ reached \in BOOLEAN
    /\ contacts \in [Row -> [key : Device \cup {None}, devices : SUBSET Target,
                             exists : BOOLEAN]]
    /\ own \subseteq OwnDevice
    /\ messages \subseteq [id : 1..MaxMessages, conv : Row, outgoing : BOOLEAN,
                           read : BOOLEAN, status : {"sent", "delivered"}]
    /\ \A m1, m2 \in messages : m1.id = m2.id => m1 = m2
    /\ \A m \in messages : Known(m.conv)
    /\ out.at \in {"none", "link", "contact", "self"}
    /\ out.at \in {"contact", "self"} /\ state # "idle" => out.target \in Target

(***************************************************************************)
(* What is recorded of a send is true.  The relay has the copy of every    *)
(* device of the contact and of the user, but for those whose encryption   *)
(* or request failed: one that failed keeps none of the others back        *)
(* (AppOrchestrator.ts:197).  The status is "delivered" if and only if a   *)
(* device of the contact was handed its copy at once, whatever became of   *)
(* the others and of the user's own.                                       *)
(***************************************************************************)
RecordedTruly ==
    out.at = "self" /\ Looping /\ out.todo = {} =>
        /\ fate.owed \subseteq fate.taken \cup fate.missed
        /\ out.live <=> \E t \in fate.owed : <<"contact", t>> \in fate.live

(***************************************************************************)
(* A message becomes read only when it is on the screen, unless its        *)
(* conversation is longer than a page: the whole conversation is marked,   *)
(* not what is shown.                                                      *)
(***************************************************************************)
BecomesRead(m) ==
    /\ m \in messages /\ ~m.read /\ ~m.outgoing
    /\ [m EXCEPT !.read = TRUE] \in messages'

ReadIsShown ==
    [][\A m \in messages :
          BecomesRead(m) =>
              m.id \in view' \/ Cardinality(InConversation(m.conv)) > Limit]_conversation

(***************************************************************************)
(* "If message belongs to active conversation, append"                     *)
(* (OrchestratorContext.tsx:128): what is stored in the conversation that  *)
(* is open is shown, up to a page.                                         *)
(***************************************************************************)
OpenChatIsLive ==
    active # None =>
        Cardinality(view) >= Limit \/ view = {m.id : m \in InConversation(active)}
=============================================================================
