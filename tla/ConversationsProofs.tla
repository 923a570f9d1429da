------------------------ MODULE ConversationsProofs ------------------------
(***************************************************************************)
(* Proofs about Conversations for every set of contacts, devices and       *)
(* mailboxes and every page length: the tables are well typed, what is     *)
(* recorded of a send is true, and a message becomes read only when it is  *)
(* on the screen or its conversation is longer than a page.                *)
(***************************************************************************)
EXTENDS Conversations, FiniteSetTheorems, TLAPS

-----------------------------------------------------------------------------
(* The inductive invariant *)

\* A send to a contact and to the user's own devices is under way.
Sending == out.at \in {"contact", "self"}

\* The records of the send under way.
SendTypes ==
    /\ out \in [at : {"none", "link", "contact", "self"}, id : Nat, to : Row \cup {None},
                todo : SUBSET Target, target : Target \cup Device \cup {None}, live : BOOLEAN]
    /\ fate \in [owed : SUBSET Target, taken : SUBSET Target, missed : SUBSET Target,
                 live : SUBSET ({"contact", "self"} \X Target)]

\* Rows of messages are numbered in turn, and the number of a send is its own.
NumbersInv ==
    /\ numbers \in 0..MaxMessages
    /\ IsFiniteSet(messages)
    /\ \A m \in messages : m.id <= numbers
    /\ Sending => out.id \in 1..numbers /\ \A m \in messages : m.id # out.id

\* A conversation that is open, or is sent to, is one of the table.
OpenInv ==
    /\ active # None => active \in Row /\ Known(active)
    /\ Sending => out.to \in Row /\ Known(out.to)

\* The request is the one of the send.
RequestInv ==
    /\ state = "ok" => reached
    /\ out.at = "none" => state = "idle"
    /\ out.at = "link" => out.target \in OwnDevice

\* Every copy that is owed was taken or missed, or is still to be posted or
\* under way; and out.live remembers the answers for the contact's devices.
CopiesInv ==
    Sending =>
        /\ out.todo \subseteq fate.owed
        /\ state # "idle" => out.target \in fate.owed
        /\ fate.owed \subseteq fate.taken \cup fate.missed \cup out.todo
                               \cup (IF state = "idle" THEN {} ELSE {out.target})
        /\ fate.live \subseteq {"contact", "self"} \X fate.owed
        /\ out.live <=> \E t \in fate.owed : <<"contact", t>> \in fate.live

ConvInv ==
    /\ ConversationsTypeOK /\ SendTypes
    /\ NumbersInv /\ OpenInv /\ RequestInv /\ CopiesInv

-----------------------------------------------------------------------------
(* Its parts *)

MessageRow == [id : 1..MaxMessages, conv : Row, outgoing : BOOLEAN,
               read : BOOLEAN, status : {"sent", "delivered"}]

ContactRow == [key : Device \cup {None}, devices : SUBSET Target, exists : BOOLEAN]

\* The tables are of their types, and a message has one row.
TablesOK ==
    /\ contacts \in [Row -> ContactRow]
    /\ own \subseteq OwnDevice
    /\ messages \subseteq MessageRow
    /\ \A m1, m2 \in messages : m1.id = m2.id => m1 = m2
    /\ \A m \in messages : Known(m.conv)

TableInv == TablesOK /\ NumbersInv /\ OpenInv

RequestOK ==
    /\ state \in {"idle", "pending", "ok", "failed", "abandoned"}
    /\ reached \in BOOLEAN
    /\ RequestInv

SendInv == RequestOK /\ SendTypes /\ CopiesInv

\* The invariant speaks of the tables and of the send.
LEMMA ConvInvParts == ConvInv <=> TableInv /\ SendInv
<1>1. ConvInv => TableInv /\ SendInv
  BY DEF ConvInv, ConversationsTypeOK, TableInv, TablesOK, SendInv, RequestOK,
         MessageRow, ContactRow
<1>2. TableInv /\ SendInv => ConvInv
  <2> SUFFICES ASSUME TableInv, SendInv PROVE ConvInv
    OBVIOUS
  <2>1. out.at \in {"none", "link", "contact", "self"} /\ fate.owed \subseteq Target
    BY DEF SendInv, SendTypes
  <2>2. Sending /\ state # "idle" => out.target \in Target
    BY <2>1 DEF SendInv, CopiesInv
  <2>3. ConversationsTypeOK
    BY <2>1, <2>2 DEF ConversationsTypeOK, TableInv, TablesOK, SendInv, RequestOK,
                      MessageRow, ContactRow, Sending
  <2> QED BY <2>3 DEF ConvInv, TableInv, SendInv, RequestOK
<1> QED BY <1>1, <1>2

\* The same, in the state after a step.
LEMMA ConvInvPartsPrime == ConvInv' <=> TableInv' /\ SendInv'
  BY ConvInvParts, PTL

\* Initially the tables are empty and nothing is under way.
LEMMA ConvInitInv == ConversationsInit => ConvInv
<1> SUFFICES ASSUME ConversationsInit PROVE ConvInv
  OBVIOUS
<1> USE ConversationsAssumption
<1>1. contacts \in [Row -> ContactRow]
  BY DEF ConversationsInit, NoRow, ContactRow
<1>2. TablesOK
  BY <1>1 DEF ConversationsInit, TablesOK
<1>3. out = NoSend /\ out.at = "none" /\ ~Sending
  BY DEF ConversationsInit, NoSend, Sending
<1>4. NumbersInv
  BY <1>3, FS_EmptySet DEF ConversationsInit, NumbersInv
<1>5. OpenInv
  BY <1>3 DEF ConversationsInit, OpenInv
<1>6. SendTypes
  <2>1. out \in [at : {"none", "link", "contact", "self"}, id : Nat, to : Row \cup {None},
                 todo : SUBSET Target, target : Target \cup Device \cup {None}, live : BOOLEAN]
    BY DEF ConversationsInit, NoSend
  <2>2. fate \in [owed : SUBSET Target, taken : SUBSET Target, missed : SUBSET Target,
                  live : SUBSET ({"contact", "self"} \X Target)]
    BY DEF ConversationsInit, NoFate
  <2> QED BY <2>1, <2>2 DEF SendTypes
<1>7. RequestOK /\ CopiesInv
  BY <1>3 DEF ConversationsInit, RequestInit, RequestOK, RequestInv, CopiesInv
<1> QED BY <1>2, <1>4, <1>5, <1>6, <1>7, ConvInvParts DEF TableInv, SendInv

-----------------------------------------------------------------------------
(* The operations on the tables *)

\* A contact has devices to send to, itself if no other is linked, and so has
\* the user.
LEMMA TargetTypes ==
    ASSUME TablesOK
    PROVE  /\ \A r \in Row : DevicesOf(r) \subseteq Target
           /\ \A d \in Device : TargetOf(d) \in Target
           /\ OwnTargets \subseteq Target
<1>1. ASSUME NEW r \in Row PROVE DevicesOf(r) \subseteq Target
  <2>1. contacts[r].key \in Device \cup {None} /\ contacts[r].devices \subseteq Target
    BY DEF TablesOK, ContactRow
  <2>2. [box |-> r, key |-> contacts[r].key] \in Target
    BY <2>1 DEF Target
  <2> QED BY <2>1, <2>2 DEF DevicesOf
<1>2. \A d \in Device : TargetOf(d) \in Target
  BY DEF TargetOf, Target
<1>3. own \subseteq Device
  BY ConversationsAssumption DEF TablesOK
<1> QED BY <1>1, <1>2, <1>3 DEF OwnTargets

\* The values of a function on a finite set are finitely many, no more than it
\* has elements.
LEMMA FiniteImage ==
    ASSUME NEW S, IsFiniteSet(S), NEW F
    PROVE  /\ IsFiniteSet({F[x] : x \in S})
           /\ Cardinality({F[x] : x \in S}) <= Cardinality(S)
<1> DEFINE T == {F[x] : x \in S}
           G == [x \in S |-> F[x]]
<1>1. G \in Surjection(S, T)
  BY DEF Surjection
<1> HIDE DEF T, G
<1>2. IsFiniteSet(T) /\ Cardinality(T) <= Cardinality(S)
  BY <1>1, FS_Surjection
<1> QED BY <1>2 DEF T

\* Marking a conversation as read changes nothing else of any message.
LEMMA MarkKeeps ==
    ASSUME TablesOK, IsFiniteSet(messages), NEW r, MarkMessagesAsRead(r)
    PROVE  /\ messages' \subseteq MessageRow /\ IsFiniteSet(messages')
           /\ \A m \in messages' : \E n \in messages :
                 m = [n EXCEPT !.read = @ \/ n.conv = r] /\ m.id = n.id /\ m.conv = n.conv
           /\ \A m1, m2 \in messages' : m1.id = m2.id => m1 = m2
<1> DEFINE f(n) == [n EXCEPT !.read = @ \/ n.conv = r]
<1>1. messages' = {f(n) : n \in messages}
  BY DEF MarkMessagesAsRead
<1>2. \A n \in messages : f(n) \in MessageRow /\ f(n).id = n.id /\ f(n).conv = n.conv
  <2> SUFFICES ASSUME NEW n \in MessageRow
               PROVE  f(n) \in MessageRow /\ f(n).id = n.id /\ f(n).conv = n.conv
    BY DEF TablesOK
  <2>1. (n.read \/ n.conv = r) \in BOOLEAN
    OBVIOUS
  <2>2. f(n) = [n EXCEPT !.read = (n.read \/ n.conv = r)]
    OBVIOUS
  <2> QED BY <2>1, <2>2 DEF MessageRow
<1>3. IsFiniteSet({f(n) : n \in messages})
  <2> DEFINE F == [n \in messages |-> f(n)]
  <2>1. {F[n] : n \in messages} = {f(n) : n \in messages}
    OBVIOUS
  <2>2. IsFiniteSet({F[n] : n \in messages})
    <3> HIDE DEF F
    <3> QED BY FiniteImage
  <2> QED BY <2>1, <2>2
<1> HIDE DEF f
<1>4. \A m1, m2 \in messages' : m1.id = m2.id => m1 = m2
  BY <1>1, <1>2 DEF TablesOK
<1>5. \A m \in messages' : \E n \in messages : m = f(n) /\ m.id = n.id /\ m.conv = n.conv
  BY <1>1, <1>2
<1>6. messages' \subseteq MessageRow
  BY <1>1, <1>2
<1> QED BY <1>1, <1>3, <1>4, <1>5, <1>6 DEF f

\* A message with a number of its own is one more row.
LEMMA AddKeeps ==
    ASSUME TablesOK, IsFiniteSet(messages), NEW x \in MessageRow,
           \A m \in messages : m.id # x.id, messages' = messages \cup {x}
    PROVE  /\ messages' \subseteq MessageRow /\ IsFiniteSet(messages')
           /\ \A m1, m2 \in messages' : m1.id = m2.id => m1 = m2
<1>1. IsFiniteSet(messages')
  BY FS_AddElement
<1> QED BY <1>1 DEF TablesOK

\* A row of a contact is never deleted, and one that is made is one.
LEMMA SenderKept ==
    ASSUME TablesOK, NEW d \in Device
    PROVE  /\ WithSender(d) \in [Row -> ContactRow]
           /\ \A r \in Row : Known(r) => WithSender(d)[r].exists
           /\ \A r \in Row : SenderRow(d, r) => WithSender(d)[r].exists
<1>1. NewRow(d) \in ContactRow /\ NewRow(d).exists /\ d \in Row
  BY DEF NewRow, ContactRow, Row
<1>2. WithSender(d) \in [Row -> ContactRow]
  BY <1>1 DEF WithSender, TablesOK
<1>3. \A r \in Row : Known(r) => WithSender(d)[r].exists
  BY <1>1 DEF WithSender, TablesOK, Known
<1>4. \A r \in Row : SenderRow(d, r) => WithSender(d)[r].exists
  BY <1>1 DEF WithSender, TablesOK, SenderRow, RowsOf, Known
<1> QED BY <1>2, <1>3, <1>4

-----------------------------------------------------------------------------
(* The tables keep their invariant *)

\* A row of messages is of a conversation that has a row.
LEMMA TablesKept ==
    ASSUME TablesOK,
           contacts' \in [Row -> ContactRow], own' \subseteq OwnDevice,
           messages' \subseteq MessageRow,
           \A r \in Row : Known(r) => Known(r)',
           \A m1, m2 \in messages' : m1.id = m2.id => m1 = m2,
           \A m \in messages' : Known(m.conv)' \/ \E n \in messages : m.conv = n.conv
    PROVE  TablesOK'
<1>1. \A m \in messages' : Known(m.conv)'
  <2>1. \A n \in messages : n.conv \in Row /\ Known(n.conv)
    BY DEF TablesOK, MessageRow
  <2> QED BY <2>1
<1> QED BY <1>1 DEF TablesOK

\* The view and the contacts may change while rows of messages keep their
\* numbers and the send its own.
LEMMA NumbersKept ==
    ASSUME NumbersInv, numbers' = numbers, IsFiniteSet(messages'),
           \A m \in messages' : \E n \in messages : m.id = n.id,
           (Sending' => Sending /\ out'.id = out.id)
    PROVE  NumbersInv'
  BY DEF NumbersInv

\* A conversation that is shown is marked as read.
LEMMA ShowTables ==
    ASSUME TableInv, NEW r \in Row, Show(r), Known(r)',
           contacts' \in [Row -> ContactRow], \A q \in Row : Known(q) => Known(q)',
           UNCHANGED <<own, numbers, out>>
    PROVE  TableInv'
<1>1. /\ TablesOK /\ NumbersInv /\ OpenInv /\ IsFiniteSet(messages)
      /\ active' = r /\ MarkMessagesAsRead(r)
  BY DEF TableInv, Show, NumbersInv
<1>2. /\ messages' \subseteq MessageRow /\ IsFiniteSet(messages')
      /\ \A m \in messages' : \E n \in messages : m.id = n.id /\ m.conv = n.conv
      /\ \A m1, m2 \in messages' : m1.id = m2.id => m1 = m2
  BY <1>1, MarkKeeps
<1>3. TablesOK'
  BY <1>1, <1>2, TablesKept DEF TablesOK
<1>4. NumbersInv'
  BY <1>1, <1>2, NumbersKept DEF Sending
<1>5. OpenInv'
  BY <1>1 DEF OpenInv, Sending
<1> QED BY <1>3, <1>4, <1>5 DEF TableInv

\* A change of the contacts or of the own devices that deletes no row.
LEMMA ContactTables ==
    ASSUME TableInv, contacts' \in [Row -> ContactRow], own' \subseteq OwnDevice,
           \A q \in Row : Known(q) => Known(q)',
           UNCHANGED <<messages, numbers>>, active' \in {active, None},
           (Sending' => Sending /\ out'.id = out.id /\ out'.to = out.to)
    PROVE  TableInv'
<1>1. TablesOK /\ NumbersInv /\ OpenInv /\ IsFiniteSet(messages)
  BY DEF TableInv, NumbersInv
<1>2. TablesOK'
  BY <1>1, TablesKept DEF TablesOK
<1>3. NumbersInv'
  BY <1>1, NumbersKept
<1>4. OpenInv'
  BY <1>1 DEF OpenInv
<1> QED BY <1>2, <1>3, <1>4 DEF TableInv

\* A received message gets the next number.
LEMMA ReceiveTables ==
    ASSUME TableInv, SendTypes, contacts' \in [Row -> ContactRow],
           \A q \in Row : Known(q) => Known(q)',
           numbers < MaxMessages, numbers' = numbers + 1,
           NEW x \in MessageRow, x.id = numbers', Known(x.conv)',
           messages' = messages \cup {x}, UNCHANGED <<own, out, active>>
    PROVE  TableInv'
<1>1. TablesOK /\ NumbersInv /\ OpenInv /\ IsFiniteSet(messages) /\ numbers \in Nat
  BY ConversationsAssumption DEF TableInv, NumbersInv
<1>2. \A m \in messages : m.id \in Nat /\ m.id <= numbers
  BY <1>1 DEF TablesOK, MessageRow, NumbersInv
<1>3. \A m \in messages : m.id # x.id
  BY <1>1, <1>2
<1>4. /\ messages' \subseteq MessageRow /\ IsFiniteSet(messages')
      /\ \A m1, m2 \in messages' : m1.id = m2.id => m1 = m2
  BY <1>1, <1>3, AddKeeps
<1>5. TablesOK'
  BY <1>1, <1>4, TablesKept DEF TablesOK
<1>6. NumbersInv'
  <2>1. numbers' \in 0..MaxMessages
    BY <1>1, ConversationsAssumption
  <2>2. \A m \in messages' : m.id <= numbers'
    BY <1>1, <1>2
  <2>3. Sending' => out'.id \in 1..numbers' /\ \A m \in messages' : m.id # out'.id
    BY <1>1, <1>2 DEF NumbersInv, Sending
  <2> QED BY <1>4, <2>1, <2>2, <2>3 DEF NumbersInv
<1>7. OpenInv'
  BY <1>1 DEF OpenInv, Sending
<1> QED BY <1>5, <1>6, <1>7 DEF TableInv

\* The message of a send gets the next number when the send begins ...
LEMMA BeginTables ==
    ASSUME TableInv, SendTypes, SendBegin
    PROVE  TableInv'
<1>1. /\ TablesOK /\ NumbersInv /\ OpenInv /\ numbers \in Nat
      /\ UNCHANGED <<contacts, own, messages, active>>
      /\ numbers < MaxMessages /\ numbers' = numbers + 1 /\ active # None
  BY ConversationsAssumption DEF TableInv, NumbersInv, SendBegin, tables, shown
<1>2. out'.id = numbers' /\ out'.to = active
  BY DEF SendBegin, NoSend
<1>3. \A m \in messages : m.id \in Nat /\ m.id <= numbers
  BY <1>1 DEF TablesOK, MessageRow, NumbersInv
<1>4. TablesOK'
  BY <1>1, TablesKept DEF TablesOK, Known
<1>5. NumbersInv'
  <2>1. numbers' \in 0..MaxMessages /\ numbers' \in 1..numbers'
    BY <1>1, ConversationsAssumption
  <2>2. \A m \in messages : m.id <= numbers' /\ m.id # numbers'
    BY <1>1, <1>3
  <2>3. IsFiniteSet(messages)
    BY <1>1 DEF NumbersInv
  <2> QED BY <1>1, <1>2, <2>1, <2>2, <2>3 DEF NumbersInv
<1>6. OpenInv'
  BY <1>1, <1>2 DEF OpenInv, Known
<1> QED BY <1>4, <1>5, <1>6 DEF TableInv

\* ... and its row when it ends.
LEMMA RecordTables ==
    ASSUME TableInv, SendTypes, SendRecord
    PROVE  TableInv'
<1> DEFINE x == [id |-> out.id, conv |-> out.to, outgoing |-> TRUE, read |-> TRUE,
                 status |-> IF out.live THEN "delivered" ELSE "sent"]
<1>1. /\ TablesOK /\ NumbersInv /\ OpenInv /\ Sending
      /\ UNCHANGED <<contacts, own, numbers, active>>
      /\ messages' = messages \cup {x} /\ out' = NoSend
  BY DEF TableInv, SendRecord, Looping, Sending, Notified, shown
<1>2. /\ out.id \in 1..numbers /\ numbers \in 0..MaxMessages /\ IsFiniteSet(messages)
      /\ \A m \in messages : m.id # out.id /\ m.id <= numbers
      /\ out.to \in Row /\ Known(out.to)
  BY <1>1 DEF NumbersInv, OpenInv
<1>3. x \in MessageRow /\ x.id = out.id /\ x.conv = out.to
  <2>1. out.id \in 1..MaxMessages
    BY <1>2, ConversationsAssumption
  <2>2. (IF out.live THEN "delivered" ELSE "sent") \in {"sent", "delivered"}
    OBVIOUS
  <2> QED BY <1>2, <2>1, <2>2 DEF MessageRow
<1>y. PICK y \in MessageRow : y = x
  BY <1>3
<1> HIDE DEF x
<1>4. /\ messages' \subseteq MessageRow /\ IsFiniteSet(messages')
      /\ \A m1, m2 \in messages' : m1.id = m2.id => m1 = m2
  BY <1>1, <1>2, <1>3, <1>y, AddKeeps
<1>5. TablesOK'
  <2>1. \A m \in messages' : Known(m.conv)
    BY <1>1, <1>2, <1>3 DEF TablesOK
  <2> QED BY <1>1, <1>4, <2>1 DEF TablesOK, Known
<1>6. ~Sending'
  BY <1>1 DEF Sending, NoSend
<1>7. NumbersInv'
  BY <1>1, <1>2, <1>3, <1>4, <1>6 DEF NumbersInv
<1>8. OpenInv'
  BY <1>1, <1>6 DEF OpenInv, Known
<1> QED BY <1>5, <1>7, <1>8 DEF TableInv

\* Every step keeps the invariant of the tables.
LEMMA NextTables ==
    ASSUME ConvInv, [ConversationsNext]_conversation
    PROVE  TableInv'
<1>t. TableInv /\ SendTypes /\ TablesOK /\ NumbersInv /\ OpenInv /\ contacts \in [Row -> ContactRow]
  BY ConvInvParts DEF TableInv, SendInv, TablesOK
<1>r. Device \subseteq Row /\ Contact \subseteq Row
  BY DEF Row
<1>o. OwnDevice \subseteq Device
  BY ConversationsAssumption
<1>1. ASSUME NEW r \in Row, Select(r) PROVE TableInv'
  <2>1. Show(r) /\ Known(r) /\ UNCHANGED <<contacts, own, numbers, out>>
    BY <1>1 DEF Select
  <2> QED BY <1>t, <2>1, ShowTables DEF Known
<1>2. CASE Back
  <2>1. UNCHANGED <<contacts, own, messages, numbers, out>> /\ active' = None
    BY <1>2 DEF Back, tables
  <2> QED BY <1>t, <2>1, ContactTables DEF Known, Sending, TablesOK
<1>3. ASSUME NEW c \in Contact, ImportContact(c) PROVE TableInv'
  <2>1. /\ Show(c) /\ UNCHANGED <<own, numbers, out>>
        /\ contacts' = [contacts EXCEPT ![c] = NewRow(PrimaryOf(c))]
    BY <1>3 DEF ImportContact
  <2>2. PrimaryOf(c) \in Device
    BY ConversationsAssumption DEF PrimaryOf
  <2>3. NewRow(PrimaryOf(c)) \in ContactRow /\ NewRow(PrimaryOf(c)).exists
    BY <2>2 DEF NewRow, ContactRow
  <2>4. /\ contacts' \in [Row -> ContactRow] /\ Known(c)'
        /\ \A q \in Row : Known(q) => Known(q)'
    BY <1>r, <1>t, <2>1, <2>3 DEF Known
  <2> QED BY <1>r, <1>t, <2>1, <2>4, ShowTables
<1>4. ASSUME NEW c \in Contact, NEW d \in Device \ OwnDevice, AddLinkedDevice(c, d) PROVE TableInv'
  <2>1. PICK D \in {D \in SUBSET Target : TRUE} : contacts' = [contacts EXCEPT ![c].devices = D]
    <3>1. PICK same \in {{}} \cup {{t} : t \in DevicesOf(c)} :
             contacts' = [contacts EXCEPT ![c].devices = (DevicesOf(c) \ same) \cup {TargetOf(d)}]
      BY <1>4 DEF AddLinkedDevice
    <3>2. (DevicesOf(c) \ same) \cup {TargetOf(d)} \subseteq Target
      BY <1>r, <1>t, TargetTypes
    <3> QED BY <3>1, <3>2
  <2>2. UNCHANGED <<own, messages, numbers, out, active>>
    BY <1>4 DEF AddLinkedDevice, shown
  <2>3. contacts' = [contacts EXCEPT ![c] = [contacts[c] EXCEPT !.devices = D]]
    BY <2>1
  <2>4. /\ [contacts[c] EXCEPT !.devices = D] \in ContactRow
        /\ [contacts[c] EXCEPT !.devices = D].exists = contacts[c].exists
    BY <1>r, <1>t DEF ContactRow
  <2>5. contacts' \in [Row -> ContactRow] /\ \A q \in Row : Known(q) => Known(q)'
    BY <1>r, <1>t, <2>3, <2>4 DEF Known
  <2> QED BY <1>t, <2>2, <2>5, ContactTables DEF Sending, TablesOK
<1>5. ASSUME NEW d \in OwnDevice, Provision(d) PROVE TableInv'
  <2>1. UNCHANGED <<contacts, own, messages, numbers, active>> /\ out'.at = "link"
    BY <1>5 DEF Provision, tables, shown, NoSend
  <2> QED BY <1>t, <2>1, ContactTables DEF Known, Sending, TablesOK
<1>6. CASE Provisioned
  <2>1. UNCHANGED <<contacts, messages, numbers, active>> /\ out' = NoSend
        /\ own' \in {own, own \cup {out.target}} /\ out.at = "link"
    BY <1>6 DEF Provisioned, shown
  <2>2. out.target \in OwnDevice
    BY <2>1 DEF ConvInv, RequestInv
  <2>3. own' \subseteq OwnDevice
    BY <1>t, <2>1, <2>2 DEF TablesOK
  <2>4. ~Sending'
    BY <2>1 DEF Sending, NoSend
  <2> QED BY <1>t, <2>1, <2>3, <2>4, ContactTables DEF Known, TablesOK
<1>7. CASE SendBegin
  BY <1>t, <1>7, BeginTables
<1>8. CASE SendRecord
  BY <1>t, <1>8, RecordTables
<1>9. CASE /\ UNCHANGED <<contacts, own, messages, numbers, active>>
           /\ Sending' => Sending /\ out'.id = out.id /\ out'.to = out.to
  BY <1>t, <1>9, ContactTables DEF Known, TablesOK
<1>10. ASSUME SendStep, ~SendRecord
       PROVE  /\ UNCHANGED <<contacts, own, messages, numbers, active>>
              /\ Sending' => Sending /\ out'.id = out.id /\ out'.to = out.to
  <2>1. ASSUME NEW t \in out.todo, SendNoSession(t) \/ SendPost(t)
        PROVE  /\ UNCHANGED <<contacts, own, messages, numbers, active>>
               /\ Sending /\ out'.id = out.id /\ out'.to = out.to
    BY <1>t, <2>1 DEF SendNoSession, SendPost, Looping, Sending, tables, shown, SendTypes
  <2>2. ASSUME NEW delivered \in BOOLEAN, SendPosted(delivered)
        PROVE  /\ UNCHANGED <<contacts, own, messages, numbers, active>>
               /\ Sending /\ out'.id = out.id /\ out'.to = out.to
    BY <1>t, <2>2 DEF SendPosted, AfterPost, Sending, tables, shown, SendTypes
  <2>3. ASSUME SendSelf
        PROVE  /\ UNCHANGED <<contacts, own, messages, numbers, active>>
               /\ Sending /\ out'.id = out.id /\ out'.to = out.to
    BY <1>t, <2>3 DEF SendSelf, Sending, tables, shown, SendTypes
  <2> QED BY <1>10, <2>1, <2>2, <2>3 DEF SendStep
<1>11. ASSUME NEW d \in Device, ReceiveFails(d) PROVE TableInv'
  <2>1. UNCHANGED <<own, messages, numbers, out, active>> /\ contacts' = WithSender(d)
    BY <1>11 DEF ReceiveFails, shown
  <2>2. contacts' \in [Row -> ContactRow] /\ \A q \in Row : Known(q) => Known(q)'
    BY <1>t, <2>1, SenderKept DEF Known
  <2> QED BY <1>t, <2>1, <2>2, ContactTables DEF Sending, TablesOK
<1>12. ASSUME NEW d \in Device, NEW r \in Row, Receive(d, r) PROVE TableInv'
  <2> DEFINE x == [id |-> numbers', conv |-> r, outgoing |-> FALSE, read |-> FALSE,
                   status |-> "delivered"]
  <2>1. /\ SenderRow(d, r) /\ numbers < MaxMessages /\ numbers' = numbers + 1
        /\ contacts' = WithSender(d) /\ messages' = messages \cup {x}
        /\ UNCHANGED <<own, out, active>>
    BY <1>12 DEF Receive, Notified, shown
  <2>2. /\ contacts' \in [Row -> ContactRow] /\ Known(r)'
        /\ \A q \in Row : Known(q) => Known(q)'
    BY <1>t, <2>1, SenderKept DEF Known
  <2>3. numbers' \in 1..MaxMessages
    BY <1>t, <2>1, ConversationsAssumption DEF NumbersInv
  <2>4. x \in MessageRow /\ x.id = numbers' /\ x.conv = r
    BY <2>3 DEF MessageRow
  <2>5. PICK y \in MessageRow : y = x
    BY <2>4
  <2> HIDE DEF x
  <2> QED BY <1>t, <2>1, <2>2, <2>4, <2>5, ReceiveTables
<1>13. ASSUME NEW d \in Device, NEW c \in Contact, ReceiveSync(d, c) PROVE TableInv'
  <2> DEFINE x == [id |-> numbers', conv |-> c, outgoing |-> TRUE, read |-> TRUE,
                   status |-> "delivered"]
  <2>1. /\ numbers < MaxMessages /\ numbers' = numbers + 1
        /\ contacts' = [WithSender(d) EXCEPT ![c] = IF Known(c) THEN @ ELSE NewRow(None)]
        /\ messages' = messages \cup {x}
        /\ UNCHANGED <<own, out, active>>
    BY <1>13 DEF ReceiveSync, Notified, shown
  <2>2. NewRow(None) \in ContactRow /\ NewRow(None).exists
    BY DEF NewRow, ContactRow
  <2>3. /\ WithSender(d) \in [Row -> ContactRow]
        /\ \A q \in Row : Known(q) => WithSender(d)[q].exists
    BY <1>o, <1>t, SenderKept
  <2>4. /\ contacts' \in [Row -> ContactRow] /\ Known(c)'
        /\ \A q \in Row : Known(q) => Known(q)'
    BY <1>r, <2>1, <2>2, <2>3 DEF Known
  <2>5. numbers' \in 1..MaxMessages
    BY <1>t, <2>1, ConversationsAssumption DEF NumbersInv
  <2>6. x \in MessageRow /\ x.id = numbers' /\ x.conv = c
    BY <1>r, <2>5 DEF MessageRow
  <2>7. PICK y \in MessageRow : y = x
    BY <2>6
  <2> HIDE DEF x
  <2> QED BY <1>t, <2>1, <2>4, <2>6, <2>7, ReceiveTables
<1>14. ASSUME RequestMoves \/ UNCHANGED conversation
       PROVE  /\ UNCHANGED <<contacts, own, messages, numbers, active>>
              /\ Sending' => Sending /\ out'.id = out.id /\ out'.to = out.to
  BY <1>14 DEF RequestMoves, conversation, device, tables, shown, Sending
<1> QED BY <1>1, <1>2, <1>3, <1>4, <1>5, <1>6, <1>7, <1>8, <1>9, <1>10, <1>11, <1>12, <1>13, <1>14
        DEF ConversationsNext, SendStep

-----------------------------------------------------------------------------
(* The send keeps its invariant *)

\* Its record, and what became of the copies, field by field.
LEMMA SendFields ==
    ASSUME SendTypes
    PROVE  /\ out.at \in {"none", "link", "contact", "self"} /\ out.live \in BOOLEAN
           /\ out.todo \subseteq Target /\ fate.owed \subseteq Target
           /\ fate.taken \subseteq Target /\ fate.missed \subseteq Target
           /\ fate.live \subseteq {"contact", "self"} \X Target
  BY DEF SendTypes

\* A step that leaves the send and its request alone.
LEMMA SendQuiet ==
    ASSUME SendInv, UNCHANGED <<out, fate, state, reached>>
    PROVE  SendInv'
  BY DEF SendInv, RequestOK, RequestInv, SendTypes, CopiesInv, Sending

\* A step that ends the send, or begins or ends a provisioning.
LEMMA SendNone ==
    ASSUME SendInv, RequestOK', SendTypes', ~Sending'
    PROVE  SendInv'
  BY DEF SendInv, CopiesInv

\* Every step keeps the invariant of the send.
LEMMA NextSend ==
    ASSUME ConvInv, [ConversationsNext]_conversation
    PROVE  SendInv'
<1>t. /\ SendInv /\ TablesOK /\ OpenInv /\ RequestOK /\ SendTypes /\ CopiesInv
      /\ \A r \in Row : DevicesOf(r) \subseteq Target
      /\ OwnTargets \subseteq Target
  BY ConvInvParts, TargetTypes DEF TableInv, SendInv
<1>1. CASE UNCHANGED <<out, fate, request>>
  BY <1>t, <1>1, SendQuiet DEF request
<1>2. ASSUME NEW d \in OwnDevice, Provision(d) PROVE SendInv'
  <2>1. /\ out = NoSend /\ out' = [NoSend EXCEPT !.at = "link", !.target = d]
        /\ state' = "pending" /\ UNCHANGED <<fate, reached>>
    BY <1>2 DEF Provision, Ask
  <2>2. out'.at = "link" /\ out'.target = d /\ SendTypes'
    <3>1. d \in Target \cup Device \cup {None}
      BY ConversationsAssumption
    <3> QED BY <1>t, <2>1, <3>1 DEF NoSend, SendTypes
  <2>3. RequestOK' /\ ~Sending'
    BY <1>t, <2>1, <2>2 DEF RequestOK, RequestInv, Sending
  <2> QED BY <1>t, <2>2, <2>3, SendNone
<1>3. CASE Provisioned \/ SendRecord
  <2>1. /\ out' = NoSend /\ state' = "idle" /\ reached' \in BOOLEAN
        /\ fate' \in {fate, NoFate}
    BY <1>t, <1>3 DEF Provisioned, SendRecord, Looping, Return, request, RequestOK
  <2>2. out'.at = "none" /\ out' \in [at : {"none", "link", "contact", "self"}, id : Nat,
                                      to : Row \cup {None}, todo : SUBSET Target,
                                      target : Target \cup Device \cup {None}, live : BOOLEAN]
    BY <2>1 DEF NoSend
  <2>3. NoFate \in [owed : SUBSET Target, taken : SUBSET Target, missed : SUBSET Target,
                    live : SUBSET ({"contact", "self"} \X Target)]
    BY DEF NoFate
  <2>4. SendTypes'
    BY <1>t, <2>1, <2>2, <2>3 DEF SendTypes
  <2>5. RequestOK' /\ ~Sending'
    BY <2>1, <2>2 DEF RequestOK, RequestInv, Sending
  <2> QED BY <1>t, <2>4, <2>5, SendNone
<1>4. CASE SendBegin
  <2>1. /\ out = NoSend /\ active # None /\ numbers' = numbers + 1
        /\ out' = [NoSend EXCEPT !.at = "contact", !.id = numbers', !.to = active,
                                 !.todo = DevicesOf(active)]
        /\ fate' = [NoFate EXCEPT !.owed = DevicesOf(active)]
        /\ UNCHANGED <<state, reached>>
    BY <1>4 DEF SendBegin, request
  <2>2. state = "idle"
    BY <1>t, <2>1 DEF NoSend, RequestOK, RequestInv
  <2>3. active \in Row /\ DevicesOf(active) \subseteq Target /\ numbers' \in Nat
    BY <1>t, <2>1, ConversationsAssumption DEF OpenInv, ConvInv, NumbersInv
  <2> DEFINE D == DevicesOf(active)
  <2>4. /\ out'.at = "contact" /\ out'.todo = D /\ out'.live = FALSE
        /\ fate'.owed = D /\ fate'.live = {}
        /\ SendTypes'
    <3> HIDE DEF D
    <3>1. D \in SUBSET Target
      BY <2>3 DEF D
    <3>2. /\ out' = [NoSend EXCEPT !.at = "contact", !.id = numbers', !.to = active, !.todo = D]
          /\ fate' = [NoFate EXCEPT !.owed = D]
      BY <2>1 DEF D
    <3> QED BY <2>3, <3>1, <3>2 DEF NoSend, NoFate, SendTypes
  <2> HIDE DEF D
  <2>5. RequestOK'
    BY <1>t, <2>1, <2>2, <2>4 DEF RequestOK, RequestInv
  <2>6. CopiesInv'
    BY <2>1, <2>2, <2>4 DEF CopiesInv
  <2> QED BY <2>4, <2>5, <2>6 DEF SendInv
<1>5. ASSUME NEW t \in out.todo, SendNoSession(t) PROVE SendInv'
  <2>1. /\ Sending /\ state = "idle" /\ t \in Target
        /\ out' = [out EXCEPT !.todo = @ \ {t}]
        /\ fate' = [fate EXCEPT !.missed = @ \cup {t}]
        /\ UNCHANGED <<state, reached>>
    BY <1>t, <1>5, SendFields DEF SendNoSession, Looping, Sending, request
  <2>2. /\ out'.at = out.at /\ out'.todo = out.todo \ {t} /\ out'.live = out.live
        /\ out'.target = out.target
        /\ fate'.owed = fate.owed /\ fate'.live = fate.live /\ fate'.taken = fate.taken
        /\ fate'.missed = fate.missed \cup {t}
        /\ SendTypes'
    BY <1>t, <2>1 DEF SendTypes
  <2>3. RequestOK'
    BY <1>t, <2>1, <2>2 DEF RequestOK, RequestInv
  <2>4. CopiesInv'
    BY <1>t, <2>1, <2>2 DEF CopiesInv, Sending
  <2> QED BY <2>2, <2>3, <2>4 DEF SendInv
<1>6. ASSUME NEW t \in out.todo, SendPost(t) PROVE SendInv'
  <2>1. /\ Sending /\ state = "idle" /\ t \in Target
        /\ out' = [out EXCEPT !.todo = @ \ {t}, !.target = t]
        /\ state' = "pending" /\ UNCHANGED <<fate, reached>>
    BY <1>t, <1>6, SendFields DEF SendPost, Looping, Sending, Ask
  <2>2. /\ out'.at = out.at /\ out'.todo = out.todo \ {t} /\ out'.live = out.live
        /\ out'.target = t /\ SendTypes'
    BY <1>t, <2>1 DEF SendTypes
  <2>3. RequestOK'
    BY <1>t, <2>1, <2>2 DEF RequestOK, RequestInv, Sending
  <2>4. CopiesInv'
    BY <1>t, <2>1, <2>2 DEF CopiesInv, Sending
  <2> QED BY <2>2, <2>3, <2>4 DEF SendInv
<1>7. ASSUME NEW delivered \in BOOLEAN, SendPosted(delivered) PROVE SendInv'
  <2> DEFINE a == out.at
             t == out.target
  <2>1. /\ a \in {"contact", "self"} /\ state \in {"ok", "failed"}
        /\ delivered => state = "ok"
        /\ out' = [out EXCEPT !.target = None, !.live = @ \/ (out.at = "contact" /\ delivered)]
        /\ fate' = [fate EXCEPT
              !.taken  = IF reached THEN @ \cup {out.target} ELSE @,
              !.missed = IF state = "failed" THEN @ \cup {out.target} ELSE @,
              !.live   = IF delivered THEN @ \cup {<<out.at, out.target>>} ELSE @]
        /\ state' = "idle" /\ reached' = FALSE
    BY <1>7 DEF SendPosted, AfterPost, Returned, Return
  <2>2. /\ t \in fate.owed /\ t \in Target /\ <<a, t>> \in {"contact", "self"} \X fate.owed
        /\ state = "ok" => reached
    BY <1>t, <2>1, SendFields DEF CopiesInv, Sending, RequestOK, RequestInv
  <2>3. /\ out'.at = a /\ out'.todo = out.todo
        /\ out'.live = (out.live \/ (a = "contact" /\ delivered))
        /\ out' \in [at : {"none", "link", "contact", "self"}, id : Nat, to : Row \cup {None},
                     todo : SUBSET Target, target : Target \cup Device \cup {None}, live : BOOLEAN]
    BY <1>t, <2>1 DEF SendTypes
  <2>4. /\ fate'.owed = fate.owed
        /\ fate'.taken = IF reached THEN fate.taken \cup {t} ELSE fate.taken
        /\ fate'.missed = IF state = "failed" THEN fate.missed \cup {t} ELSE fate.missed
        /\ fate'.live = IF delivered THEN fate.live \cup {<<a, t>>} ELSE fate.live
    BY <1>t, <2>1 DEF SendTypes
  <2>5. SendTypes'
    <3>1. /\ (IF reached THEN fate.taken \cup {t} ELSE fate.taken) \in SUBSET Target
          /\ (IF state = "failed" THEN fate.missed \cup {t} ELSE fate.missed) \in SUBSET Target
          /\ (IF delivered THEN fate.live \cup {<<a, t>>} ELSE fate.live)
                \in SUBSET ({"contact", "self"} \X Target)
      BY <1>t, <2>1, <2>2, SendFields
    <3> HIDE DEF a, t
    <3>2. fate' \in [owed : SUBSET Target, taken : SUBSET Target, missed : SUBSET Target,
                     live : SUBSET ({"contact", "self"} \X Target)]
      BY <1>t, <2>1, <3>1 DEF SendTypes, a, t
    <3> QED BY <2>3, <3>2 DEF SendTypes
  <2>6. RequestOK'
    BY <2>1, <2>3 DEF RequestOK, RequestInv
  <2>7. Sending /\ state # "idle"
    BY <2>1 DEF Sending
  <2> HIDE DEF a, t
  <2>8. fate'.owed \subseteq fate'.taken \cup fate'.missed \cup out'.todo
    <3>1. fate.owed \subseteq fate.taken \cup fate.missed \cup out.todo \cup {t}
      BY <1>t, <2>7 DEF CopiesInv, t
    <3>2. t \in fate'.taken \cup fate'.missed
      BY <2>1, <2>2, <2>4
    <3> QED BY <2>3, <2>4, <3>1, <3>2
  <2>9. fate'.live \subseteq {"contact", "self"} \X fate'.owed
    BY <1>t, <2>2, <2>4, <2>7 DEF CopiesInv
  <2>10. out'.live <=> \E u \in fate'.owed : <<"contact", u>> \in fate'.live
    <3>1. out.live <=> \E u \in fate.owed : <<"contact", u>> \in fate.live
      BY <1>t, <2>7 DEF CopiesInv
    <3>2. CASE delivered /\ a = "contact"
      BY <2>2, <2>3, <2>4, <3>2
    <3>3. CASE ~delivered
      BY <2>3, <2>4, <3>1, <3>3
    <3>4. CASE a # "contact"
      BY <2>3, <2>4, <3>1, <3>4
    <3> QED BY <3>2, <3>3, <3>4
  <2>11. out'.todo \subseteq fate'.owed
    BY <1>t, <2>3, <2>4, <2>7 DEF CopiesInv
  <2>12. CopiesInv'
    BY <2>1, <2>8, <2>9, <2>10, <2>11 DEF CopiesInv
  <2> QED BY <2>5, <2>6, <2>12 DEF SendInv
<1>8. CASE SendSelf
  <2> DEFINE O == OwnTargets
  <2>1. /\ Sending /\ state = "idle" /\ out.todo = {} /\ O \in SUBSET Target
        /\ out' = [out EXCEPT !.at = "self", !.todo = O]
        /\ fate' = [fate EXCEPT !.owed = @ \cup O]
        /\ UNCHANGED <<state, reached>>
    BY <1>t, <1>8 DEF SendSelf, Looping, Sending, request
  <2> HIDE DEF O
  <2>2. /\ out'.at = "self" /\ out'.todo = O /\ out'.live = out.live
        /\ fate'.owed = fate.owed \cup O /\ fate'.live = fate.live
        /\ fate'.taken = fate.taken /\ fate'.missed = fate.missed
        /\ SendTypes'
    BY <1>t, <2>1 DEF SendTypes
  <2>3. RequestOK'
    BY <1>t, <2>1, <2>2 DEF RequestOK, RequestInv
  <2>4. /\ fate.owed \subseteq fate.taken \cup fate.missed
        /\ fate.live \subseteq {"contact", "self"} \X fate.owed
        /\ out.live <=> \E t \in fate.owed : <<"contact", t>> \in fate.live
    BY <1>t, <2>1 DEF CopiesInv
  <2>5. \A t : <<"contact", t>> \in fate.live => t \in fate.owed
    BY <2>4
  <2>6. CopiesInv'
    <3>1. state' = "idle"
      BY <2>1
    <3>2. out'.todo \subseteq fate'.owed
      BY <2>2
    <3>3. fate'.owed \subseteq fate'.taken \cup fate'.missed \cup out'.todo
      BY <2>2, <2>4
    <3>4. fate'.live \subseteq {"contact", "self"} \X fate'.owed
      BY <2>2, <2>4
    <3>5. out'.live <=> \E t \in fate'.owed : <<"contact", t>> \in fate'.live
      BY <2>2, <2>4, <2>5
    <3> QED BY <3>1, <3>2, <3>3, <3>4, <3>5 DEF CopiesInv
  <2> QED BY <2>2, <2>3, <2>6 DEF SendInv
<1>9. CASE RequestMoves
  <2>1. /\ UNCHANGED <<out, fate>> /\ state # "idle"
        /\ state' \in {"pending", "ok", "failed", "abandoned"} /\ reached' \in BOOLEAN
        /\ state' = "ok" => reached'
    BY <1>t, <1>9 DEF RequestMoves, RequestStep, Reach, Succeed, Fail, Abandon, device, RequestOK, RequestInv
  <2>2. RequestOK'
    BY <1>t, <2>1 DEF RequestOK, RequestInv
  <2>3. SendTypes'
    BY <1>t, <2>1 DEF SendTypes
  <2>4. CopiesInv'
    BY <1>t, <2>1 DEF CopiesInv, Sending
  <2> QED BY <2>2, <2>3, <2>4 DEF SendInv
<1>10. ASSUME \/ \E r \in Row : Select(r)
              \/ Back
              \/ \E c \in Contact : ImportContact(c)
              \/ \E c \in Contact, d \in Device \ OwnDevice : AddLinkedDevice(c, d)
              \/ \E d \in Device : ReceiveFails(d) \/ \E r \in Row : Receive(d, r)
              \/ \E d \in Device, c \in Contact : ReceiveSync(d, c)
              \/ UNCHANGED conversation
       PROVE  UNCHANGED <<out, fate, request>>
  BY <1>10 DEF Select, Back, ImportContact, AddLinkedDevice, ReceiveFails, Receive, ReceiveSync,
               conversation, device
<1> QED BY <1>1, <1>2, <1>3, <1>4, <1>5, <1>6, <1>7, <1>8, <1>9, <1>10 DEF ConversationsNext, SendStep

\* The invariant holds in every reachable state.
LEMMA ConvInvariant == ConversationsSpec => []ConvInv
<1>1. ConvInv /\ [ConversationsNext]_conversation => ConvInv'
  BY NextTables, NextSend, ConvInvPartsPrime
<1> QED BY <1>1, ConvInitInv, PTL DEF ConversationsSpec

\* The tables and the send are always of their types: a message has one row,
\* of a conversation that has a contact, and a POST under way has a target.
THEOREM ConversationsTypeCorrect == ConversationsSpec => []ConversationsTypeOK
<1>1. ConvInv => ConversationsTypeOK
  BY DEF ConvInv
<1> QED BY <1>1, ConvInvariant, PTL

\* What is recorded of a send is true, whatever failed, was abandoned or was
\* received during it: every device had its copy or its failure, and the status
\* is "delivered" exactly when a device of the contact was handed one at once.
THEOREM RecordedTrulyHolds == ConversationsSpec => []RecordedTruly
<1>1. ConvInv => RecordedTruly
  BY DEF ConvInv, CopiesInv, RecordedTruly, Looping, Sending
<1> QED BY <1>1, ConvInvariant, PTL

-----------------------------------------------------------------------------
(* What is marked as read *)

\* A page of a conversation that is no longer than a page is all of it.
LEMMA PageIsAll ==
    ASSUME NumbersInv, NEW r, NEW p \in Page(r), NEW m \in InConversation(r),
           ~(Cardinality(InConversation(r)) > Limit)
    PROVE  m.id \in p
<1> DEFINE C == InConversation(r)
           f == [n \in C |-> n.id]
           all == {n.id : n \in C}
<1>1. IsFiniteSet(C)
  BY FS_Subset DEF NumbersInv, InConversation
<1>2. all = {f[n] : n \in C}
  OBVIOUS
<1>3. IsFiniteSet(all) /\ Cardinality(all) <= Cardinality(C)
  <2> HIDE DEF f, all, C
  <2> QED BY <1>1, <1>2, FiniteImage
<1>4. /\ Cardinality(C) \in Nat /\ Cardinality(all) \in Nat /\ Limit \in Nat
  BY <1>1, <1>3, FS_CardinalityType, ConversationsAssumption
<1>5. p \in SUBSET all /\ Cardinality(p) = IF Cardinality(all) < Limit THEN Cardinality(all) ELSE Limit
  BY DEF Page
<1>6. Cardinality(all) = Cardinality(p)
  <2> HIDE DEF all, C
  <2> QED BY <1>3, <1>4, <1>5 DEF C
<1>7. all = p
  <2> HIDE DEF all
  <2> QED BY <1>3, <1>5, <1>6, FS_Subset
<1> QED BY <1>7

\* Only opening its conversation makes a message read.
LEMMA NextReadIsShown ==
    ASSUME ConvInv, ConversationsNext, NEW m \in messages, BecomesRead(m)
    PROVE  m.id \in view' \/ Cardinality(InConversation(m.conv)) > Limit
<1> DEFINE n == [m EXCEPT !.read = TRUE]
<1>1. /\ ~m.read /\ n \in messages' /\ n # m /\ n.id = m.id
      /\ TablesOK /\ NumbersInv /\ IsFiniteSet(messages)
  <2>1. TablesOK /\ NumbersInv /\ IsFiniteSet(messages)
    BY ConvInvParts DEF TableInv, NumbersInv
  <2>2. m \in MessageRow
    BY <2>1 DEF TablesOK
  <2> QED BY <2>1, <2>2 DEF BecomesRead, MessageRow
<1> HIDE DEF n
<1>2. ASSUME NEW x, messages' \subseteq messages \cup {x}, \A k \in messages : k.id # x.id
      PROVE  FALSE
  <2>1. n \notin messages
    BY <1>1 DEF TablesOK
  <2> QED BY <1>1, <1>2, <2>1
<1>3. ASSUME NEW r \in Row, Show(r)
      PROVE  m.id \in view' \/ Cardinality(InConversation(m.conv)) > Limit
  <2>1. MarkMessagesAsRead(r) /\ view' \in Page(r)
    BY <1>3 DEF Show
  <2>2. PICK k \in messages : n = [k EXCEPT !.read = @ \/ k.conv = r] /\ n.id = k.id
    BY <1>1, <2>1, MarkKeeps
  <2>3. k = m
    BY <1>1, <2>2 DEF TablesOK
  <2>4. m.conv = r
    <3>1. m \in MessageRow
      BY <1>1 DEF TablesOK
    <3>2. n.read = TRUE /\ n.read = (m.read \/ m.conv = r)
      BY <2>2, <2>3, <3>1 DEF n, MessageRow
    <3> QED BY <1>1, <3>2
  <2>5. m \in InConversation(r)
    BY <2>4 DEF InConversation
  <2> QED BY <1>1, <2>1, <2>4, <2>5, PageIsAll
<1>4. \A k \in messages : k.id \in Nat /\ k.id <= numbers
  BY <1>1 DEF TablesOK, MessageRow, NumbersInv
<1>5. CASE UNCHANGED messages
  BY <1>1, <1>5 DEF TablesOK
<1>6. ASSUME NEW x, messages' = messages \cup {x}, x.id = numbers', numbers' = numbers + 1
      PROVE  FALSE
  BY <1>1, <1>2, <1>4, <1>6 DEF NumbersInv
<1>7. CASE SendRecord
  <2> DEFINE x == [id |-> out.id, conv |-> out.to, outgoing |-> TRUE, read |-> TRUE,
                   status |-> IF out.live THEN "delivered" ELSE "sent"]
  <2>1. messages' = messages \cup {x} /\ Sending
    BY <1>7 DEF SendRecord, Looping, Sending
  <2>2. x.id = out.id
    OBVIOUS
  <2>3. PICK y : y = x
    OBVIOUS
  <2> HIDE DEF x
  <2>4. \A k \in messages : k.id # y.id
    BY <1>1, <2>1, <2>2, <2>3 DEF NumbersInv
  <2> QED BY <1>2, <2>1, <2>3, <2>4
<1>8. ASSUME NEW d \in Device, NEW r \in Row, Receive(d, r) PROVE FALSE
  <2>1. PICK y : y = [id |-> numbers', conv |-> r, outgoing |-> FALSE, read |-> FALSE,
                      status |-> "delivered"]
    OBVIOUS
  <2>2. messages' = messages \cup {y} /\ numbers' = numbers + 1
    BY <1>8, <2>1 DEF Receive
  <2>3. y.id = numbers'
    BY <2>1
  <2> QED BY <1>6, <2>2, <2>3
<1>9. ASSUME NEW d \in Device, NEW c \in Contact, ReceiveSync(d, c) PROVE FALSE
  <2>1. PICK y : y = [id |-> numbers', conv |-> c, outgoing |-> TRUE, read |-> TRUE,
                      status |-> "delivered"]
    OBVIOUS
  <2>2. messages' = messages \cup {y} /\ numbers' = numbers + 1
    BY <1>9, <2>1 DEF ReceiveSync
  <2>3. y.id = numbers'
    BY <2>1
  <2> QED BY <1>6, <2>2, <2>3
<1>10. ASSUME NEW r \in Row, Select(r)
       PROVE  m.id \in view' \/ Cardinality(InConversation(m.conv)) > Limit
  BY <1>3, <1>10 DEF Select
<1>11. ASSUME NEW c \in Contact, ImportContact(c)
       PROVE  m.id \in view' \/ Cardinality(InConversation(m.conv)) > Limit
  BY <1>3, <1>11 DEF ImportContact, Row
<1>12. ASSUME \/ Back
              \/ \E c \in Contact, d \in Device \ OwnDevice : AddLinkedDevice(c, d)
              \/ \E d \in OwnDevice : Provision(d)
              \/ Provisioned
              \/ SendBegin \/ (SendStep /\ ~SendRecord)
              \/ \E d \in Device : ReceiveFails(d)
              \/ RequestMoves
       PROVE  UNCHANGED messages
  BY <1>12 DEF Back, AddLinkedDevice, Provision, Provisioned, SendBegin, SendStep, SendNoSession,
               SendPost, SendPosted, SendSelf, ReceiveFails, RequestMoves, device, tables
<1> QED BY <1>5, <1>7, <1>8, <1>9, <1>10, <1>11, <1>12 DEF ConversationsNext, SendStep

\* A message becomes read only when it is on the screen, or in a conversation
\* longer than a page: markMessagesAsRead touches the opened one alone, and all
\* of it, and no message takes the number of another.
THEOREM ReadIsShownHolds == ConversationsSpec => ReadIsShown
<1>1. ConvInv /\ [ConversationsNext]_conversation =>
         [\A m \in messages :
             BecomesRead(m) =>
                 m.id \in view' \/ Cardinality(InConversation(m.conv)) > Limit]_conversation
  BY NextReadIsShown
<1> QED BY <1>1, ConvInvariant, PTL DEF ConversationsSpec, ReadIsShown

=============================================================================
