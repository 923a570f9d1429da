---------------------------- MODULE RelayProofs ----------------------------
(***************************************************************************)
(* Proofs about Relay for every set of messages, sessions and keys: type   *)
(* correctness, mailbox isolation, zero retention, delivery once and in    *)
(* order, and that Relay implements BlindDrop.                             *)
(***************************************************************************)
EXTENDS Relay, SequenceTheorems, TLAPS

-----------------------------------------------------------------------------
(* What the channel operations do to the set of messages in a channel. *)

\* Appending adds exactly the new message to those in the channel.
LEMMA RangeAppend ==
    ASSUME NEW S, NEW q \in Seq(S), NEW x \in S
    PROVE  /\ Append(q, x) \in Seq(S)
           /\ Range(Append(q, x)) = Range(q) \cup {x}
<1>1. /\ Append(q, x) \in Seq(S)
      /\ DOMAIN q = 1..Len(q)
      /\ Len(q) \in Nat
      /\ DOMAIN Append(q, x) = 1..(Len(q) + 1)
  OBVIOUS
<1>2. /\ \A i \in 1..Len(q) : Append(q, x)[i] = q[i]
      /\ Append(q, x)[Len(q) + 1] = x
  OBVIOUS
<1>3. 1..(Len(q) + 1) = 1..Len(q) \cup {Len(q) + 1}
  BY <1>1
<1> QED BY <1>1, <1>2, <1>3 DEF Range

\* Taking the head leaves no message that was not there.
LEMMA RangeTail ==
    ASSUME NEW S, NEW q \in Seq(S), q # <<>>
    PROVE  /\ Head(q) \in Range(q)
           /\ Range(Tail(q)) \subseteq Range(q)
           /\ Tail(q) \in Seq(S)
           /\ Head(q) \in S
  BY DEF Range

\* Every element of a sequence over S is in S; the empty one has none.
LEMMA RangeType ==
    ASSUME NEW S, NEW q \in Seq(S)
    PROVE  Range(q) \subseteq S /\ Range(<<>>) = {}
  BY DEF Range

-----------------------------------------------------------------------------
(* Type correctness *)

\* The initial state is well typed.
LEMMA InitTypeOK == Init => TypeOK
  BY RelayAssumption DEF Init, TypeOK

\* What sessions hold, and what is on the wire, are messages.
LEMMA HeldType ==
    ASSUME TypeOK, NEW s \in Session
    PROVE  /\ Unread(s) \subseteq Msg
           /\ InFlight(s) \subseteq Msg
           /\ Holds(s) \subseteq Msg
<1>1. sent[s] \in Seq(Msg) /\ got[s] \in Nat /\ chan[s] \in Seq(Msg) /\ outbox[s] \subseteq Msg
  BY DEF TypeOK
<1>2. \A i \in (got[s] + 1)..Len(sent[s]) : sent[s][i] \in Msg
  BY <1>1
<1>3. Unread(s) \subseteq Msg
  BY <1>2 DEF Unread
<1>4. Range(chan[s]) \subseteq Msg
  BY <1>1, RangeType
<1> QED BY <1>1, <1>3, <1>4 DEF InFlight, Holds

\* Whatever a session carries is a message.
LEMMA CarriedType ==
    ASSUME TypeOK, NEW s \in Session
    PROVE  Carried(s) \subseteq Msg
  BY HeldType, RangeType DEF TypeOK, Carried

\* The same, in the state after a step.
LEMMA CarriedTypePrime ==
    ASSUME TypeOK', NEW s \in Session
    PROVE  Carried(s)' \subseteq Msg
<1>1. sent'[s] \in Seq(Msg) /\ chan'[s] \in Seq(Msg) /\ outbox'[s] \subseteq Msg
  BY DEF TypeOK
<1>2. Range(chan'[s]) \subseteq Msg /\ Range(sent'[s]) \subseteq Msg
  BY <1>1, RangeType
<1> QED BY <1>1, <1>2 DEF Carried, Holds

\* Every step of the relay, its network and its clock keeps the types.
LEMMA NextTypeOK == TypeOK /\ [Next]_vars => TypeOK'
<1> USE RelayAssumption
<1> SUFFICES ASSUME TypeOK, [Next]_vars PROVE TypeOK'
    OBVIOUS
<1>1. ASSUME NEW m \in Msg, Post(m) PROVE TypeOK'
  <2>1. CASE RejectPost(m)
    BY <2>1 DEF TypeOK, RejectPost, table, server, socket, history
  <2>2. CASE DispatchLive(m)
    <3>1. chan' \in [Session -> Seq(Msg)]
      BY <2>2, RangeAppend DEF TypeOK, DispatchLive
    <3>2. peers' \in [Address -> SUBSET Session]
      BY <2>2 DEF TypeOK, DispatchLive, Listeners
    <3>3. /\ post' \in [Msg -> {"new", "rejected", "enqueue", "live", "queued", "failed", "cancelled"}]
          /\ prior' \in [Msg -> SUBSET Msg]
      BY <2>2 DEF TypeOK, DispatchLive
    <3> QED
      BY <2>2, <3>1, <3>2, <3>3 DEF TypeOK, DispatchLive, table, socket
  <2>3. CASE Enqueue(m)
    BY <2>3 DEF TypeOK, Enqueue, Insert, table, server, socket, history
  <2>4. CASE EnqueueError(m)
    BY <2>4 DEF TypeOK, EnqueueError, table, server, socket, history
  <2>5. CASE PostCancelled(m)
    <3>1. CASE Insert(m)
      BY <2>5, <3>1 DEF TypeOK, PostCancelled, Insert, server, socket, history
    <3>2. CASE UNCHANGED table
      BY <2>5, <3>2 DEF TypeOK, PostCancelled, table, server, socket, history
    <3> QED BY <2>5, <3>1, <3>2 DEF PostCancelled
  <2> QED BY <1>1, <2>1, <2>2, <2>3, <2>4, <2>5 DEF Post
<1>2. ASSUME NEW s \in Session, Serve(s) PROVE TypeOK'
  <2>1. CASE AuthReject(s)
    BY <2>1 DEF TypeOK, AuthReject, table, server, socket, history
  <2>2. CASE Fetch(s)
    BY <2>2 DEF TypeOK, Fetch, Mailbox, table, server, socket, history
  <2>3. CASE FetchError(s)
    BY <2>3 DEF TypeOK, FetchError, table, server, socket, history
  <2>4. CASE DrainSend(s)
    BY <2>4 DEF TypeOK, DrainSend, Write, table, server, socket, history
  <2>5. CASE DrainFail(s)
    BY <2>5 DEF TypeOK, DrainFail, table, server, socket, history
  <2>6. CASE Subscribe(s)
    BY <2>6 DEF TypeOK, Subscribe, table, server, socket, history
  <2>7. CASE LiveSend(s)
    <3>1. chan[s] \in Seq(Msg) /\ chan[s] # <<>> /\ sent[s] \in Seq(Msg)
      BY <2>7 DEF TypeOK, LiveSend
    <3>2. Tail(chan[s]) \in Seq(Msg) /\ Head(chan[s]) \in Msg
      BY <3>1, RangeTail
    <3>3. Append(sent[s], Head(chan[s])) \in Seq(Msg)
      BY <3>1, <3>2, RangeAppend
    <3> QED BY <2>7, <3>2, <3>3 DEF TypeOK, LiveSend, Write, table
  <2>8. CASE LiveEnd(s)
    BY <2>8, RangeType DEF TypeOK, LiveEnd, table, server, socket, history
  <2> QED BY <1>2, <2>1, <2>2, <2>3, <2>4, <2>5, <2>6, <2>7, <2>8 DEF Serve
<1>3. ASSUME NEW s \in Session, ClientRead(s) PROVE TypeOK'
  <2>1. got' \in [Session -> Nat]
    BY <1>3, SMTT(30) DEF TypeOK, ClientRead
  <2> QED BY <1>3, <2>1 DEF TypeOK, ClientRead, table, server, history
<1>4. ASSUME NEW s \in Session, ConnBreak(s) PROVE TypeOK'
  BY <1>4, HeldType DEF TypeOK, ConnBreak, table, server
<1>5. ASSUME NEW s \in Session, NEW k \in Key, Connect(s, k) PROVE TypeOK'
  BY <1>5 DEF TypeOK, Connect, table, server, socket, history
<1>6. ASSUME NEW s \in Session, NEW k \in Key,
             NEW sig \in [by : Key, over : Session], AuthOk(s, k, sig)
      PROVE  TypeOK'
  BY <1>6 DEF TypeOK, AuthOk, table, server, socket, history
<1>7. CASE Tick
  BY <1>7 DEF TypeOK, Tick, table, server, socket, history
<1>8. CASE Cleanup
  BY <1>8 DEF TypeOK, Cleanup, Expired, table, server, socket, history
<1>9. CASE Crash
  <2>1. lost' \subseteq Msg
    BY <1>9, HeldType DEF TypeOK, Crash
  <2>2. <<>> \in Seq(Msg)
    OBVIOUS
  <2> QED BY <1>9, <2>1, <2>2 DEF TypeOK, Crash, table
<1>10. CASE UNCHANGED vars
  BY <1>10 DEF TypeOK, vars, table, server, socket, history
<1> QED
  BY <1>1, <1>2, <1>3, <1>4, <1>5, <1>6, <1>7, <1>8, <1>9, <1>10 DEF Next

\* The relay's variables always have their types, for all constants.
THEOREM TypeCorrect == Spec => []TypeOK
  BY InitTypeOK, NextTypeOK, PTL DEF Spec

-----------------------------------------------------------------------------
(* What one step can do to the messages that sessions carry *)

\* A step puts m into the channel of s: dispatch_live found s listening.
Dispatched(s, m) ==
    post[m] = "new" /\ post'[m] = "live" /\ s \in peers[To[m]] /\ pc[s] = "live"

\* A step moves m from the table to s: s fetched its mailbox.
Fetched(s, m) ==
    pc[s] = "fetch" /\ m \in db /\ m \notin db' /\ To[m] = addr[s]

\* The effects of a step that the two safety proofs rest on.
StepEffect ==
    /\ \A s \in Session : \A m \in Carried(s)' \ Carried(s) : Dispatched(s, m) \/ Fetched(s, m)
    /\ \A m \in lost' \ lost : \E s \in Session : m \in Carried(s)
    /\ purged' \subseteq purged \cup (db \ db')
    /\ \A m \in db' \ db : post[m] = "enqueue" /\ post'[m] \in {"queued", "cancelled"}
    /\ \A m \in Msg : post'[m] \in Pending => post[m] \in Pending
    /\ \A s \in Session : pc[s] # "idle" => client'[s] = client[s]

\* A step that leaves sessions, sockets and history alone has a small effect.
LEMMA QuietEffect ==
    ASSUME TypeOK, UNCHANGED <<outbox, chan, sent>>, UNCHANGED <<lost>>,
           \A s \in Session : pc[s] # "idle" => client'[s] = client[s],
           purged' \subseteq purged \cup (db \ db'),
           \A m \in db' \ db : post[m] = "enqueue" /\ post'[m] \in {"queued", "cancelled"},
           \A m \in Msg : post'[m] \in Pending => post[m] \in Pending
    PROVE  StepEffect
  BY DEF StepEffect, Carried, Holds

\* Writing m to the socket of s adds m to what s carries, if it was not there.
LEMMA WriteEffect ==
    ASSUME TypeOK, NEW s \in Session, NEW m \in Msg, Write(s, m)
    PROVE  /\ Range(sent'[s]) = Range(sent[s]) \cup {m}
           /\ \A r \in Session \ {s} : sent'[r] = sent[r]
           /\ lost' \subseteq lost \cup {m}
           /\ client' = client /\ purged' = purged
<1>1. sent[s] \in Seq(Msg) /\ sent'[s] = Append(sent[s], m)
  BY DEF TypeOK, Write
<1>2. Range(sent'[s]) = Range(sent[s]) \cup {m}
  BY <1>1, RangeAppend
<1> QED BY <1>2 DEF TypeOK, Write

\* Every step of the relay has only these effects.
LEMMA NextEffect == TypeOK /\ [Next]_vars => StepEffect
<1> USE RelayAssumption
<1> SUFFICES ASSUME TypeOK, [Next]_vars PROVE StepEffect
    OBVIOUS
<1>1. ASSUME NEW m \in Msg, Post(m) PROVE StepEffect
  <2>1. CASE RejectPost(m)
    BY <2>1, QuietEffect DEF TypeOK, RejectPost, Pending, table, server, socket, history
  <2>2. CASE DispatchLive(m)
    <3> DEFINE live == Listeners(To[m])
    <3>1. \A s \in Session \ live : Carried(s)' = Carried(s)
      BY <2>2 DEF DispatchLive, Carried, Holds, socket
    <3>2. ASSUME NEW s \in live PROVE Carried(s)' = Carried(s) \cup {m}
      <4>1. s \in Session /\ chan[s] \in Seq(Msg)
        BY <3>2 DEF TypeOK, Listeners
      <4>2. Range(chan'[s]) = Range(chan[s]) \cup {m}
        BY <2>2, <3>2, <4>1, RangeAppend DEF DispatchLive
      <4> QED BY <2>2, <4>2 DEF DispatchLive, Carried, Holds, socket
    <3>3. \A s \in live : Dispatched(s, m)
      BY <2>2 DEF DispatchLive, Dispatched, Listeners, RxOpen, TypeOK
    <3>4. \A n \in Msg : post'[n] \in Pending => post[n] \in Pending
      BY <2>2 DEF DispatchLive, TypeOK, Pending
    <3>5. UNCHANGED <<lost, purged, db, client>>
      BY <2>2 DEF DispatchLive, table, socket
    <3> HIDE DEF live
    <3> QED BY <3>1, <3>2, <3>3, <3>4, <3>5 DEF StepEffect
  <2>3. CASE Enqueue(m)
    BY <2>3, QuietEffect DEF TypeOK, Enqueue, Insert, Pending, server, socket, history
  <2>4. CASE EnqueueError(m)
    BY <2>4, QuietEffect DEF TypeOK, EnqueueError, Pending, table, server, socket, history
  <2>5. CASE PostCancelled(m)
    BY <2>5, QuietEffect, SMTT(30) DEF TypeOK, PostCancelled, Insert, Pending, table, server, socket, history
  <2> QED BY <1>1, <2>1, <2>2, <2>3, <2>4, <2>5 DEF Post
<1>2. ASSUME NEW s \in Session, Serve(s) PROVE StepEffect
  <2>1. CASE AuthReject(s)
    BY <2>1, QuietEffect DEF TypeOK, AuthReject, table, server, socket, history
  <2>2. CASE Fetch(s)
    <3>1. \A r \in Session \ {s} : Carried(r)' = Carried(r)
      BY <2>2 DEF Fetch, TypeOK, Carried, Holds, socket
    <3>2. \A m \in Carried(s)' \ Carried(s) : Fetched(s, m)
      BY <2>2 DEF Fetch, TypeOK, Carried, Holds, Fetched, Mailbox, socket
    <3> QED BY <2>2, <3>1, <3>2 DEF Fetch, StepEffect, socket, history
  <2>3. CASE FetchError(s)
    BY <2>3, QuietEffect DEF TypeOK, FetchError, table, server, socket, history
  <2>4. CASE DrainSend(s)
    <3>1. PICK m \in outbox[s] : /\ outbox' = [outbox EXCEPT ![s] = @ \ {m}]
                                 /\ Write(s, m)
      BY <2>4 DEF DrainSend
    <3>2. m \in Msg
      BY DEF TypeOK
    <3>3. /\ Range(sent'[s]) = Range(sent[s]) \cup {m}
          /\ \A r \in Session \ {s} : sent'[r] = sent[r]
          /\ lost' \subseteq lost \cup {m}
          /\ client' = client /\ purged' = purged
      BY <3>1, <3>2, WriteEffect
    <3>4. \A r \in Session : Carried(r)' \subseteq Carried(r)
      BY <2>4, <3>1, <3>3 DEF DrainSend, TypeOK, Carried, Holds
    <3>5. m \in Carried(s)
      BY DEF Carried, Holds
    <3> QED BY <2>4, <3>3, <3>4, <3>5 DEF DrainSend, StepEffect, table
  <2>5. CASE DrainFail(s)
    <3>1. \A r \in Session : Carried(r)' \subseteq Carried(r)
      BY <2>5 DEF DrainFail, TypeOK, Carried, Holds, socket
    <3>2. outbox[s] \subseteq Carried(s)
      BY DEF Carried, Holds
    <3> QED BY <2>5, <3>1, <3>2 DEF DrainFail, StepEffect, table, socket
  <2>6. CASE Subscribe(s)
    BY <2>6, QuietEffect DEF TypeOK, Subscribe, table, server, socket, history
  <2>7. CASE LiveSend(s)
    <3>1. chan[s] \in Seq(Msg) /\ chan[s] # <<>>
      BY <2>7 DEF LiveSend, TypeOK
    <3>2. /\ Head(chan[s]) \in Range(chan[s])
          /\ Range(Tail(chan[s])) \subseteq Range(chan[s])
          /\ Head(chan[s]) \in Msg
      BY <3>1, RangeTail
    <3>3. /\ Range(sent'[s]) = Range(sent[s]) \cup {Head(chan[s])}
          /\ \A r \in Session \ {s} : sent'[r] = sent[r]
          /\ lost' \subseteq lost \cup {Head(chan[s])}
          /\ client' = client /\ purged' = purged
      BY <2>7, <3>2, WriteEffect DEF LiveSend
    <3>4. /\ chan'[s] = Tail(chan[s])
          /\ \A r \in Session \ {s} : chan'[r] = chan[r]
      BY <2>7 DEF LiveSend, TypeOK
    <3>5. \A r \in Session : Carried(r)' \subseteq Carried(r)
      BY <2>7, <3>2, <3>3, <3>4 DEF LiveSend, Carried, Holds
    <3>6. Head(chan[s]) \in Carried(s)
      BY <3>2 DEF Carried, Holds
    <3> QED BY <2>7, <3>3, <3>5, <3>6 DEF LiveSend, StepEffect, table
  <2>8. CASE LiveEnd(s)
    <3>1. Range(chan'[s]) = {} /\ \A r \in Session \ {s} : chan'[r] = chan[r]
      BY <2>8, RangeType DEF LiveEnd, TypeOK
    <3>2. \A r \in Session : Carried(r)' \subseteq Carried(r)
      BY <2>8, <3>1 DEF LiveEnd, Carried, Holds, socket
    <3>3. Range(chan[s]) \subseteq Carried(s)
      BY DEF Carried, Holds
    <3> QED BY <2>8, <3>2, <3>3 DEF LiveEnd, StepEffect, table, socket
  <2> QED BY <1>2, <2>1, <2>2, <2>3, <2>4, <2>5, <2>6, <2>7, <2>8 DEF Serve
<1>3. ASSUME NEW s \in Session, ClientRead(s) PROVE StepEffect
  BY <1>3, QuietEffect DEF ClientRead, table, server, history
<1>4. ASSUME NEW s \in Session, ConnBreak(s) PROVE StepEffect
  <2>1. Unread(s) \subseteq Carried(s)
    <3>1. sent[s] \in Seq(Msg) /\ got[s] \in Nat
      BY DEF TypeOK
    <3>2. Unread(s) \subseteq Range(sent[s])
      BY <3>1 DEF Unread, Range
    <3> QED BY <3>2 DEF Carried
  <2>2. \A r \in Session : Carried(r)' = Carried(r)
    BY <1>4 DEF ConnBreak, Carried, Holds, server
  <2> QED BY <1>4, <2>1, <2>2 DEF ConnBreak, StepEffect, table
<1>5. ASSUME NEW s \in Session, NEW k \in Key, Connect(s, k) PROVE StepEffect
  BY <1>5, QuietEffect DEF TypeOK, Connect, table, server, socket, history
<1>6. ASSUME NEW s \in Session, NEW k \in Key,
             NEW sig \in [by : Key, over : Session], AuthOk(s, k, sig)
      PROVE  StepEffect
  BY <1>6, QuietEffect DEF AuthOk, table, server, socket, history
<1>7. CASE Tick
  BY <1>7, QuietEffect DEF Tick, table, server, socket, history
<1>8. CASE Cleanup
  BY <1>8, QuietEffect DEF Cleanup, Expired, server, socket
<1>9. CASE Crash
  <2>1. \A s \in Session : Range(chan'[s]) = {}
    <3>1. \A s \in Session : chan'[s] = <<>>
      BY <1>9 DEF Crash
    <3>2. Range(<<>>) = {}
      BY DEF Range
    <3> QED BY <3>1, <3>2, Zenon
  <2>2. \A s \in Session : Carried(s)' \subseteq Carried(s)
    <3> SUFFICES ASSUME NEW s \in Session PROVE Carried(s)' \subseteq Carried(s)
      OBVIOUS
    <3>1. outbox'[s] = {} /\ sent'[s] = sent[s]
      BY <1>9 DEF Crash
    <3> QED BY <2>1, <3>1 DEF Carried, Holds
  <2>3. \A s \in Session : Holds(s) \cup InFlight(s) \subseteq Carried(s)
    <3> SUFFICES ASSUME NEW s \in Session PROVE Unread(s) \subseteq Range(sent[s])
      BY DEF Carried, InFlight
    <3>1. sent[s] \in Seq(Msg) /\ got[s] \in Nat
      BY DEF TypeOK
    <3> QED BY <3>1 DEF Unread, Range
  <2>4. \A m \in lost' \ lost : \E s \in Session : m \in Carried(s)
    <3> SUFFICES ASSUME NEW m \in lost', m \notin lost
                 PROVE  \E s \in Session : m \in Carried(s)
      OBVIOUS
    <3>1. m \in UNION {Holds(s) \cup InFlight(s) : s \in Session}
      BY <1>9 DEF Crash
    <3>2. PICK s \in Session : m \in Holds(s) \cup InFlight(s)
      BY <3>1, Zenon
    <3> QED BY <2>3, <3>2
  <2>5. \A m \in Msg : post'[m] \in Pending => post[m] \in Pending
    BY <1>9 DEF Crash, TypeOK, Pending
  <2> QED BY <1>9, <2>2, <2>4, <2>5 DEF Crash, StepEffect, table
<1>10. CASE UNCHANGED vars
  BY <1>10, QuietEffect DEF vars, table, server, socket, history
<1> QED
  BY <1>1, <1>2, <1>3, <1>4, <1>5, <1>6, <1>7, <1>8, <1>9, <1>10 DEF Next

-----------------------------------------------------------------------------
(* Zero retention *)

\* A POST that was not dispatched or inserted has left no trace, and nothing
\* a session carried is in the table: each needs the other.
Retention == Untouched /\ ZeroRetention

\* No step hands out a message and leaves or puts it in the table.
LEMMA NextRetention == TypeOK /\ Retention /\ [Next]_vars => Retention'
<1> SUFFICES ASSUME TypeOK, Retention, [Next]_vars PROVE Retention'
    OBVIOUS
<1>1. StepEffect /\ TypeOK'
  BY NextEffect, NextTypeOK
<1>2. Untouched'
  <2> SUFFICES ASSUME NEW m \in Msg, post'[m] \in Pending
               PROVE  /\ m \notin db' \cup lost' \cup purged'
                      /\ \A s \in Session : m \notin Carried(s)'
    BY DEF Untouched
  <2>1. /\ m \notin db \cup lost \cup purged
        /\ \A s \in Session : m \notin Carried(s)
    BY <1>1 DEF StepEffect, Retention, Untouched
  <2>2. m \notin db' \cup lost' \cup purged'
    BY <1>1, <2>1 DEF StepEffect, Pending
  <2>3. ASSUME NEW s \in Session, m \in Carried(s)' PROVE FALSE
    BY <1>1, <2>1, <2>3 DEF StepEffect, Dispatched, Fetched, Pending
  <2> QED BY <2>2, <2>3
<1>3. ZeroRetention'
  <2> SUFFICES ASSUME NEW m \in db'
               PROVE  /\ m \notin lost' \cup purged'
                      /\ \A s \in Session : m \notin Carried(s)'
    BY DEF ZeroRetention
  <2>1. m \in Msg
    BY <1>1 DEF TypeOK
  <2>2. CASE m \in db
    <3>1. /\ m \notin lost \cup purged
          /\ \A s \in Session : m \notin Carried(s)
      BY <2>2 DEF Retention, ZeroRetention
    <3>2. post[m] # "new"
      BY <2>1, <2>2 DEF Retention, Untouched, Pending
    <3> QED BY <1>1, <3>1, <3>2 DEF StepEffect, Dispatched, Fetched
  <2>3. CASE m \notin db
    <3>1. post[m] = "enqueue"
      BY <1>1, <2>3 DEF StepEffect
    <3>2. /\ m \notin lost \cup purged
          /\ \A s \in Session : m \notin Carried(s)
      BY <2>1, <3>1 DEF Retention, Untouched, Pending
    <3> QED BY <1>1, <2>3, <3>1, <3>2 DEF StepEffect, Dispatched, Fetched
  <2> QED BY <2>2, <2>3
<1> QED BY <1>2, <1>3 DEF Retention

\* Initially nothing is in the table or in a session.
LEMMA InitRetention == Init => Retention
<1> SUFFICES ASSUME Init PROVE Retention
    OBVIOUS
<1>1. \A s \in Session : Carried(s) = {}
  BY DEF Init, Carried, Holds, Range
<1> QED BY <1>1 DEF Init, Retention, Untouched, ZeroRetention

\* Zero retention, for every instance: the table never holds a message that a
\* session was ever given, that was lost with one or that expired.
THEOREM ZeroRetentionHolds == Spec => []ZeroRetention
<1>1. Init => TypeOK /\ Retention
  BY InitTypeOK, InitRetention
<1>2. TypeOK /\ Retention /\ [Next]_vars => (TypeOK /\ Retention)'
  BY NextTypeOK, NextRetention
<1>3. TypeOK /\ Retention => ZeroRetention
  BY DEF Retention
<1> QED BY <1>1, <1>2, <1>3, PTL DEF Spec

-----------------------------------------------------------------------------
(* Mailbox isolation *)

\* A session that was authenticated serves the key at its other end, and is
\* registered only under that key's hash.
LEMMA NextBound == TypeOK /\ Bound /\ [Next]_vars => Bound'
<1> USE RelayAssumption
<1> SUFFICES ASSUME TypeOK, Bound, [Next]_vars PROVE Bound'
    OBVIOUS
<1>1. ASSUME NEW m \in Msg, Post(m) PROVE Bound'
  <2>1. CASE DispatchLive(m)
    <3>1. \A a \in Address : peers'[a] \subseteq peers[a]
      BY <2>1 DEF DispatchLive, TypeOK, Listeners
    <3> QED BY <2>1, <3>1 DEF DispatchLive, Bound, socket
  <2>2. CASE UNCHANGED <<server, socket>>
    BY <2>2 DEF Bound, server, socket
  <2> QED BY <1>1, <2>1, <2>2 DEF Post, RejectPost, Enqueue, EnqueueError, PostCancelled
<1>2. ASSUME NEW s \in Session, Serve(s) PROVE Bound'
  <2>1. CASE AuthReject(s)
    BY <2>1 DEF AuthReject, TypeOK, Bound
  <2>2. CASE Fetch(s)
    BY <2>2 DEF Fetch, TypeOK, Bound, socket
  <2>3. CASE FetchError(s)
    BY <2>3 DEF FetchError, TypeOK, Bound, socket
  <2>4. CASE DrainSend(s)
    BY <2>4 DEF DrainSend, Write, Bound
  <2>5. CASE DrainFail(s)
    BY <2>5 DEF DrainFail, TypeOK, Bound, socket
  <2>6. CASE Subscribe(s)
    <3>1. addr[s] \in Address
      BY <2>6 DEF Subscribe, TypeOK, Bound
    <3>2. \A a \in Address : \A r \in peers'[a] : addr[r] = a
      BY <2>6, <3>1 DEF Subscribe, TypeOK, Bound
    <3> QED BY <2>6, <3>2 DEF Subscribe, TypeOK, Bound, socket
  <2>7. CASE LiveSend(s)
    BY <2>7 DEF LiveSend, Write, Bound
  <2>8. CASE LiveEnd(s)
    BY <2>8 DEF LiveEnd, TypeOK, Bound, socket
  <2> QED BY <1>2, <2>1, <2>2, <2>3, <2>4, <2>5, <2>6, <2>7, <2>8 DEF Serve
<1>3. ASSUME NEW s \in Session, ClientRead(s) PROVE Bound'
  BY <1>3 DEF ClientRead, Bound, server
<1>4. ASSUME NEW s \in Session, ConnBreak(s) PROVE Bound'
  BY <1>4 DEF ConnBreak, Bound, server
<1>5. ASSUME NEW s \in Session, NEW k \in Key, Connect(s, k) PROVE Bound'
  BY <1>5 DEF Connect, TypeOK, Bound
<1>6. ASSUME NEW s \in Session, NEW k \in Key,
             NEW sig \in [by : Key, over : Session], AuthOk(s, k, sig)
      PROVE  Bound'
  <2>1. k = client[s]
    BY <1>6 DEF AuthOk, Signatures, Verify
  <2>2. addr[s] = NoAddress /\ \A a \in Address : s \notin peers[a]
    BY <1>6 DEF AuthOk, Bound
  <2> QED BY <1>6, <2>1, <2>2 DEF AuthOk, TypeOK, Bound, socket
<1>7. CASE Tick
  BY <1>7 DEF Tick, Bound, server, socket
<1>8. CASE Cleanup
  BY <1>8 DEF Cleanup, Bound, server, socket
<1>9. CASE Crash
  BY <1>9 DEF Crash, TypeOK, Bound
<1>10. CASE UNCHANGED vars
  BY <1>10 DEF Bound, vars, server, socket
<1> QED
  BY <1>1, <1>2, <1>3, <1>4, <1>5, <1>6, <1>7, <1>8, <1>9, <1>10 DEF Next

\* No step gives a session a message that is not its client's.
LEMMA NextIsolation ==
    TypeOK /\ Bound /\ Isolation /\ [Next]_vars => Isolation'
<1> USE RelayAssumption
<1> SUFFICES ASSUME TypeOK, Bound, Isolation, [Next]_vars,
                    NEW s \in Session, NEW m \in Carried(s)'
             PROVE  client'[s] \in Key /\ To[m] = HashOf[client'[s]]
  BY DEF Isolation
<1>1. StepEffect
  BY NextEffect
<1>2. client[s] \in Key /\ To[m] = HashOf[client[s]]
  <2>1. CASE m \in Carried(s)
    BY <2>1 DEF Isolation
  <2>2. CASE Dispatched(s, m)
    <3>1. s \in peers[To[m]] /\ pc[s] = "live"
      BY <2>2 DEF Dispatched
    <3>2. To[m] \in Address
      <4>1. TypeOK'
        BY NextTypeOK
      <4>2. m \in Msg
        BY <4>1, CarriedTypePrime
      <4> QED BY <4>2
    <3> QED BY <3>1, <3>2 DEF Bound, TypeOK
  <2>3. CASE Fetched(s, m)
    BY <2>3 DEF Fetched, Bound, TypeOK
  <2> QED BY <1>1, <2>1, <2>2, <2>3 DEF StepEffect
<1>3. pc[s] # "idle"
  BY <1>2 DEF Bound
<1> QED BY <1>1, <1>2, <1>3 DEF StepEffect

\* Mailbox isolation, for every instance: a session never carries a message
\* that is not addressed to the hash of the key at its other end.
THEOREM IsolationHolds == Spec => []Isolation
<1>1. Init => TypeOK /\ Bound /\ Isolation
  <2> SUFFICES ASSUME Init PROVE Bound /\ Isolation
    BY InitTypeOK
  <2>1. \A s \in Session : Carried(s) = {}
    BY DEF Init, Carried, Holds, Range
  <2> QED BY <2>1 DEF Init, Bound, Isolation
<1>2. TypeOK /\ Bound /\ Isolation /\ [Next]_vars => (TypeOK /\ Bound /\ Isolation)'
  BY NextTypeOK, NextBound, NextIsolation
<1> QED BY <1>1, <1>2, PTL DEF Spec

-----------------------------------------------------------------------------
(* How rows leave the table *)

\* In one step a row leaves only by expiry or to a session of its mailbox.
RowLeaves(m) ==
    ttl[m] = 0 \/ \E s \in Session : addr[s] = To[m] /\ m \in outbox'[s]

\* No step of the relay removes a row in another way.
LEMMA NextRows ==
    ASSUME TypeOK, [Next]_vars, NEW m \in db, m \notin db'
    PROVE  RowLeaves(m)
<1>1. CASE Cleanup
  BY <1>1 DEF Cleanup, Expired, RowLeaves
<1>2. ASSUME NEW s \in Session, Fetch(s) PROVE RowLeaves(m)
  BY <1>2 DEF Fetch, Mailbox, TypeOK, RowLeaves
<1>3. ASSUME NEW n \in Msg, Post(n) PROVE FALSE
  BY <1>3 DEF Post, RejectPost, DispatchLive, Enqueue, EnqueueError, PostCancelled, Insert, table
<1>4. ASSUME NEW s \in Session, Serve(s), ~Fetch(s) PROVE FALSE
  BY <1>4 DEF Serve, AuthReject, FetchError, DrainSend, DrainFail, Subscribe,
              LiveSend, LiveEnd, table
<1>5. ASSUME NEW s \in Session, ClientRead(s) \/ ConnBreak(s) PROVE FALSE
  BY <1>5 DEF ClientRead, ConnBreak, table
<1>6. ASSUME NEW s \in Session, NEW k \in Key, Connect(s, k) PROVE FALSE
  BY <1>6 DEF Connect, table
<1>7. ASSUME NEW s \in Session, NEW k \in Key,
             NEW sig \in [by : Key, over : Session], AuthOk(s, k, sig)
      PROVE  FALSE
  BY <1>7 DEF AuthOk, table
<1>8. CASE Tick \/ Crash \/ UNCHANGED vars
  BY <1>8 DEF Tick, Crash, vars, table
<1> QED
  BY <1>1, <1>2, <1>3, <1>4, <1>5, <1>6, <1>7, <1>8 DEF Next

\* No crash, failed fetch or fetch of another mailbox removes a row.
THEOREM RowsLeaveHolds == Spec => RowsLeaveOnlyTo
<1>1. TypeOK /\ [Next]_vars =>
         [\A m \in db \ db' :
             \/ ttl[m] = 0
             \/ \E s \in Session : addr[s] = To[m] /\ m \in outbox'[s]]_vars
  BY NextRows DEF RowLeaves
<1> QED BY <1>1, TypeCorrect, PTL DEF Spec, RowsLeaveOnlyTo

-----------------------------------------------------------------------------
(* Delivery: once, and in order *)

\* What a session can hold, and have written, at each of its stages.
StageOf(s) ==
    /\ pc[s] \in {"idle", "challenge", "fetch"} => sent[s] = <<>>
    /\ pc[s] # "drain" => outbox[s] = {}
    /\ pc[s] # "live" => chan[s] = <<>>
    /\ got[s] <= Len(sent[s])

Stages == \A s \in Session : StageOf(s)

\* Who has a row number: what was inserted, in the order of the INSERTs.
RowNumbers ==
    /\ \A m \in Msg : rowid[m] < nextid
    /\ \A m \in Msg : post[m] \in Pending \cup {"live"} => rowid[m] = 0
    /\ \A m \in Msg : m \in db \/ post[m] = "queued" => rowid[m] # 0
    /\ \A s \in Session : \A m \in outbox[s] : rowid[m] # 0

\* A POST that was answered before another began keeps its answer, and is the
\* first of the two in the table.
PriorInv ==
    \A m \in Msg : \A n \in prior[m] :
        /\ post[n] \in Answered
        /\ rowid[m] # 0 /\ rowid[n] # 0 => rowid[n] < rowid[m]

\* The same order in a channel, and from what was written to what is held.
HeldInOrder ==
    \A s \in Session :
        /\ \A i, j \in DOMAIN chan[s] : i < j => chan[s][j] \notin prior[chan[s][i]]
        /\ \A m \in Range(sent[s]) : \A n \in Holds(s) : n \notin prior[m]

DeliveryInv ==
    /\ TypeOK /\ Retention
    /\ Stages /\ RowNumbers /\ AtMostOnce
    /\ PriorInv /\ HeldInOrder /\ SessionFifo

\* Without duplicates a channel stays so when a new message is appended.
LEMMA InjectiveAppend ==
    ASSUME NEW S, NEW q \in Seq(S), NEW x \in S, IsInjective(q), x \notin Range(q)
    PROVE  IsInjective(Append(q, x))
<1>1. /\ DOMAIN q = 1..Len(q) /\ Len(q) \in Nat
      /\ DOMAIN Append(q, x) = 1..(Len(q) + 1)
      /\ \A i \in 1..Len(q) : Append(q, x)[i] = q[i] /\ q[i] # x
      /\ Append(q, x)[Len(q) + 1] = x
  BY LenProperties, AppendProperties DEF Range
<1>2. \A i \in 1..(Len(q) + 1) : i \in 1..Len(q) \/ i = Len(q) + 1
  BY <1>1
<1> QED BY <1>1, <1>2 DEF IsInjective

\* And so does its tail, which is the rest of it.
LEMMA InjectiveTail ==
    ASSUME NEW S, NEW q \in Seq(S), q # <<>>
    PROVE  /\ Range(q) = {Head(q)} \cup Range(Tail(q))
           /\ IsInjective(q) => IsInjective(Tail(q)) /\ Head(q) \notin Range(Tail(q))
<1> DEFINE t == Tail(q)
<1>1. /\ t \in Seq(S) /\ Len(t) \in Nat /\ Len(q) = Len(t) + 1 /\ Head(q) = q[1]
      /\ \A i \in 1..Len(t) : t[i] = q[i + 1]
      /\ DOMAIN q = 1..Len(q) /\ DOMAIN t = 1..Len(t)
  BY HeadTailProperties, LenProperties
<1> HIDE DEF t
<1>2. \A i \in 1..Len(t) : i + 1 \in 1..Len(q) /\ i + 1 # 1
  BY <1>1
<1>3. \A i \in 1..Len(q) : i = 1 \/ (i - 1 \in 1..Len(t) /\ (i - 1) + 1 = i)
  BY <1>1
<1>4. Range(q) = {Head(q)} \cup Range(t)
  <2>1. \A i \in 1..Len(q) : q[i] \in {Head(q)} \cup Range(t)
    <3> SUFFICES ASSUME NEW i \in 1..Len(q), i # 1 PROVE q[i] \in Range(t)
      BY <1>1
    <3>1. i - 1 \in 1..Len(t) /\ t[i - 1] = q[i]
      BY <1>1, <1>3
    <3> QED BY <1>1, <3>1 DEF Range
  <2>2. q[1] \in Range(q)
    BY <1>1 DEF Range
  <2>3. \A i \in 1..Len(t) : t[i] \in Range(q)
    BY <1>1, <1>2 DEF Range
  <2> QED BY <1>1, <2>1, <2>2, <2>3 DEF Range
<1>5. IsInjective(q) => IsInjective(t) /\ Head(q) \notin Range(t)
  <2> SUFFICES ASSUME IsInjective(q) PROVE IsInjective(t) /\ Head(q) \notin Range(t)
    OBVIOUS
  <2>1. 1 \in 1..Len(q)
    BY <1>1
  <2>2. \A i \in 1..Len(t) : t[i] # q[1]
    BY <1>1, <1>2, <2>1 DEF IsInjective
  <2>3. \A i, j \in 1..Len(t) : t[i] = t[j] => i + 1 = j + 1
    BY <1>1, <1>2, SMTT(30) DEF IsInjective
  <2> QED BY <1>1, <2>2, <2>3 DEF IsInjective, Range
<1> QED BY <1>4, <1>5 DEF t

\* What a step may do with the memory of a session and what it has written.
Moves(s) ==
    \/ outbox'[s] = outbox[s] /\ chan'[s] = chan[s] /\ sent'[s] = sent[s]
    \/ /\ outbox'[s] = outbox[s] /\ sent'[s] = sent[s]
       /\ \E m \in Msg : Dispatched(s, m) /\ chan'[s] = Append(chan[s], m)
    \/ /\ pc[s] = "fetch" /\ chan'[s] = chan[s] /\ sent'[s] = sent[s]
       /\ outbox'[s] = Mailbox(addr[s]) /\ db' = db \ Mailbox(addr[s])
    \/ /\ pc[s] = "drain" /\ chan'[s] = chan[s]
       /\ \E m \in outbox[s] : /\ FirstOf(s, m)
                               /\ outbox'[s] = outbox[s] \ {m}
                               /\ sent'[s] = Append(sent[s], m)
    \/ /\ pc[s] = "live" /\ chan[s] # <<>> /\ outbox'[s] = outbox[s]
       /\ chan'[s] = Tail(chan[s]) /\ sent'[s] = Append(sent[s], Head(chan[s]))
    \/ outbox'[s] = {} /\ chan'[s] = <<>> /\ sent'[s] = sent[s]

\* Only the session that fetches takes rows.
OneFetches ==
    \A s, r \in Session :
        ~(outbox'[s] \subseteq outbox[s]) /\ ~(outbox'[r] \subseteq outbox[r]) => s = r

\* What it may do with the table and the answers.
RowMoves ==
    /\ \/ db' \subseteq db /\ UNCHANGED <<rowid, nextid>>
       \/ \E m \in Msg : /\ post[m] = "enqueue" /\ post'[m] \in {"queued", "cancelled"}
                         /\ db' = db \cup {m} /\ nextid' = nextid + 1
                         /\ rowid' = [rowid EXCEPT ![m] = nextid]
    /\ \A m \in Msg :
          /\ post[m] \in Answered => post'[m] = post[m]
          /\ post'[m] \in Pending \cup {"live"} => post[m] \in Pending \cup {"live"}
          /\ post'[m] = "queued" => post[m] = "queued" \/ m \in db'
          /\ \/ prior'[m] = prior[m]
             \/ post[m] = "new" /\ prior'[m] = {n \in Msg : post[n] \in Answered}

\* A step that touches no session does nothing of the first kind.
LEMMA NoMoves ==
    ASSUME UNCHANGED <<outbox, chan, sent>>
    PROVE  (\A s \in Session : Moves(s)) /\ OneFetches
  BY DEF Moves, OneFetches

\* A step that touches no row and no answer does nothing of the second kind.
LEMMA NoRowMoves ==
    ASSUME UNCHANGED <<post, table, prior>>
    PROVE  RowMoves
  BY DEF RowMoves, table

\* Every step of the relay is of these kinds.
LEMMA NextMoves ==
    ASSUME TypeOK, Stages, [Next]_vars
    PROVE  (\A s \in Session : Moves(s)) /\ OneFetches /\ RowMoves
<1> DEFINE All == (\A s \in Session : Moves(s)) /\ OneFetches
<1>1. ASSUME NEW m \in Msg, Post(m) PROVE All /\ RowMoves
  <2>1. CASE DispatchLive(m)
    <3>1. /\ UNCHANGED <<outbox, sent>> /\ post[m] = "new"
          /\ chan' = [s \in Session |->
                        IF s \in Listeners(To[m]) THEN Append(chan[s], m) ELSE chan[s]]
          /\ post' = [post EXCEPT ![m] = IF Listeners(To[m]) # {} THEN "live" ELSE "enqueue"]
          /\ prior' = [prior EXCEPT ![m] = {n \in Msg : post[n] \in Answered}]
          /\ UNCHANGED <<db, rowid, nextid>>
      BY <2>1 DEF DispatchLive, socket, table
    <3>2. \A s \in Session : Moves(s)
      <4> SUFFICES ASSUME NEW s \in Session PROVE Moves(s)
        OBVIOUS
      <4>1. CASE s \in Listeners(To[m])
        <5>1. Dispatched(s, m)
          BY <3>1, <4>1 DEF Dispatched, Listeners, RxOpen, TypeOK
        <5> QED BY <3>1, <4>1, <5>1 DEF Moves
      <4>2. CASE s \notin Listeners(To[m])
        BY <3>1, <4>2 DEF Moves
      <4> QED BY <4>1, <4>2
    <3>3. OneFetches
      BY <3>1 DEF OneFetches
    <3>4. RowMoves
      BY <3>1 DEF RowMoves, TypeOK, Pending, Answered
    <3> QED BY <3>2, <3>3, <3>4
  <2>2. CASE RejectPost(m) \/ EnqueueError(m)
    <3>1. UNCHANGED <<outbox, chan, sent, db, rowid, nextid, prior>>
      BY <2>2 DEF RejectPost, EnqueueError, table, server, socket, history
    <3>2. post[m] \in {"new", "enqueue"} /\ \E a \in {"rejected", "failed"} : post' = [post EXCEPT ![m] = a]
      BY <2>2 DEF RejectPost, EnqueueError
    <3> QED BY <3>1, <3>2, NoMoves DEF RowMoves, TypeOK, Pending, Answered
  <2>3. CASE Enqueue(m) \/ PostCancelled(m)
    <3>1. UNCHANGED <<outbox, chan, sent, prior>> /\ post[m] = "enqueue"
      BY <2>3 DEF Enqueue, PostCancelled, server, socket, history
    <3>2. PICK a \in {"queued", "cancelled"} :
              /\ post' = [post EXCEPT ![m] = a]
              /\ Insert(m) \/ (a = "cancelled" /\ UNCHANGED table)
      BY <2>3 DEF Enqueue, PostCancelled
    <3>3. /\ \/ db' = db /\ UNCHANGED <<rowid, nextid>>
             \/ /\ db' = db \cup {m} /\ nextid' = nextid + 1
                /\ rowid' = [rowid EXCEPT ![m] = nextid]
          /\ a = "queued" => m \in db'
      BY <3>2 DEF Insert, table
    <3>4. post'[m] = a /\ \A n \in Msg \ {m} : post'[n] = post[n]
      BY <3>2 DEF TypeOK
    <3>5. RowMoves
      BY <3>1, <3>3, <3>4 DEF RowMoves, Pending, Answered
    <3> QED BY <3>1, <3>5, NoMoves
  <2> QED BY <1>1, <2>1, <2>2, <2>3 DEF Post
<1>2. ASSUME NEW s \in Session, Serve(s) PROVE All /\ RowMoves
  <2>1. RowMoves
    <3>1. CASE Fetch(s)
      BY <3>1 DEF Fetch, RowMoves, history
    <3>2. CASE ~Fetch(s)
      BY <1>2, <3>2, NoRowMoves
         DEF Serve, AuthReject, FetchError, DrainSend, DrainFail, Subscribe, LiveSend,
             LiveEnd, Write, history
    <3> QED BY <3>1, <3>2
  <2>2. CASE AuthReject(s) \/ FetchError(s) \/ Subscribe(s)
    BY <2>1, <2>2, NoMoves DEF AuthReject, FetchError, Subscribe, socket
  <2>3. CASE Fetch(s)
    <3>1. /\ pc[s] = "fetch" /\ UNCHANGED <<chan, sent>>
          /\ outbox'[s] = Mailbox(addr[s]) /\ db' = db \ Mailbox(addr[s])
          /\ \A r \in Session \ {s} : outbox'[r] = outbox[r]
      BY <2>3 DEF Fetch, TypeOK, socket
    <3> QED BY <2>1, <3>1 DEF Moves, OneFetches
  <2>4. CASE DrainSend(s)
    <3>1. PICK m \in outbox[s] : /\ FirstOf(s, m)
                                 /\ outbox' = [outbox EXCEPT ![s] = @ \ {m}]
                                 /\ Write(s, m)
      BY <2>4 DEF DrainSend
    <3>2. /\ pc[s] = "drain" /\ UNCHANGED chan /\ FirstOf(s, m)
          /\ outbox'[s] = outbox[s] \ {m} /\ sent'[s] = Append(sent[s], m)
          /\ \A r \in Session \ {s} : outbox'[r] = outbox[r] /\ sent'[r] = sent[r]
      BY <2>4, <3>1 DEF DrainSend, Write, TypeOK
    <3> QED BY <2>1, <3>2 DEF Moves, OneFetches
  <2>5. CASE LiveSend(s)
    <3>1. /\ pc[s] = "live" /\ chan[s] # <<>> /\ UNCHANGED outbox
          /\ chan'[s] = Tail(chan[s]) /\ sent'[s] = Append(sent[s], Head(chan[s]))
          /\ \A r \in Session \ {s} : chan'[r] = chan[r] /\ sent'[r] = sent[r]
      BY <2>5 DEF LiveSend, Write, TypeOK
    <3> QED BY <2>1, <3>1 DEF Moves, OneFetches
  <2>6. CASE DrainFail(s) \/ LiveEnd(s)
    <3>1. /\ UNCHANGED sent /\ outbox'[s] = {} /\ chan'[s] = <<>>
          /\ \A r \in Session \ {s} : chan'[r] = chan[r] /\ outbox'[r] = outbox[r]
      BY <2>6 DEF DrainFail, LiveEnd, TypeOK, Stages, StageOf, socket
    <3> QED BY <2>1, <3>1 DEF Moves, OneFetches
  <2> QED BY <1>2, <2>2, <2>3, <2>4, <2>5, <2>6 DEF Serve
<1>3. ASSUME NEW s \in Session,
             \/ ClientRead(s) \/ ConnBreak(s)
             \/ \E k \in Key : Connect(s, k)
             \/ \E k \in Key, sig \in [by : Key, over : Session] : AuthOk(s, k, sig)
      PROVE  All /\ RowMoves
  <2>1. UNCHANGED <<outbox, chan, sent, post, table, prior>>
    BY <1>3 DEF ClientRead, ConnBreak, Connect, AuthOk, server, socket, history
  <2> QED BY <2>1, NoMoves, NoRowMoves
<1>4. CASE Tick \/ Cleanup
  <2>1. UNCHANGED <<outbox, chan, sent, post, rowid, nextid, prior>> /\ db' \subseteq db
        /\ UNCHANGED post
    BY <1>4 DEF Tick, Cleanup, server, socket, history
  <2>2. \A m \in Msg : post[m] = "queued" => post[m] = "queued" \/ m \in db'
    OBVIOUS
  <2>3. RowMoves
    BY <2>1 DEF RowMoves
  <2> QED BY <2>1, <2>3, NoMoves
<1>5. CASE Crash
  <2>1. /\ \A s \in Session : outbox'[s] = {} /\ chan'[s] = <<>> /\ sent'[s] = sent[s]
        /\ UNCHANGED <<db, rowid, nextid, prior>>
        /\ \A m \in Msg : post'[m] = IF post[m] = "enqueue" THEN "cancelled" ELSE post[m]
    BY <1>5 DEF Crash, table
  <2> QED BY <2>1 DEF Moves, OneFetches, RowMoves, Pending, Answered
<1>6. CASE UNCHANGED vars
  <2>1. UNCHANGED <<outbox, chan, sent, post, table, prior>>
    BY <1>6 DEF vars, server, socket, history
  <2> QED BY <2>1, NoMoves, NoRowMoves
<1> QED BY <1>1, <1>2, <1>3, <1>4, <1>5, <1>6 DEF Next

\* What AtMostOnce and SessionFifo say of one session, from what it holds (o
\* and the channel q), what it wrote (w) and which POSTs came before which (p).
Once(o, q, w) ==
    /\ IsInjective(q) /\ IsInjective(w)
    /\ o \cap Range(q) = {}
    /\ (o \cup Range(q)) \cap Range(w) = {}

Rising(q, p) == \A i, j \in DOMAIN q : i < j => q[j] \notin p[q[i]]

Ordered(o, q, w, p) ==
    /\ Rising(q, p) /\ Rising(w, p)
    /\ \A m \in Range(w) : \A n \in o \cup Range(q) : n \notin p[m]

\* Nothing is out of order, or twice, in an empty sequence.
LEMMA NothingTwice ==
    ASSUME NEW p
    PROVE  Range(<<>>) = {} /\ IsInjective(<<>>) /\ Rising(<<>>, p)
  BY DEF Range, IsInjective, Rising

\* A message that came before none of those in a sequence may follow them.
LEMMA RisingAppend ==
    ASSUME NEW S, NEW q \in Seq(S), NEW x \in S, NEW p, Rising(q, p),
           \A y \in Range(q) : x \notin p[y]
    PROVE  Rising(Append(q, x), p)
<1>1. /\ DOMAIN q = 1..Len(q) /\ Len(q) \in Nat
      /\ DOMAIN Append(q, x) = 1..(Len(q) + 1)
      /\ \A i \in 1..Len(q) : Append(q, x)[i] = q[i] /\ x \notin p[q[i]]
      /\ Append(q, x)[Len(q) + 1] = x
  BY LenProperties, AppendProperties DEF Range
<1>2. \A i, j \in 1..(Len(q) + 1) : i < j => i \in 1..Len(q) /\ (j \in 1..Len(q) \/ j = Len(q) + 1)
  BY <1>1
<1> QED BY <1>1, <1>2 DEF Rising

\* What follows the head of a sequence did not come before it.
LEMMA RisingTail ==
    ASSUME NEW S, NEW q \in Seq(S), q # <<>>, NEW p, Rising(q, p)
    PROVE  Rising(Tail(q), p) /\ \A y \in Range(Tail(q)) : y \notin p[Head(q)]
<1> DEFINE t == Tail(q)
<1>1. /\ t \in Seq(S) /\ Len(t) \in Nat /\ Len(q) = Len(t) + 1 /\ Head(q) = q[1]
      /\ \A i \in 1..Len(t) : t[i] = q[i + 1]
      /\ DOMAIN q = 1..Len(q) /\ DOMAIN t = 1..Len(t)
  BY HeadTailProperties, LenProperties
<1> HIDE DEF t
<1>2. /\ 1 \in 1..Len(q)
      /\ \A i \in 1..Len(t) : i + 1 \in 1..Len(q) /\ 1 < i + 1
      /\ \A i, j \in 1..Len(t) : i < j => i + 1 < j + 1
  BY <1>1
<1>3. Rising(t, p)
  BY <1>1, <1>2, SMTT(30) DEF Rising
<1>4. \A i \in 1..Len(t) : t[i] \notin p[q[1]]
  BY <1>1, <1>2 DEF Rising
<1> QED BY <1>1, <1>3, <1>4 DEF t, Range

\* dispatch_live appends a message nobody was given to the channel.
LEMMA OrderDispatched ==
    ASSUME NEW S, NEW o \in SUBSET S, NEW q \in Seq(S), NEW w \in Seq(S), NEW x \in S, NEW p,
           Once(o, q, w), Ordered(o, q, w, p),
           x \notin o \cup Range(q) \cup Range(w),
           \A y \in Range(q) \cup Range(w) : x \notin p[y]
    PROVE  Once(o, Append(q, x), w) /\ Ordered(o, Append(q, x), w, p)
<1>1. Range(Append(q, x)) = Range(q) \cup {x}
  BY RangeAppend
<1>2. IsInjective(Append(q, x)) /\ Rising(Append(q, x), p)
  BY InjectiveAppend, RisingAppend DEF Once, Ordered
<1> QED BY <1>1, <1>2 DEF Once, Ordered

\* The session writes a row before those its POST may have come before.
LEMMA OrderDrained ==
    ASSUME NEW S, NEW o \in SUBSET S, NEW w \in Seq(S), NEW x \in o, NEW p,
           Once(o, <<>>, w), Ordered(o, <<>>, w, p),
           \A y \in o \ {x} : y \notin p[x]
    PROVE  Once(o \ {x}, <<>>, Append(w, x)) /\ Ordered(o \ {x}, <<>>, Append(w, x), p)
<1>1. Range(Append(w, x)) = Range(w) \cup {x}
  BY RangeAppend
<1>2. x \notin Range(w) /\ \A y \in Range(w) : x \notin p[y]
  BY DEF Once, Ordered
<1>3. IsInjective(Append(w, x)) /\ Rising(Append(w, x), p)
  BY <1>2, InjectiveAppend, RisingAppend DEF Once, Ordered
<1> QED BY <1>1, <1>3, NothingTwice DEF Once, Ordered

\* send_task writes the head of the channel.
LEMMA OrderSent ==
    ASSUME NEW S, NEW q \in Seq(S), q # <<>>, NEW w \in Seq(S), NEW p,
           Once({}, q, w), Ordered({}, q, w, p)
    PROVE  /\ Once({}, Tail(q), Append(w, Head(q)))
           /\ Ordered({}, Tail(q), Append(w, Head(q)), p)
<1> DEFINE x == Head(q)
           t == Tail(q)
<1>1. x \in S /\ t \in Seq(S) /\ Range(q) = {x} \cup Range(t)
  BY RangeTail, InjectiveTail
<1>2. /\ IsInjective(t) /\ x \notin Range(t)
      /\ Rising(t, p) /\ \A y \in Range(t) : y \notin p[x]
  BY InjectiveTail, RisingTail DEF Once, Ordered
<1> HIDE DEF x, t
<1>3. Range(Append(w, x)) = Range(w) \cup {x}
  BY <1>1, RangeAppend
<1>4. x \notin Range(w) /\ \A y \in Range(w) : x \notin p[y]
  BY <1>1 DEF Once, Ordered
<1>5. IsInjective(Append(w, x)) /\ Rising(Append(w, x), p)
  BY <1>1, <1>4, InjectiveAppend, RisingAppend DEF Once, Ordered
<1>6. Once({}, t, Append(w, x)) /\ Ordered({}, t, Append(w, x), p)
  BY <1>1, <1>2, <1>3, <1>4, <1>5 DEF Once, Ordered
<1> QED BY <1>6 DEF x, t

\* The order depends only on what came before the messages in the sequences.
LEMMA OrderSame ==
    ASSUME NEW S, NEW o, NEW q \in Seq(S), NEW w \in Seq(S), NEW p, NEW r,
           \A y \in Range(q) \cup Range(w) : r[y] = p[y],
           Ordered(o, q, w, p)
    PROVE  Ordered(o, q, w, r)
<1>1. /\ \A i \in DOMAIN q : r[q[i]] = p[q[i]]
      /\ \A i \in DOMAIN w : r[w[i]] = p[w[i]]
  BY DEF Range
<1> QED BY <1>1 DEF Ordered, Rising

\* The three invariants, session by session.
LEMMA OrderSplit ==
    (\A s \in Session :
        Once(outbox[s], chan[s], sent[s]) /\ Ordered(outbox[s], chan[s], sent[s], prior))
    <=> /\ HeldInOrder /\ SessionFifo
        /\ \A s \in Session :
              /\ IsInjective(chan[s]) /\ IsInjective(sent[s])
              /\ outbox[s] \cap Range(chan[s]) = {}
              /\ Holds(s) \cap Range(sent[s]) = {}
  BY DEF Once, Ordered, Rising, HeldInOrder, SessionFifo, Holds

\* The same, in the state after a step.
LEMMA OrderSplitPrime ==
    (\A s \in Session :
        Once(outbox'[s], chan'[s], sent'[s]) /\ Ordered(outbox'[s], chan'[s], sent'[s], prior'))
    <=> /\ HeldInOrder' /\ SessionFifo'
        /\ \A s \in Session :
              /\ IsInjective(chan'[s]) /\ IsInjective(sent'[s])
              /\ outbox'[s] \cap Range(chan'[s]) = {}
              /\ Holds(s)' \cap Range(sent'[s]) = {}
  BY DEF Once, Ordered, Rising, HeldInOrder, SessionFifo, Holds

\* A message that some session carries was answered or cut off: a step changes
\* neither its row number nor what came before it.
LEMMA CarriedKept ==
    ASSUME TypeOK, Retention, RowMoves, NEW s \in Session, NEW m \in Carried(s)
    PROVE  /\ m \in Msg /\ post[m] \notin Pending
           /\ prior'[m] = prior[m] /\ rowid'[m] = rowid[m]
<1>1. m \in Msg
  BY CarriedType
<1>2. post[m] \notin Pending
  BY <1>1 DEF Retention, Untouched
<1>3. post[m] # "new" /\ post[m] # "enqueue"
  BY <1>2 DEF Pending
<1>4. prior'[m] = prior[m]
  BY <1>1, <1>3 DEF RowMoves
<1>5. rowid'[m] = rowid[m]
  BY <1>1, <1>3 DEF RowMoves, TypeOK
<1> QED BY <1>1, <1>2, <1>4, <1>5

\* One step leaves what a session holds and wrote without duplicates, in order.
LEMMA NextOrder ==
    ASSUME TypeOK, Retention, Stages, RowNumbers, PriorInv, RowMoves,
           NEW s \in Session, Moves(s),
           Once(outbox[s], chan[s], sent[s]), Ordered(outbox[s], chan[s], sent[s], prior)
    PROVE  /\ Once(outbox'[s], chan'[s], sent'[s])
           /\ Ordered(outbox'[s], chan'[s], sent'[s], prior')
<1> DEFINE o == outbox[s]
           q == chan[s]
           w == sent[s]
<1>1. o \in SUBSET Msg /\ q \in Seq(Msg) /\ w \in Seq(Msg)
  BY DEF TypeOK
<1>k. \A y \in Carried(s) : prior'[y] = prior[y]
  BY CarriedKept
<1>2. Once(o, q, w) /\ Ordered(o, q, w, prior')
  <2>1. \A y \in Range(q) \cup Range(w) : prior'[y] = prior[y]
    BY <1>k DEF Carried, Holds
  <2>2. Once(o, q, w) /\ Ordered(o, q, w, prior)
    OBVIOUS
  <2> HIDE DEF o, q, w
  <2> QED BY <1>1, <2>1, <2>2, OrderSame
<1>s. /\ pc[s] \in {"idle", "challenge", "fetch"} => w = <<>>
      /\ pc[s] # "drain" => o = {}
      /\ pc[s] # "live" => q = <<>>
  BY DEF Stages, StageOf
<1>c. Carried(s) = o \cup Range(q) \cup Range(w)
  BY DEF Carried, Holds
<1>o. /\ outbox[s] = o /\ chan[s] = q /\ sent[s] = w
  OBVIOUS
<1> HIDE DEF o, q, w
<1>3. CASE outbox'[s] = o /\ chan'[s] = q /\ sent'[s] = w
  BY <1>2, <1>3
<1>4. CASE /\ outbox'[s] = o /\ sent'[s] = w
           /\ \E m \in Msg : Dispatched(s, m) /\ chan'[s] = Append(q, m)
  <2>1. PICK m \in Msg : Dispatched(s, m) /\ chan'[s] = Append(q, m)
    BY <1>4
  <2>2. post[m] = "new"
    BY <2>1 DEF Dispatched
  <2>3. m \notin Carried(s)
    BY <2>2 DEF Retention, Untouched, Pending
  <2>4. \A y \in Carried(s) : m \notin prior'[y]
    BY <1>k, <2>2, CarriedType DEF PriorInv, Answered
  <2> QED BY <1>1, <1>2, <1>4, <1>c, <2>1, <2>3, <2>4, OrderDispatched
<1>5. CASE pc[s] = "fetch" /\ chan'[s] = q /\ sent'[s] = w
  <2>1. chan'[s] = <<>> /\ sent'[s] = <<>>
    BY <1>5, <1>s
  <2> HIDE <1>5
  <2> QED BY <2>1, NothingTwice DEF Once, Ordered
<1>6. CASE /\ pc[s] = "drain" /\ chan'[s] = q
           /\ \E m \in o : /\ FirstOf(s, m)
                           /\ outbox'[s] = o \ {m} /\ sent'[s] = Append(w, m)
  <2>1. PICK m \in o : /\ FirstOf(s, m)
                       /\ outbox'[s] = o \ {m} /\ sent'[s] = Append(w, m)
    BY <1>6
  <2>2. q = <<>>
    BY <1>6, <1>s
  <2>3. \A n \in o \ {m} : n \notin prior'[m]
    <3>1. m \in Msg /\ \A n \in o : n \in Msg /\ rowid[n] \in Nat /\ rowid[n] # 0 /\ rowid[m] <= rowid[n]
      BY <1>1, <1>o, <2>1 DEF RowNumbers, TypeOK, FirstOf
    <3>2. \A n \in prior[m] : rowid[m] # 0 /\ rowid[n] # 0 => rowid[n] < rowid[m]
      BY <3>1 DEF PriorInv
    <3>3. prior'[m] = prior[m]
      BY <1>c, <1>k, <2>1
    <3> QED BY <2>1, <3>1, <3>2, <3>3
  <2>4. /\ Once(o \ {m}, <<>>, Append(w, m))
        /\ Ordered(o \ {m}, <<>>, Append(w, m), prior')
    <3>1. Once(o, <<>>, w) /\ Ordered(o, <<>>, w, prior')
      BY <1>2, <2>2
    <3> QED BY <1>1, <2>3, <3>1, OrderDrained
  <2> QED BY <1>6, <2>1, <2>2, <2>4
<1>7. CASE /\ pc[s] = "live" /\ q # <<>> /\ outbox'[s] = o
           /\ chan'[s] = Tail(q) /\ sent'[s] = Append(w, Head(q))
  <2>1. o = {}
    BY <1>7, <1>s
  <2> QED BY <1>1, <1>2, <1>7, <2>1, OrderSent
<1>8. CASE outbox'[s] = {} /\ chan'[s] = <<>> /\ sent'[s] = w
  BY <1>2, <1>8, NothingTwice DEF Once, Ordered
<1> QED BY <1>3, <1>4, <1>5, <1>6, <1>7, <1>8, <1>o DEF Moves

\* A message new to a session was dispatched to it, or taken into its memory.
LEMMA FetchedGrows ==
    ASSUME TypeOK, NEW s \in Session, Moves(s), NEW m \in Carried(s)',
           m \notin Carried(s), ~Dispatched(s, m)
    PROVE  m \in outbox'[s] /\ m \notin outbox[s]
<1> DEFINE o == outbox[s]
           q == chan[s]
           w == sent[s]
<1>1. o \in SUBSET Msg /\ q \in Seq(Msg) /\ w \in Seq(Msg)
  BY DEF TypeOK
<1>2. /\ m \notin o /\ m \notin Range(q) /\ m \notin Range(w)
      /\ m \in outbox'[s] \/ m \in Range(chan'[s]) \/ m \in Range(sent'[s])
  BY DEF Carried, Holds
<1>3. \A n \in Msg : Dispatched(s, n) => Range(Append(q, n)) = Range(q) \cup {n}
  BY <1>1, RangeAppend
<1>4. \A n \in o : Range(Append(w, n)) = Range(w) \cup {n}
  BY <1>1, RangeAppend
<1>5. q # <<>> => /\ Range(Append(w, Head(q))) = Range(w) \cup {Head(q)}
                  /\ Head(q) \in Range(q) /\ Range(Tail(q)) \subseteq Range(q)
  BY <1>1, RangeAppend, RangeTail
<1>6. Range(<<>>) = {}
  BY DEF Range
<1>o. outbox[s] = o /\ chan[s] = q /\ sent[s] = w
  OBVIOUS
<1> HIDE DEF o, q, w
<1> SUFFICES ASSUME m \notin outbox'[s] PROVE FALSE
  BY <1>2, <1>o
<1>7. m \in Range(chan'[s]) \/ m \in Range(sent'[s])
  BY <1>2
<1>8. ASSUME NEW n \in Msg, Dispatched(s, n), chan'[s] = Append(q, n), sent'[s] = w PROVE FALSE
  BY <1>2, <1>3, <1>7, <1>8
<1>9. ASSUME NEW n \in o, chan'[s] = q, sent'[s] = Append(w, n) PROVE FALSE
  BY <1>2, <1>4, <1>7, <1>9
<1>10. ASSUME q # <<>>, chan'[s] = Tail(q), sent'[s] = Append(w, Head(q)) PROVE FALSE
  BY <1>2, <1>5, <1>7, <1>10
<1>11. ASSUME chan'[s] = q \/ chan'[s] = <<>>, sent'[s] = w PROVE FALSE
  BY <1>2, <1>6, <1>7, <1>11
<1> QED BY <1>8, <1>9, <1>10, <1>11, <1>o DEF Moves

\* No step shows a session a message that another session had from the table.
LEMMA NextOneSession ==
    ASSUME TypeOK, TypeOK', Retention, RowNumbers, RowMoves, StepEffect, OneFetches,
           \A s \in Session : Moves(s),
           \A s \in Session, r \in Session : r # s =>
              \A m \in Carried(s) : rowid[m] # 0 => m \notin Carried(r),
           NEW s \in Session, NEW r \in Session \ {s},
           NEW m \in Carried(s)', rowid'[m] # 0
    PROVE  m \notin Carried(r)'
<1> SUFFICES ASSUME m \in Carried(r)' PROVE FALSE
  OBVIOUS
<1>0. m \in Msg
  BY CarriedTypePrime
<1>1. CASE m \in Carried(s) /\ m \in Carried(r)
  <2>1. rowid[m] # 0
    BY <1>1, CarriedKept
  <2> QED BY <1>1, <2>1
<1>2. CASE post[m] = "new"
  <2>1. rowid[m] = 0 /\ \A t \in Session : m \notin Carried(t)
    BY <1>0, <1>2 DEF RowNumbers, Retention, Untouched, Pending
  <2>2. rowid'[m] = rowid[m]
    BY <1>0, <1>2, SMTT(30) DEF RowMoves, TypeOK
  <2> QED BY <2>1, <2>2
<1>3. CASE post[m] # "new" /\ ~(m \in Carried(s) /\ m \in Carried(r))
  <2>1. \A t \in Session : m \in Carried(t)' \ Carried(t) => Fetched(t, m)
    BY <1>3 DEF StepEffect, Dispatched
  <2>2. m \in db
    BY <1>3, <2>1 DEF Fetched
  <2>3. \A t \in Session : m \notin Carried(t)
    BY <2>2 DEF Retention, ZeroRetention
  <2>4. \A t \in {s, r} : m \in outbox'[t] /\ m \notin outbox[t]
    BY <1>3, <2>3, FetchedGrows DEF Dispatched
  <2> QED BY <2>4 DEF OneFetches
<1> QED BY <1>1, <1>2, <1>3

\* The order of the INSERTs is kept: AUTOINCREMENT numbers only grow.
LEMMA NextRowNumbers ==
    ASSUME TypeOK, TypeOK', Retention, RowNumbers, PriorInv, RowMoves,
           \A s \in Session : Moves(s)
    PROVE  RowNumbers' /\ PriorInv'
<1>t. nextid \in Nat \ {0} /\ rowid \in [Msg -> Nat] /\ db \subseteq Msg /\ prior \in [Msg -> SUBSET Msg]
  BY DEF TypeOK
<1>1. CASE db' \subseteq db /\ UNCHANGED <<rowid, nextid>>
  <2>1. \A m \in Msg : rowid'[m] < nextid'
    BY <1>1 DEF RowNumbers
  <2>2. \A m \in Msg : post'[m] \in Pending \cup {"live"} => rowid'[m] = 0
    BY <1>1 DEF RowNumbers, RowMoves
  <2>3. \A m \in Msg : m \in db' \/ post'[m] = "queued" => rowid'[m] # 0
    BY <1>1 DEF RowNumbers, RowMoves
  <2>4. \A s \in Session : \A m \in outbox'[s] : rowid'[m] # 0
    BY <1>1, <1>t DEF RowNumbers, Moves, Mailbox
  <2>5. \A m \in Msg : \A n \in prior'[m] :
           /\ post'[n] \in Answered
           /\ rowid'[m] # 0 /\ rowid'[n] # 0 => rowid'[n] < rowid'[m]
    <3> SUFFICES ASSUME NEW m \in Msg, NEW n \in prior'[m]
                 PROVE  /\ post'[n] \in Answered
                        /\ rowid[m] # 0 /\ rowid[n] # 0 => rowid[n] < rowid[m]
      BY <1>1
    <3>1. n \in Msg
      BY DEF TypeOK
    <3>2. CASE prior'[m] = prior[m]
      BY <1>1, <3>1, <3>2 DEF PriorInv, RowMoves
    <3>3. CASE post[m] = "new" /\ prior'[m] = {k \in Msg : post[k] \in Answered}
      BY <3>1, <3>3 DEF RowMoves, RowNumbers, Pending
    <3> QED BY <3>2, <3>3 DEF RowMoves
  <2> QED BY <2>1, <2>2, <2>3, <2>4, <2>5 DEF RowNumbers, PriorInv
<1>2. ASSUME NEW x \in Msg, post[x] = "enqueue", post'[x] \in {"queued", "cancelled"},
             db' = db \cup {x}, nextid' = nextid + 1,
             rowid' = [rowid EXCEPT ![x] = nextid]
      PROVE  RowNumbers' /\ PriorInv'
  <2>0. rowid'[x] = nextid /\ \A m \in Msg \ {x} : rowid'[m] = rowid[m]
    BY <1>2, <1>t
  <2>1. \A m \in Msg : rowid'[m] < nextid'
    BY <1>2, <1>t, <2>0 DEF RowNumbers
  <2>2. \A m \in Msg : post'[m] \in Pending \cup {"live"} => rowid'[m] = 0
    BY <1>2, <2>0 DEF RowNumbers, RowMoves, Pending
  <2>3. \A m \in Msg : m \in db' \/ post'[m] = "queued" => rowid'[m] # 0
    BY <1>2, <1>t, <2>0 DEF RowNumbers, RowMoves
  <2>4. \A s \in Session : \A m \in outbox'[s] : rowid'[m] # 0
    <3> SUFFICES ASSUME NEW s \in Session, NEW m \in outbox'[s], m # x PROVE rowid'[m] # 0
      BY <1>t, <2>0
    <3>1. m \in Msg
      BY DEF TypeOK
    <3>2. m \in outbox[s] \/ m \in db
      BY DEF Moves, Mailbox
    <3> QED BY <2>0, <3>1, <3>2 DEF RowNumbers
  <2>5. \A m \in Msg : \A n \in prior'[m] :
           /\ post'[n] \in Answered
           /\ rowid'[m] # 0 /\ rowid'[n] # 0 => rowid'[n] < rowid'[m]
    <3> SUFFICES ASSUME NEW m \in Msg, NEW n \in prior'[m]
                 PROVE  /\ post'[n] \in Answered
                        /\ rowid'[m] # 0 /\ rowid'[n] # 0 => rowid'[n] < rowid'[m]
      OBVIOUS
    <3>1. n \in Msg
      BY DEF TypeOK
    <3>2. CASE prior'[m] = prior[m]
      <4>1. post[n] \in Answered /\ n # x
        BY <1>2, <3>2 DEF PriorInv, Answered
      <4>2. post'[n] \in Answered /\ rowid'[n] = rowid[n] /\ rowid[n] < nextid
        BY <2>0, <3>1, <4>1 DEF RowMoves, RowNumbers
      <4>3. m # x => (rowid'[m] # 0 /\ rowid'[n] # 0 => rowid'[n] < rowid'[m])
        BY <2>0, <3>2, <4>2 DEF PriorInv
      <4> QED BY <2>0, <4>2, <4>3
    <3>3. CASE post[m] = "new" /\ prior'[m] = {k \in Msg : post[k] \in Answered}
      <4>1. m # x /\ rowid'[m] = 0
        BY <1>2, <2>0, <3>3 DEF RowNumbers, Pending
      <4> QED BY <3>1, <3>3, <4>1 DEF RowMoves
    <3> QED BY <3>2, <3>3 DEF RowMoves
  <2> QED BY <2>1, <2>2, <2>3, <2>4, <2>5 DEF RowNumbers, PriorInv
<1> QED BY <1>1, <1>2 DEF RowMoves

\* A session's memory and its writes keep to its stages.
LEMMA NextStages == TypeOK /\ Stages /\ [Next]_vars => Stages'
<1> SUFFICES ASSUME TypeOK, Stages, [Next]_vars PROVE Stages'
    OBVIOUS
<1> DEFINE Same(r) == UNCHANGED <<pc[r], outbox[r], chan[r], sent[r], got[r]>>
<1>s. \A r \in Session : Same(r) => StageOf(r)'
  BY DEF Stages, StageOf
<1>l. \A r \in Session : sent[r] \in Seq(Msg) /\ Len(sent[r]) \in Nat /\ got[r] \in Nat
  BY DEF TypeOK
<1> HIDE DEF Same
<1>1. ASSUME NEW m \in Msg, Post(m) PROVE Stages'
  <2>1. CASE DispatchLive(m)
    <3>1. /\ UNCHANGED <<pc, outbox, sent, got>>
          /\ chan' = [s \in Session |->
                        IF s \in Listeners(To[m]) THEN Append(chan[s], m) ELSE chan[s]]
      BY <2>1 DEF DispatchLive, socket
    <3>2. \A r \in Session : pc[r] # "live" => chan'[r] = chan[r]
      BY <3>1 DEF Listeners, RxOpen
    <3> QED BY <3>1, <3>2 DEF Stages, StageOf
  <2>2. CASE UNCHANGED <<server, socket>>
    BY <2>2 DEF Stages, StageOf, server, socket
  <2> QED BY <1>1, <2>1, <2>2 DEF Post, RejectPost, Enqueue, EnqueueError, PostCancelled
<1>2. ASSUME NEW s \in Session, Serve(s) PROVE Stages'
  <2>1. \A r \in Session \ {s} : StageOf(r)'
    <3> SUFFICES ASSUME NEW r \in Session \ {s} PROVE Same(r)
      BY <1>s
    <3> USE <1>2 DEF Same, TypeOK, socket
    <3>1. CASE AuthReject(s)
      BY <3>1 DEF AuthReject
    <3>2. CASE Fetch(s) \/ FetchError(s) \/ Subscribe(s)
      BY <3>2 DEF Fetch, FetchError, Subscribe
    <3>3. CASE DrainSend(s)
      BY <3>3 DEF DrainSend, Write
    <3>4. CASE DrainFail(s) \/ LiveEnd(s)
      BY <3>4 DEF DrainFail, LiveEnd
    <3>5. CASE LiveSend(s)
      BY <3>5 DEF LiveSend, Write
    <3> QED BY <3>1, <3>2, <3>3, <3>4, <3>5 DEF Serve
  <2>2. StageOf(s)'
    <3>0. StageOf(s)
      BY DEF Stages
    <3>1. CASE AuthReject(s)
      BY <3>0, <3>1 DEF AuthReject, TypeOK, StageOf
    <3>2. CASE Fetch(s)
      BY <3>0, <3>2 DEF Fetch, TypeOK, StageOf, socket
    <3>3. CASE FetchError(s)
      BY <3>0, <3>3 DEF FetchError, TypeOK, StageOf, socket
    <3>4. CASE DrainSend(s)
      <4>1. PICK m \in outbox[s] : Write(s, m)
        BY <3>4 DEF DrainSend
      <4>2. m \in Msg /\ sent'[s] = Append(sent[s], m) /\ got' = got
        BY <4>1 DEF Write, TypeOK
      <4>3. Len(sent'[s]) = Len(sent[s]) + 1
        BY <1>l, <4>2
      <4>4. pc[s] = "drain" /\ pc'[s] = "drain" /\ chan' = chan
        BY <3>4 DEF DrainSend
      <4> QED BY <1>l, <3>0, <4>2, <4>3, <4>4 DEF StageOf
    <3>5. CASE DrainFail(s)
      BY <3>0, <3>5 DEF DrainFail, TypeOK, StageOf, socket
    <3>6. CASE Subscribe(s)
      BY <3>0, <3>6 DEF Subscribe, TypeOK, StageOf, socket
    <3>7. CASE LiveSend(s)
      <4>1. /\ sent'[s] = Append(sent[s], Head(chan[s])) /\ got' = got
            /\ pc[s] = "live" /\ pc' = pc /\ outbox' = outbox
        BY <3>7 DEF LiveSend, Write, TypeOK
      <4>2. Len(sent'[s]) = Len(sent[s]) + 1
        BY <1>l, <4>1
      <4> QED BY <1>l, <3>0, <4>1, <4>2 DEF StageOf
    <3>8. CASE LiveEnd(s)
      BY <3>0, <3>8 DEF LiveEnd, TypeOK, StageOf, socket
    <3> QED BY <1>2, <3>1, <3>2, <3>3, <3>4, <3>5, <3>6, <3>7, <3>8 DEF Serve
  <2> QED BY <2>1, <2>2 DEF Stages
<1>3. ASSUME NEW s \in Session, ClientRead(s) PROVE Stages'
  <2>1. /\ UNCHANGED <<pc, outbox, chan, sent>> /\ got[s] < Len(sent[s])
        /\ got' = [got EXCEPT ![s] = @ + 1]
    BY <1>3 DEF ClientRead, server
  <2>2. \A r \in Session : got'[r] <= Len(sent[r])
    BY <1>l, <2>1 DEF TypeOK, Stages, StageOf
  <2> QED BY <2>1, <2>2 DEF Stages, StageOf
<1>4. ASSUME NEW s \in Session, ConnBreak(s) PROVE Stages'
  BY <1>4 DEF ConnBreak, Stages, StageOf, server
<1>5. ASSUME NEW s \in Session, NEW k \in Key, Connect(s, k) PROVE Stages'
  BY <1>5 DEF Connect, TypeOK, Stages, StageOf
<1>6. ASSUME NEW s \in Session, NEW k \in Key,
             NEW sig \in [by : Key, over : Session], AuthOk(s, k, sig)
      PROVE  Stages'
  BY <1>6 DEF AuthOk, TypeOK, Stages, StageOf, socket
<1>7. CASE Tick \/ Cleanup
  BY <1>7 DEF Tick, Cleanup, Stages, StageOf, server, socket
<1>8. CASE Crash
  BY <1>8 DEF Crash, TypeOK, Stages, StageOf
<1>9. CASE UNCHANGED vars
  BY <1>9 DEF Stages, StageOf, vars, server, socket
<1> QED
  BY <1>1, <1>2, <1>3, <1>4, <1>5, <1>6, <1>7, <1>8, <1>9 DEF Next

\* Initially nothing was posted, inserted or handed out.
LEMMA InitDelivery == Init => DeliveryInv
<1> SUFFICES ASSUME Init PROVE DeliveryInv
    OBVIOUS
<1>1. TypeOK /\ Retention
  BY InitTypeOK, InitRetention
<1>2. Stages /\ RowNumbers /\ PriorInv
  BY DEF Init, Stages, StageOf, RowNumbers, PriorInv
<1>3. \A s \in Session : outbox[s] = {} /\ chan[s] = <<>> /\ sent[s] = <<>>
  BY DEF Init
<1>4. \A s \in Session :
         Once(outbox[s], chan[s], sent[s]) /\ Ordered(outbox[s], chan[s], sent[s], prior)
  BY <1>3, NothingTwice DEF Once, Ordered
<1>5. HeldInOrder /\ SessionFifo
  BY <1>4, OrderSplit
<1>6. AtMostOnce
  <2>1. \A m \in Msg : rowid[m] = 0
    BY DEF Init
  <2>2. \A s \in Session : \A r \in Session \ {s}, m \in Carried(s) :
           rowid[m] # 0 => m \notin Carried(r)
    BY <1>1, <2>1, CarriedType
  <2> QED BY <1>4, <2>2, OrderSplit DEF AtMostOnce
<1> QED BY <1>1, <1>2, <1>5, <1>6 DEF DeliveryInv

\* Every step keeps deliveries single and in order.
LEMMA NextDelivery == DeliveryInv /\ [Next]_vars => DeliveryInv'
<1> SUFFICES ASSUME DeliveryInv, [Next]_vars PROVE DeliveryInv'
    OBVIOUS
<1>1. /\ TypeOK /\ Retention /\ Stages /\ RowNumbers /\ AtMostOnce
      /\ PriorInv /\ HeldInOrder /\ SessionFifo
  BY DEF DeliveryInv
<1>2. TypeOK' /\ Retention' /\ Stages' /\ StepEffect
  BY <1>1, NextTypeOK, NextRetention, NextStages, NextEffect
<1>3. (\A s \in Session : Moves(s)) /\ OneFetches /\ RowMoves
  BY <1>1, NextMoves
<1>4. RowNumbers' /\ PriorInv'
  BY <1>1, <1>2, <1>3, NextRowNumbers
<1>5. \A s \in Session :
         Once(outbox[s], chan[s], sent[s]) /\ Ordered(outbox[s], chan[s], sent[s], prior)
  BY <1>1, OrderSplit DEF AtMostOnce
<1>6. \A s \in Session :
         /\ Once(outbox'[s], chan'[s], sent'[s])
         /\ Ordered(outbox'[s], chan'[s], sent'[s], prior')
  BY <1>1, <1>3, <1>5, NextOrder
<1>7. \A s \in Session : \A r \in Session \ {s}, m \in Carried(s)' :
         rowid'[m] # 0 => m \notin Carried(r)'
  <2>1. \A s \in Session, r \in Session : r # s =>
           \A m \in Carried(s) : rowid[m] # 0 => m \notin Carried(r)
    BY <1>1 DEF AtMostOnce
  <2> QED BY <1>1, <1>2, <1>3, <2>1, NextOneSession
<1>8. HeldInOrder' /\ SessionFifo' /\ AtMostOnce'
  BY <1>6, <1>7, OrderSplitPrime DEF AtMostOnce
<1> QED BY <1>2, <1>4, <1>8 DEF DeliveryInv

\* The strengthened invariant holds in every reachable state.
LEMMA DeliveryInvariant == Spec => []DeliveryInv
  BY InitDelivery, NextDelivery, PTL DEF Spec

\* No session is given a message twice, and one that was in the table is given
\* to a single session: dispatch_live hands out only what was never stored, and
\* fetch_and_delete_messages takes its rows in one transaction.
THEOREM AtMostOnceHolds == Spec => []AtMostOnce
<1>1. DeliveryInv => AtMostOnce
  BY DEF DeliveryInv
<1> QED BY <1>1, DeliveryInvariant, PTL

\* A session writes messages in the order in which a sender that waits for each
\* answer posted them: the rows ORDER BY id before it subscribes, the channel
\* in order of dispatch after.
THEOREM SessionFifoHolds == Spec => []SessionFifo
<1>1. DeliveryInv => SessionFifo
  BY DEF DeliveryInv
<1> QED BY <1>1, DeliveryInvariant, PTL

-----------------------------------------------------------------------------
(***************************************************************************)
(* Relay implements BlindDrop under the mapping of Fate and Readers, and   *)
(* no message answered with 200 is dropped silently: in BlindDrop no       *)
(* message ever goes back "outside".                                       *)
(***************************************************************************)

\* What is still on its way to the client of s.
Given(s) == Holds(s) \cup InFlight(s)

IsRead(m) == \E s \in Session : m \in HasRead(s)
IsHeld(m) == \E s \in Session : m \in Given(s)

\* The arms of Fate exclude each other where nothing stored was handed out.
FateIs(m) ==
    /\ IsRead(m) => Fate(m) = "read"
    /\ ~IsRead(m) /\ IsHeld(m) => Fate(m) = "handed"
    /\ ~IsRead(m) /\ ~IsHeld(m) /\ m \in db => Fate(m) = "stored"
    /\ ~IsRead(m) /\ ~IsHeld(m) /\ m \notin db /\ m \in lost \cup purged => Fate(m) = "gone"
    /\ ~IsRead(m) /\ ~IsHeld(m) /\ m \notin db \cup lost \cup purged => Fate(m) = "outside"

\* A stored message was not read and nobody holds it.
Apart(m) == m \in db => ~IsRead(m) /\ ~IsHeld(m)

\* Fate is what its arms say.
LEMMA FateArms ==
    ASSUME NEW m, Apart(m)
    PROVE  FateIs(m)
<1>1. CASE IsRead(m)
  <2>1. /\ \E s \in Session : m \in HasRead(s)
        /\ m \notin db
    BY <1>1, Zenon DEF Apart, IsRead
  <2>2. Fate(m) = "read"
    BY <2>1, Zenon DEF Fate
  <2> QED BY <1>1, <2>2, Zenon DEF FateIs
<1>2. CASE ~IsRead(m) /\ IsHeld(m)
  <2>1. /\ ~(\E s \in Session : m \in HasRead(s))
        /\ \A s \in Session : m \notin HasRead(s)
        /\ \E s \in Session : m \in Holds(s) \cup InFlight(s)
        /\ m \notin db
    BY <1>2, Zenon DEF Apart, IsRead, IsHeld, Given
  <2>2. Fate(m) = "handed"
    BY <2>1, Zenon DEF Fate
  <2> QED BY <1>2, <2>2, Zenon DEF FateIs
<1>3. CASE ~IsRead(m) /\ ~IsHeld(m)
  <2>1. /\ ~(\E s \in Session : m \in HasRead(s))
        /\ ~(\E s \in Session : m \in Holds(s) \cup InFlight(s))
    BY <1>3, Zenon DEF IsRead, IsHeld, Given
  <2>2. CASE m \in db
    <3>1. Fate(m) = "stored"
      BY <2>1, <2>2, Zenon DEF Fate
    <3> QED BY <1>3, <2>2, <3>1, Zenon DEF FateIs
  <2>3. CASE m \notin db
    <3>1. Fate(m) = IF m \in lost \cup purged THEN "gone" ELSE "outside"
      BY <2>1, <2>3, Zenon DEF Fate
    <3> QED BY <1>3, <2>3, <3>1 DEF FateIs
  <2> QED BY <2>2, <2>3
<1> QED BY <1>1, <1>2, <1>3

\* The same, in the state after a step.
LEMMA FateArmsPrime ==
    ASSUME NEW m, Apart(m)'
    PROVE  FateIs(m)'
  BY FateArms, PTL

-----------------------------------------------------------------------------
(* What sessions hold, sent and their clients have read *)

\* What the simulation rests on.
DropInv == TypeOK /\ Bound /\ Isolation /\ Retention /\ Stages

\* What was written is read or under way, and all of it is carried.
LEMMA SentParts ==
    ASSUME TypeOK, Stages, NEW s \in Session
    PROVE  /\ Range(sent[s]) = HasRead(s) \cup Unread(s)
           /\ Given(s) \cup HasRead(s) \subseteq Carried(s)
           /\ Carried(s) \subseteq Msg
           /\ sent[s] = <<>> => HasRead(s) = {} /\ Unread(s) = {}
<1>1. /\ sent[s] \in Seq(Msg) /\ got[s] \in Nat /\ got[s] <= Len(sent[s])
      /\ Len(sent[s]) \in Nat /\ DOMAIN sent[s] = 1..Len(sent[s])
  BY LenProperties DEF TypeOK, Stages, StageOf
<1>2. 1..Len(sent[s]) = 1..got[s] \cup (got[s] + 1)..Len(sent[s])
  BY <1>1
<1>3. Range(sent[s]) = HasRead(s) \cup Unread(s)
  BY <1>1, <1>2 DEF Range, HasRead, Unread
<1>4. Given(s) \cup HasRead(s) \subseteq Carried(s)
  BY <1>3 DEF Given, Carried, InFlight
<1>5. sent[s] = <<>> => Range(sent[s]) = {}
  BY DEF Range
<1> QED BY <1>3, <1>4, <1>5, CarriedType

\* What is stored is with no session.
LEMMA StoredApart ==
    ASSUME TypeOK, Stages, Retention, NEW m
    PROVE  Apart(m)
  BY SentParts DEF Apart, IsRead, IsHeld, Retention, ZeroRetention

\* So the arms of Fate are exclusive in every state of the invariant.
LEMMA FateNow ==
    ASSUME DropInv, NEW m
    PROVE  FateIs(m)
  BY StoredApart, FateArms DEF DropInv

\* The same, in the state after a step.
LEMMA FateNext ==
    ASSUME DropInv', NEW m
    PROVE  FateIs(m)'
  BY FateNow, PTL

\* The readers of a message are the clients of the sessions that read it.
LEMMA ReadersSame ==
    ASSUME NEW m,
           \A s \in Session : /\ m \in HasRead(s)' <=> m \in HasRead(s)
                              /\ m \in HasRead(s) => client'[s] = client[s]
    PROVE  Readers(m)' = Readers(m)
<1>1. \A s \in Session : m \in HasRead(s)' <=> m \in HasRead(s)
  OBVIOUS
<1>2. {r \in Session : m \in HasRead(r)}' = {r \in Session : m \in HasRead(r)}
  BY <1>1
<1>3. \A s \in {r \in Session : m \in HasRead(r)} : client'[s] = client[s]
  OBVIOUS
<1> QED BY <1>2, <1>3 DEF Readers

-----------------------------------------------------------------------------
(* Steps in which sessions only lose what they hold *)

Loses ==
    /\ \A s \in Session : HasRead(s)' = HasRead(s) /\ (HasRead(s) # {} => client'[s] = client[s])
    /\ \A s \in Session : Given(s)' \subseteq Given(s) /\ Given(s) \subseteq Given(s)' \cup lost'
    /\ lost \subseteq lost' /\ \A m \in lost' \ lost : IsHeld(m)
    /\ UNCHANGED <<db, purged>>

\* Such a step ends the last copies of some messages, possibly none.
LEMMA LosesSimulates ==
    ASSUME DropInv, DropInv', Loses
    PROVE  Drop!Next
<1> DEFINE S == {m \in Msg : IsHeld(m) /\ ~IsRead(m) /\ ~IsHeld(m)'}
<1>1. \A m : (IsRead(m)' <=> IsRead(m)) /\ (IsHeld(m)' => IsHeld(m))
  BY DEF Loses, IsRead, IsHeld
<1>2. \A m : IsHeld(m) /\ ~IsHeld(m)' => m \in lost'
  BY DEF Loses, IsHeld
<1>3. \A m : FateIs(m) /\ FateIs(m)' /\ Apart(m)
  BY FateNow, FateNext, StoredApart DEF DropInv
<1>4. \A m \in S : Fate(m) = "handed"
  BY <1>3 DEF FateIs
<1>5. \A m \in S : Fate(m)' = "gone"
  BY <1>1, <1>2, <1>3 DEF FateIs, Apart, Loses
<1>6. \A m \in Msg \ S : Fate(m)' = Fate(m)
  <2> SUFFICES ASSUME NEW m \in Msg \ S PROVE Fate(m)' = Fate(m)
    OBVIOUS
  <2>1. CASE IsRead(m)
    BY <1>1, <1>3, <2>1 DEF FateIs
  <2>2. CASE ~IsRead(m) /\ IsHeld(m)
    BY <1>1, <1>3, <2>2 DEF FateIs
  <2>3. CASE ~IsRead(m) /\ ~IsHeld(m)
    <3>1. (m \in db' <=> m \in db) /\ (m \in lost' \cup purged' <=> m \in lost \cup purged)
      BY <2>3 DEF Loses
    <3>2. ~IsRead(m)' /\ ~IsHeld(m)'
      BY <1>1, <2>3
    <3>3. FateIs(m) /\ FateIs(m)'
      BY <1>3
    <3>4. CASE m \in db
      BY <2>3, <3>1, <3>2, <3>3, <3>4 DEF FateIs
    <3>5. CASE m \notin db /\ m \in lost \cup purged
      BY <2>3, <3>1, <3>2, <3>3, <3>5 DEF FateIs
    <3>6. CASE m \notin db /\ m \notin lost \cup purged
      BY <2>3, <3>1, <3>2, <3>3, <3>6 DEF FateIs
    <3> QED BY <3>4, <3>5, <3>6
  <2> QED BY <2>1, <2>2, <2>3
<1>7. \A m \in Msg : Readers(m)' = Readers(m)
  BY ReadersSame DEF Loses
<1>8. S \in SUBSET Msg
  OBVIOUS
<1> HIDE DEF S
<1>9. Drop!Lose(S)
  BY <1>4, <1>5, <1>6, <1>7, <1>8 DEF Drop!Lose, Drop!Move
<1> QED BY <1>8, <1>9 DEF Drop!Next

\* A step that leaves sessions' memory and history alone loses nothing.
LEMMA QuietLoses ==
    ASSUME DropInv, StepEffect, UNCHANGED <<outbox, chan, sent, got, db, lost, purged>>,
           \A s \in Session : conn'[s] = conn[s] \/ sent[s] = <<>>
    PROVE  Loses
<1>1. ASSUME NEW s \in Session
      PROVE  /\ HasRead(s)' = HasRead(s) /\ Unread(s)' = Unread(s) /\ Holds(s)' = Holds(s)
             /\ HasRead(s) # {} => client'[s] = client[s]
  <2>1. HasRead(s) # {} => sent[s] # <<>>
    BY SentParts DEF DropInv
  <2>2. HasRead(s) # {} => pc[s] # "idle"
    BY <2>1 DEF DropInv, Stages, StageOf
  <2> QED BY <2>2 DEF HasRead, Unread, Holds, StepEffect
<1>2. ASSUME NEW s \in Session PROVE Given(s)' = Given(s)
  <2>1. sent[s] = <<>> => Unread(s) = {}
    BY SentParts DEF DropInv
  <2> QED BY <1>1, <2>1 DEF Given, InFlight
<1> QED BY <1>1, <1>2 DEF Loses

\* A session that writes a message either has it under way or has lost it.
LEMMA WriteLoses ==
    ASSUME DropInv, NEW s \in Session, NEW m \in Holds(s), Write(s, m), db' = db,
           Holds(s)' \subseteq Holds(s), Holds(s) \subseteq Holds(s)' \cup {m},
           \A r \in Session \ {s} : Holds(r)' = Holds(r)
    PROVE  Loses
<1>0. TypeOK /\ Stages /\ m \in Msg
  BY SentParts DEF DropInv, Carried
<1>1. /\ sent[s] \in Seq(Msg) /\ got[s] \in Nat /\ Len(sent[s]) \in Nat /\ got[s] <= Len(sent[s])
      /\ sent'[s] = Append(sent[s], m) /\ UNCHANGED <<got, conn, client, purged>>
      /\ \A r \in Session \ {s} : sent'[r] = sent[r]
      /\ lost' = IF conn[s] = "up" THEN lost ELSE lost \cup {m}
  BY <1>0 DEF Write, TypeOK, Stages, StageOf
<1>2. /\ Len(sent'[s]) = Len(sent[s]) + 1 /\ sent'[s][Len(sent[s]) + 1] = m
      /\ \A i \in 1..Len(sent[s]) : sent'[s][i] = sent[s][i]
  BY <1>0, <1>1
<1>3. HasRead(s)' = HasRead(s)
  <2>1. \A i \in 1..got[s] : i \in 1..Len(sent[s])
    BY <1>1
  <2>2. \A i \in 1..got[s] : sent'[s][i] = sent[s][i]
    BY <1>2, <2>1
  <2> QED BY <1>1, <2>2 DEF HasRead
<1>4. Unread(s)' = Unread(s) \cup {m}
  <2>1. (got[s] + 1)..(Len(sent[s]) + 1) = ((got[s] + 1)..Len(sent[s])) \cup {Len(sent[s]) + 1}
    BY <1>1
  <2>2. \A i \in (got[s] + 1)..Len(sent[s]) : i \in 1..Len(sent[s])
    BY <1>1
  <2> DEFINE old == (got[s] + 1)..Len(sent[s])
             end == Len(sent[s]) + 1
  <2>3. /\ Unread(s) = {sent[s][i] : i \in old}
        /\ Unread(s)' = {sent'[s][i] : i \in old \cup {end}}
    BY <1>1, <1>2, <2>1 DEF Unread
  <2>4. \A i \in old : sent'[s][i] = sent[s][i]
    BY <1>2, <2>2
  <2>5. sent'[s][end] = m
    BY <1>2
  <2> HIDE DEF old, end
  <2> QED BY <2>3, <2>4, <2>5
<1>5. \A r \in Session \ {s} : HasRead(r)' = HasRead(r) /\ Given(r)' = Given(r)
  BY <1>1 DEF HasRead, Given, InFlight, Unread
<1>6. Given(s)' \subseteq Given(s) /\ Given(s) \subseteq Given(s)' \cup lost'
  <2>1. CASE conn[s] = "up"
    <3>1. InFlight(s) = Unread(s) /\ InFlight(s)' = Unread(s) \cup {m}
      BY <1>1, <1>4, <2>1 DEF InFlight
    <3> QED BY <3>1 DEF Given
  <2>2. CASE conn[s] # "up"
    <3>1. InFlight(s) = {} /\ InFlight(s)' = {} /\ m \in lost'
      BY <1>1, <2>2 DEF InFlight
    <3> QED BY <3>1 DEF Given
  <2> QED BY <2>1, <2>2
<1>7. IsHeld(m)
  BY DEF IsHeld, Given
<1>8. /\ \A r \in Session : HasRead(r)' = HasRead(r)
      /\ \A r \in Session : Given(r)' \subseteq Given(r) /\ Given(r) \subseteq Given(r)' \cup lost'
  BY <1>3, <1>5, <1>6
<1>9. lost \subseteq lost' /\ \A n \in lost' \ lost : IsHeld(n)
  BY <1>1, <1>7
<1> QED BY <1>1, <1>8, <1>9 DEF Loses

-----------------------------------------------------------------------------
(* Every step of the relay is a step in the lives of some messages *)

\* What one message goes through when one operation moves it.
LEMMA OneMoves ==
    ASSUME NEW m \in Msg, NEW F, NEW t,
           Fate(m) \in F, Fate(m)' = t,
           \A n \in Msg \ {m} : Fate(n)' = Fate(n)
    PROVE  Drop!Move({m}, F, t)
  BY DEF Drop!Move

\* Where neither the table nor what is held, read or lost changes for a
\* message, its fate is the same.
LEMMA FateSame ==
    ASSUME DropInv, DropInv', NEW m,
           IsRead(m)' <=> IsRead(m), IsHeld(m)' <=> IsHeld(m),
           m \in db' <=> m \in db, m \in lost' \cup purged' <=> m \in lost \cup purged
    PROVE  Fate(m)' = Fate(m)
<1>1. FateIs(m) /\ FateIs(m)'
  BY FateNow, FateNext
<1>2. CASE IsRead(m)
  BY <1>1, <1>2 DEF FateIs
<1>3. CASE ~IsRead(m) /\ IsHeld(m)
  BY <1>1, <1>3 DEF FateIs
<1>4. CASE ~IsRead(m) /\ ~IsHeld(m) /\ m \in db
  BY <1>1, <1>4 DEF FateIs
<1>5. CASE ~IsRead(m) /\ ~IsHeld(m) /\ m \notin db /\ m \in lost \cup purged
  BY <1>1, <1>5 DEF FateIs
<1>6. CASE ~IsRead(m) /\ ~IsHeld(m) /\ m \notin db /\ m \notin lost \cup purged
  BY <1>1, <1>6 DEF FateIs
<1> QED BY <1>2, <1>3, <1>4, <1>5, <1>6

\* A POST that was not dispatched or inserted is outside.
LEMMA PendingOutside ==
    ASSUME DropInv, NEW m \in Msg, post[m] \in Pending
    PROVE  Fate(m) = "outside" /\ ~IsRead(m) /\ ~IsHeld(m)
<1>1. m \notin db \cup lost \cup purged /\ \A s \in Session : m \notin Carried(s)
  BY DEF DropInv, Retention, Untouched
<1>2. ~IsRead(m) /\ ~IsHeld(m)
  BY <1>1, SentParts DEF DropInv, IsRead, IsHeld
<1> QED BY <1>1, <1>2, FateNow DEF FateIs

\* A handler that stores its message.
LEMMA InsertSimulates ==
    ASSUME DropInv, DropInv', NEW m \in Msg, post[m] = "enqueue", Insert(m),
           UNCHANGED <<server, socket, history>>
    PROVE  Drop!Next
<1>1. Fate(m) = "outside"
  BY PendingOutside DEF Pending
<1>2. UNCHANGED <<outbox, chan, sent, got, conn, client, lost, purged>> /\ db' = db \cup {m}
  BY DEF Insert, server, socket, history
<1>3. \A s \in Session : HasRead(s)' = HasRead(s) /\ Given(s)' = Given(s)
  BY <1>2 DEF HasRead, Given, Holds, InFlight, Unread
<1>4. \A n : (IsRead(n)' <=> IsRead(n)) /\ (IsHeld(n)' <=> IsHeld(n))
  BY <1>3 DEF IsRead, IsHeld
<1>5. \A n \in Msg \ {m} : Fate(n)' = Fate(n)
  BY <1>2, <1>4, FateSame
<1>6. Fate(m)' = "stored"
  BY <1>2, <1>4, PendingOutside, FateNext DEF FateIs, Pending
<1>7. \A n \in Msg : Readers(n)' = Readers(n)
  BY <1>2, <1>3, ReadersSame
<1>8. Drop!Store(m)
  BY <1>1, <1>5, <1>6, <1>7, OneMoves DEF Drop!Store
<1> QED BY <1>8 DEF Drop!Next

\* A handler that gives its message to the listeners of the mailbox, if any.
LEMMA DispatchSimulates ==
    ASSUME DropInv, DropInv', StepEffect, NEW m \in Msg, DispatchLive(m)
    PROVE  Drop!Next
<1> DEFINE live == Listeners(To[m])
<1>1. /\ UNCHANGED <<outbox, sent, got, conn, client, lost, purged, db>> /\ post[m] = "new"
      /\ chan' = [s \in Session |-> IF s \in live THEN Append(chan[s], m) ELSE chan[s]]
  BY DEF DispatchLive, table, socket
<1>2. live \subseteq Session /\ chan \in [Session -> Seq(Msg)]
  BY RelayAssumption DEF DropInv, TypeOK, Listeners
<1> HIDE DEF live
<1>3. CASE live = {}
  <2>1. UNCHANGED chan
    BY <1>1, <1>2, <1>3
  <2> QED BY <1>1, <2>1, QuietLoses, LosesSimulates
<1>4. CASE live # {}
  <2>1. Fate(m) = "outside" /\ ~IsRead(m) /\ ~IsHeld(m)
    BY <1>1, PendingOutside DEF Pending
  <2>2. \A s \in Session : HasRead(s)' = HasRead(s) /\ InFlight(s)' = InFlight(s)
    BY <1>1 DEF HasRead, InFlight, Unread
  <2>3. \A s \in Session : Range(chan'[s]) = Range(chan[s]) \cup (IF s \in live THEN {m} ELSE {})
    BY <1>1, <1>2, RangeAppend
  <2>4. \A s \in Session : Given(s)' = Given(s) \cup (IF s \in live THEN {m} ELSE {})
    BY <1>1, <2>2, <2>3 DEF Given, Holds
  <2>5. \A n : IsRead(n)' <=> IsRead(n)
    BY <2>2 DEF IsRead
  <2>6. IsHeld(m)' /\ \A n : n # m => (IsHeld(n)' <=> IsHeld(n))
    BY <1>2, <1>4, <2>4 DEF IsHeld
  <2>7. \A n \in Msg \ {m} : Fate(n)' = Fate(n)
    BY <1>1, <2>5, <2>6, FateSame
  <2>8. Fate(m)' = "handed"
    BY <2>1, <2>5, <2>6, FateNext DEF FateIs
  <2>9. \A n \in Msg : Readers(n)' = Readers(n)
    BY <1>1, <2>2, ReadersSame
  <2>10. Drop!HandLive(m)
    BY <2>1, <2>7, <2>8, <2>9, OneMoves DEF Drop!HandLive
  <2> QED BY <2>10 DEF Drop!Next
<1> QED BY <1>3, <1>4

\* fetch_and_delete_messages hands a session all the rows of its mailbox.
LEMMA FetchSimulates ==
    ASSUME DropInv, DropInv', NEW s \in Session, Fetch(s)
    PROVE  Drop!Next
<1> DEFINE S == Mailbox(addr[s])
<1>1. /\ UNCHANGED <<chan, sent, got, conn, client, lost, purged>> /\ db' = db \ S
      /\ outbox'[s] = S /\ outbox[s] = {} /\ \A r \in Session \ {s} : outbox'[r] = outbox[r]
  <2>1. TypeOK /\ StageOf(s)
    BY DEF DropInv, Stages
  <2>2. /\ UNCHANGED <<chan, sent, got, conn, client, lost, purged>> /\ db' = db \ S
        /\ outbox' = [outbox EXCEPT ![s] = S] /\ pc[s] = "fetch"
    BY DEF Fetch, socket, history
  <2>3. outbox \in [Session -> SUBSET Msg]
    BY <2>1 DEF TypeOK
  <2> HIDE DEF S
  <2> QED BY <2>1, <2>2, <2>3 DEF StageOf
<1>2. S \in SUBSET Msg /\ S \subseteq db
  BY DEF Mailbox, DropInv, TypeOK
<1> HIDE DEF S
<1>3. \A r \in Session : HasRead(r)' = HasRead(r) /\ InFlight(r)' = InFlight(r)
  BY <1>1 DEF HasRead, InFlight, Unread
<1>4. Given(s)' = Given(s) \cup S /\ \A r \in Session \ {s} : Given(r)' = Given(r)
  BY <1>1, <1>3 DEF Given, Holds
<1>5. \A n : IsRead(n)' <=> IsRead(n)
  BY <1>3 DEF IsRead
<1>6. \A n \in S : IsHeld(n)'
  BY <1>4 DEF IsHeld
<1>7. \A n : n \notin S => (IsHeld(n)' <=> IsHeld(n))
  BY <1>4 DEF IsHeld
<1>8. \A n \in Msg \ S : Fate(n)' = Fate(n)
  BY <1>1, <1>5, <1>7, FateSame
<1>9. \A n \in S : Fate(n) = "stored" /\ Fate(n)' = "handed"
  BY <1>2, <1>5, <1>6, FateNow, FateNext, StoredApart DEF FateIs, Apart, DropInv
<1>10. \A n \in Msg : Readers(n)' = Readers(n)
  BY <1>1, <1>3, ReadersSame
<1>11. Drop!Hand(S)
  BY <1>2, <1>8, <1>9, <1>10 DEF Drop!Hand, Drop!Move
<1> QED BY <1>2, <1>11 DEF Drop!Next

\* The TTL worker deletes rows.
LEMMA CleanupSimulates ==
    ASSUME DropInv, DropInv', Cleanup
    PROVE  Drop!Next
<1> DEFINE S == Expired
<1>1. /\ UNCHANGED <<outbox, chan, sent, got, conn, client, lost>>
      /\ db' = db \ S /\ purged' = purged \cup S
  BY DEF Cleanup, server, socket
<1>2. S \in SUBSET Msg /\ S \subseteq db
  BY DEF Expired, DropInv, TypeOK
<1> HIDE DEF S
<1>3. \A r \in Session : HasRead(r)' = HasRead(r) /\ Given(r)' = Given(r)
  BY <1>1 DEF HasRead, Given, Holds, InFlight, Unread
<1>4. \A n : (IsRead(n)' <=> IsRead(n)) /\ (IsHeld(n)' <=> IsHeld(n))
  BY <1>3 DEF IsRead, IsHeld
<1>5. \A n \in Msg \ S : Fate(n)' = Fate(n)
  BY <1>1, <1>4, FateSame
<1>6. \A n \in S : Fate(n) = "stored" /\ Fate(n)' = "gone"
  BY <1>1, <1>2, <1>4, FateNow, FateNext, StoredApart DEF FateIs, Apart, DropInv
<1>7. \A n \in Msg : Readers(n)' = Readers(n)
  BY <1>1, <1>3, ReadersSame
<1>8. Drop!Expire(S)
  BY <1>2, <1>5, <1>6, <1>7 DEF Drop!Expire, Drop!Move
<1> QED BY <1>2, <1>8 DEF Drop!Next

\* A client reads the next message of its socket; it owns the mailbox.
LEMMA ReadSimulates ==
    ASSUME DropInv, DropInv', NEW s \in Session, ClientRead(s)
    PROVE  Drop!Next
<1> DEFINE g == got[s]
           w == sent[s]
<1>1. /\ UNCHANGED <<outbox, chan, sent, conn, client, lost, purged, db>> /\ conn[s] = "up"
      /\ got'[s] = g + 1 /\ g \in Nat /\ Len(w) \in Nat /\ g < Len(w)
      /\ \A r \in Session \ {s} : got'[r] = got[r]
  <2>1. TypeOK
    BY DEF DropInv
  <2> QED BY <2>1 DEF ClientRead, server, table, history, TypeOK
<1>a. sent[s] \in Seq(Msg) /\ got[s] + 1 \in 1..Len(sent[s])
  BY <1>1, SMTT(30) DEF DropInv, TypeOK
<1>b. PICK m \in Msg : m = w[g + 1]
  BY <1>a
<1>c. PICK k : k = client[s]
  OBVIOUS
<1>2. HasRead(s)' = HasRead(s) \cup {m}
  <2>1. 1..(g + 1) = 1..g \cup {g + 1}
    BY <1>1
  <2>2. HasRead(s)' = {w[i] : i \in 1..g \cup {g + 1}} /\ HasRead(s) = {w[i] : i \in 1..g}
    BY <1>1, <2>1 DEF HasRead
  <2> HIDE DEF w, g
  <2> QED BY <1>b, <2>2
<1>3. Unread(s) = Unread(s)' \cup {m}
  <2>1. (g + 1)..Len(w) = ((g + 1) + 1)..Len(w) \cup {g + 1}
    BY <1>1
  <2> DEFINE rest == ((g + 1) + 1)..Len(w)
  <2>2. Unread(s) = {w[i] : i \in rest \cup {g + 1}} /\ Unread(s)' = {w[i] : i \in rest}
    BY <1>1, <2>1 DEF Unread
  <2> HIDE DEF w, g, rest
  <2> QED BY <1>b, <2>2
<1>4. k \in Key /\ HashOf[k] = To[m] /\ m \in Given(s)
  <2>1. m \in Unread(s)
    BY <1>3
  <2>2. m \in Given(s)
    BY <1>1, <2>1 DEF Given, InFlight
  <2>3. m \in Carried(s)
    BY <2>2, SentParts DEF DropInv
  <2> QED BY <1>c, <2>2, <2>3 DEF DropInv, Isolation
<1> HIDE DEF g, w
<1>5. /\ \A r \in Session \ {s} : HasRead(r)' = HasRead(r) /\ Given(r)' = Given(r)
      /\ Given(s) = Given(s)' \cup {m}
  <2>1. \A r \in Session \ {s} : HasRead(r)' = HasRead(r) /\ Given(r)' = Given(r)
    BY <1>1 DEF HasRead, Given, Holds, InFlight, Unread
  <2>2. Holds(s)' = Holds(s) /\ InFlight(s)' = Unread(s)' /\ InFlight(s) = Unread(s)
    BY <1>1 DEF Holds, InFlight
  <2> QED BY <1>3, <2>1, <2>2 DEF Given
<1>6. IsRead(m)' /\ \A n : n # m => (IsRead(n)' <=> IsRead(n))
  BY <1>2, <1>5 DEF IsRead
<1>7. IsHeld(m) /\ \A n : n # m => (IsHeld(n)' <=> IsHeld(n))
  BY <1>4, <1>5 DEF IsHeld
<1>8. \A n \in Msg \ {m} : Fate(n)' = Fate(n)
  BY <1>1, <1>6, <1>7, FateSame
<1>9. Fate(m) \in {"handed", "read"} /\ Fate(m)' = "read"
  BY <1>6, <1>7, FateNow, FateNext DEF FateIs
<1>10. \A n \in Msg \ {m} : Readers(n)' = Readers(n)
  BY <1>1, <1>2, <1>5, ReadersSame
<1>11. Readers(m)' = Readers(m) \cup {k}
  <2>1. {r \in Session : m \in HasRead(r)}' = {r \in Session : m \in HasRead(r)} \cup {s}
    BY <1>2, <1>5
  <2> QED BY <1>1, <1>c, <2>1 DEF Readers
<1>12. Drop!Read(m, k)
  <2>1. Drop!Move({m}, {"handed", "read"}, "read")
    BY <1>4, <1>8, <1>9, OneMoves
  <2>2. [n \in Msg |-> Readers(n)]'
           = [[n \in Msg |-> Readers(n)] EXCEPT ![m] = @ \cup {k}]
    BY <1>4, <1>10, <1>11
  <2> QED BY <1>4, <2>1, <2>2 DEF Drop!Read
<1> QED BY <1>4, <1>12 DEF Drop!Next

\* A session or a socket ends: what s held, or had under way, is lost.
LEMMA EndLoses ==
    ASSUME DropInv, NEW s \in Session,
           UNCHANGED <<sent, got, client, db, purged>>,
           \A r \in Session \ {s} : Holds(r)' = Holds(r) /\ conn'[r] = conn[r],
           Holds(s)' \subseteq Holds(s), conn'[s] \in {conn[s], "down"},
           Given(s) \subseteq Given(s)' \cup lost',
           lost \subseteq lost', lost' \subseteq lost \cup Given(s)
    PROVE  Loses
<1>1. \A r \in Session : HasRead(r)' = HasRead(r) /\ Unread(r)' = Unread(r)
  BY DEF HasRead, Unread
<1>2. \A r \in Session \ {s} : Given(r)' = Given(r)
  BY <1>1 DEF Given, InFlight
<1>3. Given(s)' \subseteq Given(s)
  BY <1>1 DEF Given, InFlight
<1>4. \A m \in lost' \ lost : IsHeld(m)
  BY DEF IsHeld
<1> QED BY <1>1, <1>2, <1>3, <1>4 DEF Loses

\* The steps of a session that has been authenticated, but for its fetch.
LEMMA ServeSimulates ==
    ASSUME DropInv, DropInv', StepEffect, NEW s \in Session, Serve(s)
    PROVE  Drop!Next
<1>t. TypeOK /\ StageOf(s)
  BY DEF DropInv, Stages
<1>1. CASE Fetch(s)
  BY <1>1, FetchSimulates
<1>2. CASE AuthReject(s)
  <2>1. UNCHANGED <<outbox, chan, sent, got, db, lost, purged>> /\ sent[s] = <<>>
    BY <1>2, <1>t DEF AuthReject, StageOf, table, history
  <2>2. \A r \in Session \ {s} : conn'[r] = conn[r]
    BY <1>2, <1>t DEF AuthReject, TypeOK
  <2> QED BY <2>1, <2>2, QuietLoses, LosesSimulates
<1>3. CASE FetchError(s) \/ Subscribe(s)
  <2>1. UNCHANGED <<outbox, chan, sent, got, db, lost, purged, conn>>
    BY <1>3 DEF FetchError, Subscribe, table, socket, history
  <2> QED BY <2>1, QuietLoses, LosesSimulates
<1>4. CASE DrainSend(s)
  <2>1. PICK m \in outbox[s] : outbox' = [outbox EXCEPT ![s] = @ \ {m}] /\ Write(s, m)
    BY <1>4 DEF DrainSend
  <2>2. /\ UNCHANGED <<chan, db>> /\ outbox'[s] = outbox[s] \ {m}
        /\ \A r \in Session \ {s} : outbox'[r] = outbox[r]
    BY <1>4, <1>t, <2>1 DEF DrainSend, table, TypeOK
  <2>3. /\ Holds(s)' \subseteq Holds(s) /\ Holds(s) \subseteq Holds(s)' \cup {m}
        /\ m \in Holds(s) /\ \A r \in Session \ {s} : Holds(r)' = Holds(r)
    BY <2>2 DEF Holds
  <2> QED BY <2>1, <2>2, <2>3, WriteLoses, LosesSimulates
<1>5. CASE LiveSend(s)
  <2>1. /\ UNCHANGED <<outbox, db>> /\ chan[s] # <<>> /\ chan'[s] = Tail(chan[s])
        /\ \A r \in Session \ {s} : chan'[r] = chan[r]
        /\ Write(s, Head(chan[s])) /\ chan[s] \in Seq(Msg)
    BY <1>5, <1>t DEF LiveSend, table, TypeOK
  <2>2. Range(chan[s]) = {Head(chan[s])} \cup Range(chan'[s])
    BY <2>1, InjectiveTail
  <2>3. PICK m : m = Head(chan[s])
    OBVIOUS
  <2>4. /\ Holds(s)' \subseteq Holds(s) /\ Holds(s) \subseteq Holds(s)' \cup {m}
        /\ m \in Holds(s) /\ \A r \in Session \ {s} : Holds(r)' = Holds(r)
    BY <2>1, <2>2, <2>3 DEF Holds
  <2> QED BY <2>1, <2>3, <2>4, WriteLoses, LosesSimulates
<1>6. CASE DrainFail(s) \/ LiveEnd(s)
  <2>1. /\ UNCHANGED <<sent, got, client, db, purged, conn>> /\ conn[s] = "down"
        /\ outbox'[s] \cup Range(chan'[s]) = {} /\ lost' = lost \cup Holds(s)
        /\ \A r \in Session \ {s} : outbox'[r] = outbox[r] /\ chan'[r] = chan[r]
    <3>1. /\ UNCHANGED <<sent, got, client, db, purged, conn>> /\ conn[s] = "down"
          /\ outbox'[s] = {} /\ chan'[s] = <<>>
          /\ \A r \in Session \ {s} : outbox'[r] = outbox[r] /\ chan'[r] = chan[r]
      BY <1>6, <1>t DEF DrainFail, LiveEnd, table, socket, TypeOK, StageOf
    <3>2. Range(<<>>) = {}
      BY NothingTwice
    <3>3. lost' = lost \cup Holds(s)
      <4>1. DrainFail(s) => lost' = lost \cup outbox[s] /\ chan[s] = <<>>
        BY <1>t DEF DrainFail, StageOf
      <4>2. LiveEnd(s) => lost' = lost \cup Range(chan[s]) /\ outbox[s] = {}
        BY <1>t DEF LiveEnd, StageOf
      <4> QED BY <1>6, <3>2, <4>1, <4>2 DEF Holds
    <3> QED BY <3>1, <3>2, <3>3
  <2>2. Holds(s)' = {} /\ \A r \in Session \ {s} : Holds(r)' = Holds(r)
    BY <2>1 DEF Holds
  <2>3. Given(s) = Holds(s)
    BY <2>1 DEF Given, InFlight
  <2>4. Loses
    BY <2>1, <2>2, <2>3, EndLoses
  <2> QED BY <2>4, LosesSimulates
<1> QED BY <1>1, <1>2, <1>3, <1>4, <1>5, <1>6 DEF Serve

\* A circuit dies: what the client had not read is lost.
LEMMA BreakSimulates ==
    ASSUME DropInv, DropInv', NEW s \in Session, ConnBreak(s)
    PROVE  Drop!Next
<1>1. /\ UNCHANGED <<outbox, chan, sent, got, client, db, purged>> /\ conn[s] = "up"
      /\ conn' = [conn EXCEPT ![s] = "down"] /\ lost' = lost \cup Unread(s)
  BY DEF ConnBreak, table, server
<1>2. conn'[s] = "down" /\ \A r \in Session \ {s} : conn'[r] = conn[r]
  BY <1>1 DEF DropInv, TypeOK
<1>3. \A r \in Session : Holds(r)' = Holds(r)
  BY <1>1 DEF Holds
<1>4. Given(s) = Holds(s) \cup Unread(s)
  BY <1>1 DEF Given, InFlight
<1>5. Given(s) \subseteq Given(s)' \cup lost' /\ lost' \subseteq lost \cup Given(s)
  BY <1>1, <1>3, <1>4 DEF Given
<1>6. Loses
  BY <1>1, <1>2, <1>3, <1>5, EndLoses
<1> QED BY <1>6, LosesSimulates

\* The process dies: everything in its memory and on its sockets is lost.
LEMMA CrashSimulates ==
    ASSUME DropInv, DropInv', Crash
    PROVE  Drop!Next
<1>1. /\ UNCHANGED <<sent, got, client, db, purged>>
      /\ lost' = lost \cup UNION {Holds(s) \cup InFlight(s) : s \in Session}
      /\ \A s \in Session : /\ outbox'[s] = {} /\ chan'[s] = <<>>
                            /\ conn'[s] = IF pc[s] = "idle" THEN conn[s] ELSE "down"
  BY DEF Crash, table
<1>2. \A s \in Session : HasRead(s)' = HasRead(s) /\ Unread(s)' = Unread(s) /\ Holds(s)' = {}
  <2>1. Range(<<>>) = {}
    BY NothingTwice
  <2> QED BY <1>1, <2>1 DEF HasRead, Unread, Holds
<1>3. \A s \in Session : pc[s] = "idle" => Unread(s) = {}
  BY SentParts DEF DropInv, Stages, StageOf
<1>4. \A s \in Session : Given(s)' = {}
  BY <1>1, <1>2, <1>3 DEF Given, InFlight
<1>5. \A m : m \in UNION {Holds(s) \cup InFlight(s) : s \in Session} <=> IsHeld(m)
  BY Zenon DEF IsHeld, Given
<1>6. \A m : m \in lost' <=> m \in lost \/ IsHeld(m)
  BY <1>1, <1>5
<1>7. \A s \in Session : Given(s) \subseteq lost'
  BY <1>6 DEF IsHeld
<1>8. Loses
  BY <1>1, <1>2, <1>4, <1>6, <1>7 DEF Loses
<1> QED BY <1>8, LosesSimulates

\* Every step maps to a step of BlindDrop or leaves its variables alone.
LEMMA RelaySimulates ==
    ASSUME DropInv, DropInv', [Next]_vars
    PROVE  [Drop!Next]_(Drop!dropVars)
<1>e. StepEffect
  BY NextEffect DEF DropInv
<1>1. ASSUME NEW m \in Msg, Post(m) PROVE Drop!Next
  <2>1. CASE DispatchLive(m)
    BY <1>e, <2>1, DispatchSimulates
  <2>2. CASE post[m] = "enqueue" /\ Insert(m) /\ UNCHANGED <<server, socket, history>>
    BY <2>2, InsertSimulates
  <2>3. CASE UNCHANGED <<table, server, socket, history>>
    <3>1. UNCHANGED <<outbox, chan, sent, got, db, lost, purged, conn>>
      BY <2>3 DEF table, server, socket, history
    <3> QED BY <1>e, <3>1, QuietLoses, LosesSimulates
  <2> QED BY <1>1, <2>1, <2>2, <2>3 DEF Post, RejectPost, Enqueue, EnqueueError, PostCancelled
<1>2. ASSUME NEW s \in Session, Serve(s) \/ ClientRead(s) \/ ConnBreak(s) PROVE Drop!Next
  BY <1>e, <1>2, ServeSimulates, ReadSimulates, BreakSimulates
<1>3. ASSUME NEW s \in Session, NEW k \in Key, Connect(s, k) PROVE Drop!Next
  <2>1. UNCHANGED <<outbox, chan, sent, got, db, lost, purged>>
    BY <1>3 DEF Connect, table, history
  <2>2. sent[s] = <<>> /\ \A r \in Session \ {s} : conn'[r] = conn[r]
    BY <1>3 DEF Connect, DropInv, Stages, StageOf, TypeOK
  <2> QED BY <1>e, <2>1, <2>2, QuietLoses, LosesSimulates
<1>4. ASSUME NEW s \in Session, NEW k \in Key,
             NEW sig \in [by : Key, over : Session], AuthOk(s, k, sig)
      PROVE  Drop!Next
  <2>1. UNCHANGED <<outbox, chan, sent, got, db, lost, purged, conn>>
    BY <1>4 DEF AuthOk, table, socket, history
  <2> QED BY <1>e, <2>1, QuietLoses, LosesSimulates
<1>5. CASE Tick \/ UNCHANGED vars
  <2>1. UNCHANGED <<outbox, chan, sent, got, db, lost, purged, conn>>
    BY <1>5 DEF Tick, vars, table, server, socket, history
  <2> QED BY <1>e, <2>1, QuietLoses, LosesSimulates
<1>6. CASE Cleanup
  BY <1>6, CleanupSimulates
<1>7. CASE Crash
  BY <1>7, CrashSimulates
<1> QED BY <1>1, <1>2, <1>3, <1>4, <1>5, <1>6, <1>7 DEF Next

\* Initially nothing was posted or stored, and nobody is connected.
LEMMA InitDropInv == Init => DropInv
<1> SUFFICES ASSUME Init PROVE DropInv
  OBVIOUS
<1>1. TypeOK /\ Retention /\ Stages
  BY InitDelivery DEF DeliveryInv
<1>2. \A s \in Session : Carried(s) = {}
  BY DEF Init, Carried, Holds, Range
<1>3. Bound /\ Isolation
  BY <1>2 DEF Init, Bound, Isolation
<1> QED BY <1>1, <1>3 DEF DropInv

\* The invariant of the simulation is inductive.
LEMMA NextDropInv == DropInv /\ [Next]_vars => DropInv'
  BY NextTypeOK, NextBound, NextIsolation, NextRetention, NextStages DEF DropInv

\* The relay implements BlindDrop: whatever the handlers, sessions, sockets, TTL
\* worker and crashes do together is, for each message, one of the steps of a
\* mailbox that hands a message out at most once, to its owner.
THEOREM ImplementsBlindDrop == Spec => RefinesBlindDrop
<1>1. Init => Drop!Init
  <2> SUFFICES ASSUME Init PROVE Drop!Init
    OBVIOUS
  <2>1. DropInv /\ \A m \in Msg : post[m] \in Pending
    BY InitDropInv DEF Init, Pending
  <2>2. \A m \in Msg : Fate(m) = "outside" /\ ~IsRead(m)
    BY <2>1, PendingOutside
  <2>3. ASSUME NEW m \in Msg PROVE Readers(m) = {}
    <3>1. {r \in Session : m \in HasRead(r)} = {}
      BY <2>2 DEF IsRead
    <3> QED BY <3>1 DEF Readers
  <2> QED BY <2>2, <2>3 DEF Drop!Init
<1>2. DropInv /\ DropInv' /\ [Next]_vars => [Drop!Next]_(Drop!dropVars)
  BY RelaySimulates
<1> QED BY <1>1, <1>2, InitDropInv, NextDropInv, PTL DEF Spec, RefinesBlindDrop, Drop!Spec

-----------------------------------------------------------------------------
(* What was answered with 200 is accounted for *)

\* In terms of the mapping: an answered message is not outside.
LEMMA AccountedIs ==
    ASSUME DropInv
    PROVE  Accounted <=> \A m \in Msg : post[m] \in Answered => Fate(m) # "outside"
<1>1. \A m : Fate(m) # "outside" <=> IsRead(m) \/ IsHeld(m) \/ m \in db \cup lost \cup purged
  BY FateNow DEF FateIs
<1>2. \A m : IsRead(m) \/ IsHeld(m) <=>
             \E s \in Session : m \in Holds(s) \cup InFlight(s) \cup HasRead(s)
  BY DEF IsRead, IsHeld, Given
<1> QED BY <1>1, <1>2 DEF Accounted

\* The same, in the state after a step.
LEMMA AccountedIsPrime ==
    ASSUME DropInv'
    PROVE  Accounted' <=> \A m \in Msg : post'[m] \in Answered => Fate(m)' # "outside"
<1>1. \A m : Fate(m)' # "outside" <=> IsRead(m)' \/ IsHeld(m)' \/ m \in db' \cup lost' \cup purged'
  BY FateNext DEF FateIs
<1>2. \A m : IsRead(m)' \/ IsHeld(m)' <=>
             \E s \in Session : m \in Holds(s)' \cup InFlight(s)' \cup HasRead(s)'
  BY DEF IsRead, IsHeld, Given
<1> QED BY <1>1, <1>2 DEF Accounted

\* No step of BlindDrop takes a message back.
LEMMA NeverBack ==
    ASSUME [Drop!Next]_(Drop!dropVars), NEW m \in Msg, Fate(m) # "outside"
    PROVE  Fate(m)' # "outside"
<1> DEFINE fate == [n \in Msg |-> Fate(n)]
<1>1. ASSUME NEW S, NEW F, NEW t, t # "outside", Drop!Move(S, F, t) PROVE Fate(m)' # "outside"
  <2>1. fate' = [n \in Msg |-> IF n \in S THEN t ELSE fate[n]]
    BY <1>1 DEF Drop!Move
  <2>2. fate[m] = Fate(m) /\ fate'[m] = Fate(m)'
    OBVIOUS
  <2> HIDE DEF fate
  <2> QED BY <1>1, <2>1, <2>2
<1>2. CASE UNCHANGED Drop!dropVars
  <2>1. fate' = fate
    BY <1>2 DEF Drop!dropVars
  <2>2. fate[m] = Fate(m) /\ fate'[m] = Fate(m)'
    OBVIOUS
  <2> HIDE DEF fate
  <2> QED BY <2>1, <2>2
<1> HIDE DEF fate
<1> QED
  BY <1>1, <1>2 DEF Drop!Next, Drop!Store, Drop!HandLive, Drop!Hand, Drop!Expire, Drop!Lose, Drop!Read

\* A handler answers "delivered live" only if it put a copy into a channel.
LEMMA LiveIsHeld ==
    ASSUME TypeOK, [Next]_vars, NEW m \in Msg, post'[m] = "live", post[m] # "live"
    PROVE  IsHeld(m)'
<1>1. ASSUME NEW n \in Msg, Post(n) PROVE IsHeld(m)'
  <2>1. CASE n # m \/ ~DispatchLive(n)
    <3>1. FALSE
      BY <1>1, <2>1 DEF Post, RejectPost, DispatchLive, Enqueue, EnqueueError, PostCancelled, TypeOK
    <3> QED BY <3>1
  <2>2. CASE n = m /\ DispatchLive(m)
    <3>1. PICK s \in Session : s \in Listeners(To[m])
      BY <2>2, RelayAssumption DEF DispatchLive, TypeOK, Listeners
    <3>2. chan'[s] = Append(chan[s], m) /\ chan[s] \in Seq(Msg)
      BY <2>2, <3>1 DEF DispatchLive, TypeOK
    <3>3. m \in Range(chan'[s])
      BY <3>2, RangeAppend
    <3> QED BY <3>3 DEF IsHeld, Given, Holds
  <2> QED BY <1>1, <2>1, <2>2
<1>2. ASSUME NEW s \in Session, Serve(s) PROVE FALSE
  BY <1>2 DEF Serve, AuthReject, Fetch, FetchError, DrainSend, DrainFail, Subscribe, LiveSend, LiveEnd
<1>3. ASSUME NEW s \in Session, ClientRead(s) \/ ConnBreak(s) PROVE FALSE
  BY <1>3 DEF ClientRead, ConnBreak
<1>4. ASSUME NEW s \in Session, NEW k \in Key, Connect(s, k) PROVE FALSE
  BY <1>4 DEF Connect
<1>5. ASSUME NEW s \in Session, NEW k \in Key,
             NEW sig \in [by : Key, over : Session], AuthOk(s, k, sig)
      PROVE  FALSE
  BY <1>5 DEF AuthOk
<1>6. CASE Tick \/ Cleanup \/ Crash \/ UNCHANGED vars
  BY <1>6 DEF Tick, Cleanup, Crash, TypeOK, vars
<1> QED BY <1>1, <1>2, <1>3, <1>4, <1>5, <1>6 DEF Next

\* No step drops an answered message without a trace, or answers for one that
\* is neither stored nor in a channel.
LEMMA NextAccounted ==
    ASSUME DropInv, DropInv', Accounted, [Next]_vars
    PROVE  Accounted'
<1> SUFFICES ASSUME NEW m \in Msg, post'[m] \in Answered PROVE Fate(m)' # "outside"
  BY AccountedIsPrime
<1>1. CASE post[m] \in Answered
  <2>1. Fate(m) # "outside"
    BY <1>1, AccountedIs
  <2> QED BY <2>1, RelaySimulates, NeverBack
<1>2. CASE post'[m] = "queued" /\ post[m] \notin Answered
  <2>1. RowMoves
    BY NextMoves DEF DropInv
  <2>2. m \in db'
    BY <1>2, <2>1 DEF RowMoves, Answered
  <2> QED BY <2>2, FateNext DEF FateIs
<1>3. CASE post'[m] = "live" /\ post[m] \notin Answered
  <2>1. IsHeld(m)'
    BY <1>3, LiveIsHeld DEF DropInv, Answered
  <2> QED BY <2>1, FateNext DEF FateIs
<1> QED BY <1>1, <1>2, <1>3 DEF Answered

\* No message answered with 200 is dropped silently: it is stored, in memory, on
\* the wire, read, expired, or was in the hands of a session that ended.
THEOREM AccountedHolds == Spec => []Accounted
<1>1. Init => Accounted
  BY DEF Init, Accounted, Answered
<1>2. DropInv /\ DropInv' /\ Accounted /\ [Next]_vars => Accounted'
  BY NextAccounted
<1> QED BY <1>1, <1>2, InitDropInv, NextDropInv, PTL DEF Spec
=============================================================================
