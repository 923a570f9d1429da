--------------------------- MODULE WsClientProofs ---------------------------
(***************************************************************************)
(* Proofs about WsClient for any number of runs of connect() and of calls  *)
(* of stop(): the client owns the only socket, arms its one timer exactly  *)
(* while it waits to reconnect, and never mixes the bytes of two sockets.  *)
(***************************************************************************)
EXTENDS WsClient, TLAPS

\* Before start() goes on, the client has done nothing but stop.
NotStarted ==
    app.start # "done" =>
        /\ ws.state \in {"DISCONNECTED", "CLOSED"} /\ ws.buffer = None
        /\ \A c \in Call : call[c] # "dialing" /\ ~sock[c].open

\* One run of connect() dials at a time, when no socket is open; the state is
\* the one it has set, unless it was stopped meanwhile.
DialsAlone ==
    \A c \in Call : call[c] = "dialing" =>
        /\ ws.state \in {"CONNECTING", "CLOSED"} /\ ws.buffer = None
        /\ \A b \in Call : ~sock[b].open /\ (call[b] = "dialing" => b = c)

\* What an open socket excludes: no frame arrives on one before its upgrade.
OpenSockets ==
    \A c \in Call :
        /\ sock[c].live => sock[c].open
        /\ sock[c].open => ws.state # "RECONNECTING"
        /\ sock[c].live => ws.state # "CONNECTING"

\* A connection begins with an empty buffer.
BufferStartsEmpty == ws.state \in {"CONNECTING", "RECONNECTING"} => ws.buffer = None

\* What holds of the client however connect() and disconnect() are called.
ClientInv ==
    /\ TypeOK
    /\ NoSocketLeaked /\ TimerMeansReconnecting /\ BufferIsCurrent
    /\ DialsAlone /\ OpenSockets /\ BufferStartsEmpty

WsInv == ClientInv /\ NotStarted

\* The types of the fields, and of all sockets.
Fields == [state : States, auto : BOOLEAN, socket : Call \cup {None},
           timer : BOOLEAN, strays : Nat, ping : BOOLEAN,
           attempts : 0..MaxExponent, buffer : Call \cup {None}]
Sockets == [Call -> [open : BOOLEAN, upgrade : BOOLEAN, live : BOOLEAN]]

-----------------------------------------------------------------------------

\* A client that was never started satisfies the invariant.
LEMMA WsInitInv == Init => WsInv
  BY WsClientAssumption
     DEF Init, WsInv, ClientInv, TypeOK, NoSocketLeaked, TimerMeansReconnecting,
         BufferIsCurrent, NotStarted, DialsAlone, OpenSockets, BufferStartsEmpty,
         NoSocket, States, MaxExponent

-----------------------------------------------------------------------------
(* The client's procedures *)

\* Destroying the current socket leaves none open, if no other was.
LEMMA DestroyAll ==
    ASSUME NEW w, NEW k \in Sockets,
           \A c \in Call : (k[c].open => w.socket = c) /\ (k[c].live => k[c].open)
    PROVE  /\ DestroySocket(w, k) \in Sockets
           /\ \A c \in Call : ~DestroySocket(w, k)[c].open /\ ~DestroySocket(w, k)[c].live
<1>1. NoSocket \in [open : BOOLEAN, upgrade : BOOLEAN, live : BOOLEAN]
      /\ ~NoSocket.open /\ ~NoSocket.live
  BY DEF NoSocket
<1> QED BY <1>1 DEF DestroySocket, Sockets

\* handleConnectionFailure: the client waits with one timer and no socket, or
\* it was disconnected and has neither timer nor reconnect.
LEMMA FailEffect ==
    ASSUME NEW w \in Fields, NEW k \in Sockets, Fail(w, k),
           ~w.timer, w.strays = 0, w.buffer # None => w.buffer = w.socket,
           \A c \in Call : (k[c].open => w.socket = c) /\ (k[c].live => k[c].open)
    PROVE  /\ ws' \in Fields /\ sock' \in Sockets
           /\ ws'.strays = 0
           /\ \/ /\ ws'.state = "RECONNECTING" /\ ws'.timer /\ ws'.buffer = None
                 /\ \A c \in Call : ~sock'[c].open /\ ~sock'[c].live
              \/ /\ ws'.state = "DISCONNECTED" /\ ~ws'.timer
                 /\ ws'.socket = w.socket /\ ws'.buffer = w.buffer /\ sock' = k
<1>1. CASE w.auto
  <2>1. sock' = DestroySocket(w, k) /\ ws' = ScheduleReconnect(w)
    BY <1>1 DEF Fail
  <2>2. /\ ScheduleReconnect(w) \in Fields
        /\ ScheduleReconnect(w).strays = 0
        /\ ScheduleReconnect(w).state = "RECONNECTING"
        /\ ScheduleReconnect(w).timer
        /\ ScheduleReconnect(w).buffer = None
    <3> DEFINE v == ForgetSocket(w)
               a == IF v.attempts < MaxExponent THEN v.attempts + 1 ELSE v.attempts
    <3>1. v \in Fields /\ v.buffer = None /\ v.strays = 0
      BY DEF ForgetSocket, Fields
    <3>2. a \in 0..MaxExponent
      <4> HIDE DEF v
      <4> QED BY <3>1 DEF Fields, MaxExponent
    <3>3. ScheduleReconnect(w) =
             [v EXCEPT !.state = "RECONNECTING", !.attempts = a, !.timer = TRUE, !.strays = 0]
      <4>1. v.strays = 0 /\ ~w.timer
        BY <3>1
      <4> QED BY <4>1, Zenon DEF ScheduleReconnect
    <3> DEFINE r == [v EXCEPT !.state = "RECONNECTING", !.attempts = a,
                              !.timer = TRUE, !.strays = 0]
    <3> HIDE DEF v, a
    <3>4. r \in Fields
      BY <3>1, <3>2 DEF Fields, States
    <3>5. r.strays = 0 /\ r.state = "RECONNECTING" /\ r.timer /\ r.buffer = None
      BY <3>1 DEF Fields
    <3> QED BY <3>3, <3>4, <3>5
  <2> QED BY <2>1, <2>2, DestroyAll
<1>2. CASE ~w.auto
  BY <1>2 DEF Fail, Fields, States
<1> QED BY <1>1, <1>2

\* disconnect(): nothing is left but the dial that may be under way.
LEMMA DisconnectEffect ==
    ASSUME ClientInv, NEW w \in {ws, Consumed}, Disconnect(w)
    PROVE  /\ ws' \in Fields /\ sock' \in Sockets
           /\ ws'.state = "CLOSED" /\ ~ws'.timer /\ ws'.strays = 0 /\ ~ws'.ping
           /\ ws'.buffer = None
           /\ \A c \in Call : ~sock'[c].open /\ ~sock'[c].live
<1>1. ws \in Fields /\ sock \in Sockets /\ w \in Fields
      /\ w.strays = 0 /\ w.socket = ws.socket
  BY DEF ClientInv, TypeOK, TimerMeansReconnecting, Consumed, Fields, Sockets
<1>2. sock' \in Sockets /\ \A c \in Call : ~sock'[c].open /\ ~sock'[c].live
  BY <1>1, DestroyAll DEF Disconnect, ClientInv, NoSocketLeaked, OpenSockets
<1>3. /\ ws' \in Fields
      /\ ws'.state = "CLOSED" /\ ~ws'.timer /\ ws'.strays = 0 /\ ~ws'.ping
      /\ ws'.buffer = None
  BY <1>1 DEF Disconnect, ForgetSocket, CleanupTimers, Fields, States
<1> QED BY <1>2, <1>3

\* disconnect() keeps the client's part of the invariant, from whatever state it
\* is called in.
LEMMA DisconnectInv ==
    ASSUME ClientInv, NEW w \in {ws, Consumed}, Disconnect(w), UNCHANGED call,
           app' \in [start : {"idle", "tor", "done"}, stops : 0..MaxStops],
           peer' \in [Call -> {"none", "connected", "challenging", "replied", "serving"}]
    PROVE  ClientInv'
  BY DisconnectEffect
     DEF ClientInv, TypeOK, NoSocketLeaked, TimerMeansReconnecting, BufferIsCurrent,
         DialsAlone, OpenSockets, BufferStartsEmpty, Fields, Sockets

\* connect() dials when no socket is open and nobody else dials.
LEMMA ConnectInv ==
    ASSUME ClientInv, NEW w \in Fields, ConnectFrom(w), UNCHANGED <<sock, peer>>,
           app' \in [start : {"idle", "tor", "done"}, stops : 0..MaxStops],
           w.state \in {"DISCONNECTED", "CLOSED", "RECONNECTING"},
           ~w.timer, w.strays = 0, w.buffer = None,
           \A c \in Call : call[c] # "dialing" /\ ~sock[c].open
    PROVE  ClientInv'
<1>1. /\ ws' = [w EXCEPT !.auto = TRUE, !.state = "CONNECTING"]
      /\ \E c \in Call : call' = [call EXCEPT ![c] = "dialing"]
  BY DEF ConnectFrom, Up
<1>2. ws' \in Fields /\ ws'.state = "CONNECTING" /\ ~ws'.timer /\ ws'.strays = 0
      /\ ws'.buffer = None
  BY <1>1 DEF Fields, States
<1>3. PICK c \in Call : call' = [call EXCEPT ![c] = "dialing"]
  BY <1>1
<1>4. /\ call' \in [Call -> {"idle", "dialing", "upgrading"}]
      /\ \A b \in Call : call'[b] = "dialing" => b = c
  BY <1>3 DEF ClientInv, TypeOK
<1> QED
  BY <1>2, <1>4
     DEF ClientInv, TypeOK, NoSocketLeaked, TimerMeansReconnecting, BufferIsCurrent,
         DialsAlone, OpenSockets, BufferStartsEmpty, Fields, Sockets

-----------------------------------------------------------------------------
(* The events *)

\* The fields and sockets, typed, with what ClientInv says of them.
LEMMA ClientFacts ==
    ASSUME ClientInv
    PROVE  /\ ws \in Fields /\ sock \in Sockets
           /\ ws.strays = 0 /\ (ws.timer <=> ws.state = "RECONNECTING")
           /\ ws.buffer # None => ws.buffer = ws.socket
           /\ Consumed \in Fields /\ Consumed.buffer = None /\ Consumed.strays = 0
           /\ Consumed.socket = ws.socket /\ (Consumed.timer <=> ws.timer)
           /\ Consumed.state = ws.state
           /\ \A c \in Call : (sock[c].open => ws.socket = c) /\ (sock[c].live => sock[c].open)
  BY DEF ClientInv, TypeOK, NoSocketLeaked, TimerMeansReconnecting, BufferIsCurrent,
         OpenSockets, Consumed, Fields, Sockets

\* After a failure the invariant holds whatever was left by it.
LEMMA FailInv ==
    ASSUME ClientInv, NEW w \in Fields, NEW k \in Sockets, Fail(w, k),
           ~w.timer, w.strays = 0, w.buffer # None => w.buffer = w.socket,
           \A c \in Call : (k[c].open => w.socket = c) /\ (k[c].live => k[c].open),
           \A c \in Call : call'[c] # "dialing",
           UNCHANGED app,
           call' \in [Call -> {"idle", "dialing", "upgrading"}],
           peer' \in [Call -> {"none", "connected", "challenging", "replied", "serving"}]
    PROVE  ClientInv'
<1>1. TypeOK'
  BY FailEffect DEF ClientInv, TypeOK, Fields, Sockets
<1>2. DialsAlone'
  BY DEF DialsAlone
<1>3. CASE /\ ws'.state = "RECONNECTING" /\ ws'.timer /\ ws'.buffer = None
           /\ \A c \in Call : ~sock'[c].open /\ ~sock'[c].live
  BY <1>1, <1>2, <1>3, FailEffect
     DEF ClientInv, NoSocketLeaked, TimerMeansReconnecting, BufferIsCurrent,
         OpenSockets, BufferStartsEmpty
<1>4. CASE /\ ws'.state = "DISCONNECTED" /\ ~ws'.timer
           /\ ws'.socket = w.socket /\ ws'.buffer = w.buffer /\ sock' = k
  BY <1>1, <1>2, <1>4, FailEffect
     DEF ClientInv, NoSocketLeaked, TimerMeansReconnecting, BufferIsCurrent,
         OpenSockets, BufferStartsEmpty
<1> QED BY <1>3, <1>4, FailEffect

\* A socket that is open excludes a dial and a pending reconnect.
LEMMA OpenExcludes ==
    ASSUME ClientInv, NEW c \in Call, sock[c].open
    PROVE  /\ \A b \in Call : call[b] # "dialing"
           /\ ws.socket = c /\ ~ws.timer /\ ws.state # "RECONNECTING"
           /\ \A b \in Call \ {c} : ~sock[b].open /\ ~sock[b].live
  BY DEF ClientInv, NoSocketLeaked, TimerMeansReconnecting, DialsAlone, OpenSockets

\* Every event of a connection keeps the invariant.
LEMMA ConnectionInv ==
    ASSUME ClientInv, NEW c \in Call, Connection(c)
    PROVE  ClientInv' /\ UNCHANGED app
<1> USE ClientFacts
<1>t. /\ call \in [Call -> {"idle", "dialing", "upgrading"}]
      /\ peer \in [Call -> {"none", "connected", "challenging", "replied", "serving"}]
  BY DEF ClientInv, TypeOK
<1> DEFINE Conjuncts ==
      NoSocketLeaked' /\ TimerMeansReconnecting' /\ BufferIsCurrent' /\ DialsAlone'
        /\ OpenSockets' /\ BufferStartsEmpty'
<1>1. CASE DialOk(c)
  <2>1. /\ \A b \in Call : ~sock[b].open /\ ~sock[b].live
        /\ \A b \in Call : call'[b] # "dialing"
        /\ ws.state \in {"CONNECTING", "CLOSED"} /\ ws.buffer = None
    BY <1>1, <1>t DEF DialOk, ClientInv, DialsAlone
  <2>2. /\ ws' \in Fields /\ ws'.socket = c /\ ws'.state = ws.state
        /\ ws'.buffer = None /\ ws'.timer = ws.timer /\ ws'.strays = 0
    BY <1>1, <2>1 DEF DialOk, Fields
  <2>3. /\ sock' \in Sockets /\ ~sock'[c].live
        /\ \A b \in Call \ {c} : sock'[b] = sock[b]
    BY <1>1 DEF DialOk, Sockets
  <2>4. TypeOK'
    BY <1>1, <1>t, <2>2, <2>3 DEF DialOk, ClientInv, TypeOK, Fields, Sockets
  <2>5. Conjuncts
    BY <2>1, <2>2, <2>3
       DEF NoSocketLeaked, TimerMeansReconnecting, BufferIsCurrent, DialsAlone,
           OpenSockets, BufferStartsEmpty
  <2> QED BY <1>1, <2>4, <2>5 DEF DialOk, ClientInv
<1>2. CASE DialFail(c)
  <2>1. ws.state \in {"CONNECTING", "CLOSED"} /\ \A b \in Call : call[b] = "dialing" => b = c
    BY <1>2 DEF DialFail, ClientInv, DialsAlone
  <2>2. /\ \A b \in Call : call'[b] # "dialing"
        /\ call' \in [Call -> {"idle", "dialing", "upgrading"}]
    BY <1>2, <1>t, <2>1 DEF DialFail
  <2> QED BY <1>2, <1>t, <2>1, <2>2, FailInv DEF DialFail
<1>3. CASE UpgradeOk(c)
  <2>1. ws.socket = c /\ \A b \in Call : call'[b] # "dialing"
    BY <1>3, <1>t, OpenExcludes DEF UpgradeOk
  <2>2. /\ ws' \in Fields /\ ws'.socket = c /\ ws'.state = "AWAITING_CHALLENGE"
        /\ ws'.buffer = ws.buffer /\ ws'.timer = ws.timer /\ ws'.strays = 0
    <3>1. ws' = [ws EXCEPT !.state = "AWAITING_CHALLENGE", !.attempts = 0]
      BY <1>3 DEF UpgradeOk
    <3>2. 0 \in 0..MaxExponent /\ "AWAITING_CHALLENGE" \in States
      BY DEF MaxExponent, States
    <3> QED BY <2>1, <3>1, <3>2 DEF Fields
  <2>3. /\ sock' \in Sockets
        /\ \A b \in Call : sock'[b].open = sock[b].open
        /\ sock[c].open /\ \A b \in Call \ {c} : sock'[b].live = sock[b].live
    <3>1. /\ sock' = [b \in Call |-> IF b = c THEN [sock[b] EXCEPT !.upgrade = FALSE, !.live = TRUE]
                                             ELSE sock[b]]
          /\ sock \in Sockets /\ sock[c].open
      BY <1>3, <1>t, <2>1 DEF UpgradeOk, ClientInv, TypeOK, Sockets
    <3>2. \A b \in Call : sock[b] \in [open : BOOLEAN, upgrade : BOOLEAN, live : BOOLEAN]
      BY <3>1 DEF Sockets
    <3>3. \A b \in Call : /\ sock'[b] \in [open : BOOLEAN, upgrade : BOOLEAN, live : BOOLEAN]
                          /\ sock'[b].open = sock[b].open
      BY <3>1, <3>2
    <3>4. \A b \in Call \ {c} : sock'[b] = sock[b]
      BY <3>1
    <3> QED BY <3>1, <3>3, <3>4 DEF Sockets
  <2>4. TypeOK'
    BY <1>3, <1>t, <2>2, <2>3 DEF UpgradeOk, ClientInv, TypeOK, Fields, Sockets
  <2>5. ~ws.timer
    BY <2>3, OpenExcludes
  <2>6. Conjuncts
    BY <2>1, <2>2, <2>3, <2>5
       DEF NoSocketLeaked, TimerMeansReconnecting, BufferIsCurrent, DialsAlone,
           OpenSockets, BufferStartsEmpty
  <2> QED BY <1>3, <2>4, <2>6 DEF UpgradeOk, ClientInv
<1>4. CASE UpgradeRejected(c)
  <2> DEFINE k == [sock EXCEPT ![c].upgrade = FALSE]
  <2>1. k \in Sockets /\ \A b \in Call : k[b].open = sock[b].open /\ k[b].live = sock[b].live
    BY DEF Sockets
  <2>2. ~ws.timer /\ \A b \in Call : call[b] # "dialing"
    BY <1>4, OpenExcludes DEF UpgradeRejected
  <2>3. /\ call' \in [Call -> {"idle", "dialing", "upgrading"}]
        /\ peer' \in [Call -> {"none", "connected", "challenging", "replied", "serving"}]
        /\ \A b \in Call : call'[b] # "dialing"
    BY <1>4, <1>t, <2>2 DEF UpgradeRejected
  <2>4. Fail(ws, k) /\ UNCHANGED app
    BY <1>4 DEF UpgradeRejected
  <2> HIDE DEF k
  <2> QED BY <2>1, <2>2, <2>3, <2>4, FailInv
<1>5. CASE Chunk(c)
  <2>1. ws.socket = c /\ ~ws.timer /\ ws.state \notin {"CONNECTING", "RECONNECTING"}
    BY <1>5, OpenExcludes DEF Chunk, Receives, ClientInv, OpenSockets
  <2>2. /\ ws' \in Fields /\ ws'.socket = c /\ ws'.state = ws.state
        /\ ws'.buffer = c /\ ws'.timer = ws.timer /\ ws'.strays = 0
    BY <1>5, <2>1 DEF Chunk, Fields
  <2>3. TypeOK'
    BY <1>5, <2>2 DEF Chunk, ClientInv, TypeOK, Fields, Sockets
  <2>4. \A b \in Call : call[b] # "dialing"
    BY <1>5, OpenExcludes DEF Chunk, Receives
  <2>5. Conjuncts
    BY <1>5, <2>1, <2>2, <2>4
       DEF Chunk, ClientInv, NoSocketLeaked, TimerMeansReconnecting, BufferIsCurrent, DialsAlone,
           OpenSockets, BufferStartsEmpty
  <2> QED BY <1>5, <2>3, <2>5 DEF Chunk, ClientInv
<1>6. CASE OtherFrame(c)
  BY <1>6
     DEF OtherFrame, ClientInv, TypeOK, NoSocketLeaked, TimerMeansReconnecting, BufferIsCurrent,
         DialsAlone, OpenSockets, BufferStartsEmpty, Fields, Sockets
<1>7. CASE Challenge(c)
  <2>1. /\ ws.socket = c /\ ~ws.timer /\ \A b \in Call : call[b] # "dialing"
    BY <1>7, OpenExcludes DEF Challenge, Receives
  <2>2. /\ ws' \in Fields /\ ws'.socket = c /\ ws'.state = "AUTHENTICATING"
        /\ ws'.buffer = None /\ ws'.timer = ws.timer /\ ws'.strays = 0
    BY <1>7, <2>1 DEF Challenge, Fields, States
  <2>3. TypeOK'
    BY <1>7, <1>t, <2>2 DEF Challenge, ClientInv, TypeOK, Fields, Sockets
  <2>4. Conjuncts
    BY <1>7, <2>1, <2>2
       DEF Challenge, ClientInv, NoSocketLeaked, TimerMeansReconnecting, BufferIsCurrent,
           DialsAlone, OpenSockets, BufferStartsEmpty
  <2> QED BY <1>7, <2>3, <2>4 DEF Challenge, ClientInv
<1>8. CASE ChallengeBad(c)
  <2>1. ~ws.timer /\ \A b \in Call : call[b] # "dialing"
    BY <1>8, OpenExcludes DEF ChallengeBad, Receives
  <2> QED BY <1>8, <1>t, <2>1, FailInv DEF ChallengeBad
<1>9. CASE Authenticated(c)
  <2>1. /\ ws.socket = c /\ ~ws.timer /\ \A b \in Call : call[b] # "dialing"
    BY <1>9, OpenExcludes DEF Authenticated, Receives
  <2>2. /\ ws' \in Fields /\ ws'.socket = c /\ ws'.state = Up
        /\ ws'.buffer = None /\ ~ws'.timer /\ ws'.strays = 0
    BY <1>9, <2>1 DEF Authenticated, CleanupTimers, Fields, States
  <2>3. TypeOK'
    BY <1>9, <1>t, <2>2 DEF Authenticated, ClientInv, TypeOK, Fields, Sockets
  <2>4. Conjuncts
    BY <1>9, <2>1, <2>2
       DEF Authenticated, Up, ClientInv, NoSocketLeaked, TimerMeansReconnecting,
           BufferIsCurrent, DialsAlone, OpenSockets, BufferStartsEmpty
  <2> QED BY <1>9, <2>3, <2>4 DEF Authenticated, ClientInv
<1>10. CASE CloseFrame(c)
  <2>1. peer' \in [Call -> {"none", "connected", "challenging", "replied", "serving"}]
    BY <1>10, <1>t DEF CloseFrame
  <2>2. app' \in [start : {"idle", "tor", "done"}, stops : 0..MaxStops]
    BY <1>10 DEF CloseFrame, ClientInv, TypeOK
  <2> QED BY <1>10, <2>1, <2>2, DisconnectInv DEF CloseFrame
<1>11. CASE SocketClosed(c)
  <2> DEFINE k == [sock EXCEPT ![c] = NoSocket]
             w == IF sock[c].live THEN CleanupTimers(ws) ELSE ws
  <2>0. sock[c].open /\ ws.socket = c /\ \A b \in Call : call[b] # "dialing"
    BY <1>11, OpenExcludes DEF SocketClosed
  <2>1. /\ k \in Sockets
        /\ \A b \in Call : ~k[b].open /\ ~k[b].live
    BY <2>0, OpenExcludes DEF Sockets, NoSocket
  <2>2. /\ w \in Fields /\ ~w.timer /\ w.strays = 0 /\ w.socket = ws.socket
        /\ w.buffer = ws.buffer /\ w.state = ws.state
    BY <2>0, OpenExcludes DEF CleanupTimers, Fields
  <2>3. /\ UNCHANGED <<app, call>>
        /\ peer' \in [Call -> {"none", "connected", "challenging", "replied", "serving"}]
        /\ Fail(w, k) \/ (ws' = w /\ sock' = k)
    BY <1>11, <1>t DEF SocketClosed
  <2> HIDE DEF k, w
  <2>4. CASE Fail(w, k)
    BY <1>t, <2>0, <2>1, <2>2, <2>3, <2>4, FailInv
  <2>5. CASE ws' = w /\ sock' = k
    <3>1. TypeOK'
      BY <1>t, <2>1, <2>2, <2>3, <2>5 DEF ClientInv, TypeOK, Fields, Sockets
    <3>2. Conjuncts
      BY <2>0, <2>1, <2>2, <2>3, <2>5, OpenExcludes
         DEF ClientInv, NoSocketLeaked, TimerMeansReconnecting, BufferIsCurrent, DialsAlone,
             OpenSockets, BufferStartsEmpty
    <3> QED BY <2>3, <3>1, <3>2 DEF ClientInv
  <2> QED BY <2>3, <2>4, <2>5
<1> QED
  BY <1>1, <1>2, <1>3, <1>4, <1>5, <1>6, <1>7, <1>8, <1>9, <1>10, <1>11 DEF Connection

\* And so does every step, of the application and the timer too.
LEMMA WsNextInv == WsInv /\ [Next]_vars => WsInv'
<1> SUFFICES ASSUME WsInv, [Next]_vars PROVE WsInv'
  OBVIOUS
<1>0. ClientInv /\ NotStarted
  BY DEF WsInv
<1>1. CASE Start
  BY <1>0, <1>1
     DEF Start, WsInv, ClientInv, TypeOK, NoSocketLeaked, TimerMeansReconnecting,
         BufferIsCurrent, NotStarted, DialsAlone, OpenSockets, BufferStartsEmpty
<1>2. CASE StartConnect
  <2>1. /\ ws.state \in {"DISCONNECTED", "CLOSED"} /\ ws.buffer = None
        /\ \A c \in Call : call[c] # "dialing" /\ ~sock[c].open
    BY <1>0, <1>2 DEF NotStarted, StartConnect
  <2>2. /\ app' \in [start : {"idle", "tor", "done"}, stops : 0..MaxStops]
        /\ app'.start = "done"
    BY <1>0, <1>2 DEF StartConnect, ClientInv, TypeOK
  <2>3. ClientInv'
    BY <1>0, <1>2, <2>1, <2>2, ClientFacts, ConnectInv DEF StartConnect
  <2> QED BY <2>2, <2>3 DEF WsInv, NotStarted
<1>3. CASE Stop
  <2>1. app' \in [start : {"idle", "tor", "done"}, stops : 0..MaxStops]
    BY <1>0, <1>3, WsClientAssumption DEF Stop, ClientInv, TypeOK
  <2>2. ClientInv'
    BY <1>0, <1>3, <2>1, DisconnectInv DEF Stop, ClientInv, TypeOK
  <2>3. app'.start = app.start
    BY <1>0, <1>3 DEF Stop, ClientInv, TypeOK
  <2>4. ws'.state = "CLOSED" /\ ws'.buffer = None /\ \A c \in Call : ~sock'[c].open
    BY <1>0, <1>3, DisconnectEffect DEF Stop
  <2>5. NotStarted'
    BY <1>0, <1>3, <2>3, <2>4 DEF Stop, NotStarted
  <2> QED BY <2>2, <2>5 DEF WsInv
<1>4. ASSUME NEW c \in Call, Connection(c) PROVE WsInv'
  <2>1. call[c] = "dialing" \/ sock[c].open
    BY <1>4 DEF Connection, DialOk, DialFail, UpgradeOk, UpgradeRejected, Chunk, OtherFrame,
                Challenge, ChallengeBad, Authenticated, CloseFrame, SocketClosed, Receives
  <2>2. app.start = "done"
    BY <1>0, <2>1 DEF NotStarted
  <2> QED BY <1>0, <1>4, <2>2, ConnectionInv DEF WsInv, NotStarted
<1>5. CASE TimerFires
  <2> DEFINE w == [ws EXCEPT !.timer = FALSE]
  <2>1. ws.timer /\ ws.state = "RECONNECTING" /\ ws.strays = 0
    BY <1>0, <1>5, ClientFacts DEF TimerFires
  <2>2. /\ w \in Fields /\ w.state = "RECONNECTING" /\ ~w.timer /\ w.strays = 0
        /\ w.buffer = ws.buffer
    BY <1>0, <2>1, ClientFacts DEF Fields
  <2>3. ws.buffer = None /\ \A c \in Call : call[c] # "dialing" /\ ~sock[c].open
    BY <1>0, <2>1 DEF ClientInv, BufferStartsEmpty, DialsAlone, OpenSockets
  <2>4. ConnectFrom(w) /\ UNCHANGED <<app, sock, peer>>
    BY <1>5, <2>1 DEF TimerFires
  <2> HIDE DEF w
  <2>5. ClientInv'
    BY <1>0, <2>2, <2>3, <2>4, ConnectInv DEF ClientInv, TypeOK
  <2>6. app.start = "done"
    BY <1>0, <2>1 DEF NotStarted
  <2> QED BY <2>4, <2>5, <2>6 DEF WsInv, NotStarted
<1>6. CASE UNCHANGED vars
  BY <1>0, <1>6
     DEF vars, WsInv, ClientInv, TypeOK, NoSocketLeaked, TimerMeansReconnecting,
         BufferIsCurrent, NotStarted, DialsAlone, OpenSockets, BufferStartsEmpty
<1> QED BY <1>1, <1>2, <1>3, <1>4, <1>5, <1>6 DEF Next

\* The invariant holds in every reachable state.
LEMMA WsInvariant == Spec => []WsInv
  BY WsInitInv, WsNextInv, PTL DEF Spec

\* The client's variables always have their types.
THEOREM WsTypeCorrect == Spec => []TypeOK
  BY WsInvariant, PTL DEF WsInv, ClientInv

\* An open socket is the current one, however dials, stops and timers
\* interleave: none is out of the client's reach.
THEOREM NoSocketLeakedHolds == Spec => []NoSocketLeaked
  BY WsInvariant, PTL DEF WsInv, ClientInv

\* One timer is armed exactly in the state RECONNECTING, and none is forgotten.
THEOREM TimerMeansReconnectingHolds == Spec => []TimerMeansReconnecting
  BY WsInvariant, PTL DEF WsInv, ClientInv

\* What the receive buffer holds came by the current socket.
THEOREM BufferIsCurrentHolds == Spec => []BufferIsCurrent
  BY WsInvariant, PTL DEF WsInv, ClientInv

=============================================================================
