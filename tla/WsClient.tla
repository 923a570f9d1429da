------------------------------ MODULE WsClient ------------------------------
(***************************************************************************)
(* TorWebSocketClient: the client's end of the message stream, as the      *)
(* orchestrator and the UI drive it: one start(), which goes on after a    *)
(* stop() that came before it, and at most two stop() (logout, and the     *)
(* effect's cleanup).  connect() runs in three pieces, cut at its two      *)
(* awaits; every other handler runs to its end.                            *)
(*                                                                         *)
(* A call of Call is one run of connect() together with the socket it      *)
(* opens; a call that can do nothing more may be used again.  Time is left *)
(* out: a timer that is armed may fire whenever it likes, and of the delay *)
(* of scheduleReconnect only its exponent is kept.                         *)
(***************************************************************************)
EXTENDS Naturals

CONSTANTS
    Call,       \* runs of connect()
    MaxStops,   \* bound: calls of stop()
    None

ASSUME WsClientAssumption == None \notin Call /\ MaxStops \in Nat

VARIABLES
    app,     \* the orchestrator: start() and stop()
    ws,      \* the fields of the client object
    call,    \* call[c]: where connect() is
    sock,    \* sock[c]: its socket, and the listeners on it
    peer     \* peer[c]: the server's end of that socket

vars == <<app, ws, call, sock, peer>>

NoSocket   == [open |-> FALSE, upgrade |-> FALSE, live |-> FALSE]
Up         == "CONNECTED_AUTHENTICATED"
MaxExponent == 5      \* Math.min(this.reconnectAttempts, 5)
States     == {"DISCONNECTED", "CONNECTING", "AWAITING_CHALLENGE", "AUTHENTICATING",
               Up, "RECONNECTING", "CLOSED"}

Init ==
    /\ app  = [start |-> "idle", stops |-> 0]
    /\ ws   = [state |-> "DISCONNECTED", auto |-> TRUE, socket |-> None,
               timer |-> FALSE, strays |-> 0, ping |-> FALSE,
               attempts |-> 0, buffer |-> None]
    /\ call = [c \in Call |-> "idle"]
    /\ sock = [c \in Call |-> NoSocket]
    /\ peer = [c \in Call |-> "none"]

-----------------------------------------------------------------------------
(* The client's own procedures, on w, its fields, and k, all sockets *)

\* Both timers that the fields refer to are cleared.
CleanupTimers(w) == [w EXCEPT !.ping = FALSE, !.timer = FALSE]

\* cleanupSocket: the current socket loses its listeners and is destroyed;
\* what it had received of a frame is forgotten.
DestroySocket(w, k) ==
    [c \in Call |-> IF c = w.socket THEN NoSocket ELSE k[c]]

\* Fault variant: the received bytes outlive their socket.
ForgetSocketKeepBytes(w) == [w EXCEPT !.socket = None]

ForgetSocket(w) == [w EXCEPT !.socket = None, !.buffer = None]

\* Fault variant: the exponent is the number of attempts, however large.
ScheduleReconnectUnbounded(w) ==
    [ForgetSocket(w) EXCEPT
        !.state = "RECONNECTING", !.attempts = @ + 1,
        !.timer = TRUE, !.strays = IF w.timer THEN @ + 1 ELSE @]

\* scheduleReconnect's effect on the fields.  A timer already armed is not
\* cleared, only forgotten.
ScheduleReconnect(w) ==
    [ForgetSocket(w) EXCEPT
        !.state = "RECONNECTING",
        !.attempts = IF @ < MaxExponent THEN @ + 1 ELSE @,
        !.timer = TRUE, !.strays = IF w.timer THEN @ + 1 ELSE @]

\* Fault variant: reconnecting does not close the socket that failed.
FailKeepSocket(w, k) ==
    /\ ws' = IF w.auto THEN ScheduleReconnect(w) ELSE [w EXCEPT !.state = "DISCONNECTED"]
    /\ sock' = k

\* Reconnect, or stay down if disconnect() was called; handleConnectionFailure
\* and the end of the close handler.
Fail(w, k) ==
    /\ ws' = IF w.auto THEN ScheduleReconnect(w) ELSE [w EXCEPT !.state = "DISCONNECTED"]
    /\ sock' = IF w.auto THEN DestroySocket(w, k) ELSE k

\* Fault variant: the reconnect timer survives disconnect().
DisconnectKeepTimer(w) ==
    /\ ws' = [ForgetSocket(w) EXCEPT !.auto = FALSE, !.ping = FALSE, !.state = "CLOSED"]
    /\ sock' = DestroySocket(w, sock)

Disconnect(w) ==
    /\ ws' = [ForgetSocket(CleanupTimers(w)) EXCEPT !.auto = FALSE, !.state = "CLOSED"]
    /\ sock' = DestroySocket(w, sock)

\* A call whose promise is settled, or can never be: its listener is gone.
Spent(c) == call[c] = "idle" \/ (call[c] = "upgrading" /\ ~sock[c].upgrade)
Reusable(c) == Spent(c) /\ ~sock[c].open /\ ws.socket # c

\* connect(), up to its first await; w are the fields when it is called.
ConnectFrom(w) ==
    IF w.state \in {"CONNECTING", Up}
    THEN ws' = w /\ UNCHANGED call
    ELSE /\ ws' = [w EXCEPT !.auto = TRUE, !.state = "CONNECTING"]
         /\ \E c \in Call :
               /\ Reusable(c)
               /\ call' = [call EXCEPT ![c] = "dialing"]

-----------------------------------------------------------------------------
(* AppOrchestrator.start and stop *)

Start ==
    /\ app.start = "idle"
    /\ app' = [app EXCEPT !.start = "tor"]
    /\ UNCHANGED <<ws, call, sock, peer>>

\* startTor has returned: wsClient.connect().
StartConnect ==
    /\ app.start = "tor"
    /\ app' = [app EXCEPT !.start = "done"]
    /\ ConnectFrom(ws)
    /\ UNCHANGED <<sock, peer>>

Stop ==
    /\ app.stops < MaxStops
    /\ app' = [app EXCEPT !.stops = @ + 1]
    /\ Disconnect(ws)
    /\ UNCHANGED <<call, peer>>

-----------------------------------------------------------------------------
(* connect(), after its awaits *)

\* The tunnel is open: this.socket is set and the upgrade request written.
DialOk(c) ==
    /\ call[c] = "dialing"
    /\ call' = [call EXCEPT ![c] = "upgrading"]
    /\ ws' = [ws EXCEPT !.socket = c]
    /\ sock' = [sock EXCEPT ![c] = [open |-> TRUE, upgrade |-> TRUE, live |-> FALSE]]
    /\ peer' = [peer EXCEPT ![c] = "connected"]
    /\ UNCHANGED app

\* The tunnel fails or its 30 s are over.
DialFail(c) ==
    /\ call[c] = "dialing"
    /\ call' = [call EXCEPT ![c] = "idle"]
    /\ Fail(ws, sock)
    /\ UNCHANGED <<app, peer>>

\* The 101 answer.  The handlers go to this.socket, if there is one.
UpgradeOk(c) ==
    /\ call[c] = "upgrading"
    /\ sock[c].open /\ sock[c].upgrade
    /\ call' = [call EXCEPT ![c] = "idle"]
    /\ ws' = [ws EXCEPT !.state = "AWAITING_CHALLENGE", !.attempts = 0]
    /\ sock' = [b \in Call |-> IF b = ws.socket
                               THEN [sock[b] EXCEPT !.upgrade = FALSE, !.live = TRUE]
                               ELSE sock[b]]
    /\ peer' = [peer EXCEPT ![c] = "challenging"]
    /\ UNCHANGED app

\* Another answer.
UpgradeRejected(c) ==
    /\ call[c] = "upgrading"
    /\ sock[c].open /\ sock[c].upgrade
    /\ call' = [call EXCEPT ![c] = "idle"]
    /\ Fail(ws, [sock EXCEPT ![c].upgrade = FALSE])
    /\ peer' = [peer EXCEPT ![c] = "none"]
    /\ UNCHANGED app

-----------------------------------------------------------------------------
(* Events of a socket that has its handlers *)

Receives(c) == sock[c].open /\ sock[c].live /\ peer[c] # "none"

\* A chunk ends inside a frame: handleRawData keeps it and returns.
Chunk(c) ==
    /\ Receives(c)
    /\ ws' = [ws EXCEPT !.buffer = c]
    /\ UNCHANGED <<app, call, sock, peer>>

\* The fields once a frame is complete and has left the buffer.
Consumed == [ws EXCEPT !.buffer = None]

\* A frame that only invokes a callback or is ignored, or a ping.
OtherFrame(c) ==
    /\ Receives(c)
    /\ ws' = Consumed
    /\ UNCHANGED <<app, call, sock, peer>>

\* handleServerChallenge: the signed reply goes to this.socket.
Challenge(c) ==
    /\ Receives(c)
    /\ peer[c] = "challenging"
    /\ ws' = [Consumed EXCEPT !.state = "AUTHENTICATING"]
    /\ peer' = [b \in Call |-> IF b = ws.socket THEN "replied" ELSE peer[b]]
    /\ UNCHANGED <<app, call, sock>>

\* A challenge that cannot be signed.
ChallengeBad(c) ==
    /\ Receives(c)
    /\ peer[c] = "challenging"
    /\ Fail(Consumed, sock)
    /\ peer' = [peer EXCEPT ![c] = "none"]
    /\ UNCHANGED <<app, call>>

Authenticated(c) ==
    /\ Receives(c)
    /\ peer[c] = "replied"
    /\ ws' = [CleanupTimers(Consumed) EXCEPT !.state = Up, !.ping = TRUE]
    /\ peer' = [peer EXCEPT ![c] = "serving"]
    /\ UNCHANGED <<app, call, sock>>

\* Opcode 8 is answered like stop(): no reconnect.
CloseFrame(c) ==
    /\ Receives(c)
    /\ Disconnect(Consumed)
    /\ peer' = [peer EXCEPT ![c] = "none"]
    /\ UNCHANGED <<app, call>>

\* Fault variant: the timers are cleared after the reconnect is scheduled.
SocketClosedLate(c) ==
    LET k == [sock EXCEPT ![c] = NoSocket] IN
    /\ sock[c].open
    /\ peer' = [peer EXCEPT ![c] = "none"]
    /\ IF sock[c].live /\ ws.state \notin {"CLOSED", "DISCONNECTED"} /\ ws.auto
       THEN ws' = CleanupTimers(ScheduleReconnect(ws)) /\ sock' = DestroySocket(ws, k)
       ELSE ws' = ws /\ sock' = k
    /\ UNCHANGED <<app, call>>

(***************************************************************************)
(* The connection goes away.  Before the upgrade nobody listens for that,  *)
(* and connect() waits for ever.                                           *)
(***************************************************************************)
SocketClosed(c) ==
    LET k == [sock EXCEPT ![c] = NoSocket]
        w == IF sock[c].live THEN CleanupTimers(ws) ELSE ws
    IN
    /\ sock[c].open
    /\ peer' = [peer EXCEPT ![c] = "none"]
    /\ IF sock[c].live /\ ws.state \notin {"CLOSED", "DISCONNECTED"}
       THEN Fail(w, k)
       ELSE ws' = w /\ sock' = k
    /\ UNCHANGED <<app, call>>

\* The reconnect timer, or one that was forgotten, fires.
TimerFires ==
    /\ ws.timer \/ ws.strays > 0
    /\ ConnectFrom(IF ws.timer THEN [ws EXCEPT !.timer = FALSE]
                               ELSE [ws EXCEPT !.strays = @ - 1])
    /\ UNCHANGED <<app, sock, peer>>

-----------------------------------------------------------------------------
Connection(c) ==
    \/ DialOk(c) \/ DialFail(c)
    \/ UpgradeOk(c) \/ UpgradeRejected(c)
    \/ Chunk(c) \/ OtherFrame(c)
    \/ Challenge(c) \/ ChallengeBad(c) \/ Authenticated(c)
    \/ CloseFrame(c) \/ SocketClosed(c)

Next ==
    \/ Start \/ StartConnect \/ Stop
    \/ \E c \in Call : Connection(c)
    \/ TimerFires

(***************************************************************************)
(* A timer that is armed fires, a dial ends, and a network that is tried   *)
(* again and again does not fail for ever.                                 *)
(***************************************************************************)
Fairness ==
    /\ WF_vars(TimerFires)
    /\ \A c \in Call :
          /\ WF_vars(DialOk(c) \/ DialFail(c))
          /\ SF_vars(DialOk(c))
          /\ SF_vars(UpgradeOk(c))
          /\ SF_vars(Challenge(c))
          /\ SF_vars(Authenticated(c))

Spec == Init /\ [][Next]_vars
FairSpec == Spec /\ Fairness

-----------------------------------------------------------------------------
(* Properties *)

TypeOK ==
    /\ app \in [start : {"idle", "tor", "done"}, stops : 0..MaxStops]
    /\ ws \in [state : States, auto : BOOLEAN, socket : Call \cup {None},
               timer : BOOLEAN, strays : Nat, ping : BOOLEAN,
               attempts : 0..MaxExponent, buffer : Call \cup {None}]
    /\ call \in [Call -> {"idle", "dialing", "upgrading"}]
    /\ sock \in [Call -> [open : BOOLEAN, upgrade : BOOLEAN, live : BOOLEAN]]
    /\ peer \in [Call -> {"none", "connected", "challenging", "replied", "serving"}]

(***************************************************************************)
(* No socket is leaked: one that is open is the current socket, so stop()  *)
(* and reconnecting can close it, whatever stop() has interrupted.         *)
(***************************************************************************)
NoSocketLeaked == \A c \in Call : sock[c].open => ws.socket = c

(***************************************************************************)
(* A reconnect is pending exactly while the state says so: RECONNECTING    *)
(* never waits for a timer that was cleared, and no timer reconnects a     *)
(* client that is up or was stopped.                                       *)
(***************************************************************************)
TimerMeansReconnecting ==
    /\ ws.timer <=> ws.state = "RECONNECTING"
    /\ ws.strays = 0

(***************************************************************************)
(* The bytes of a frame that was cut off are never completed by another    *)
(* connection: the receive buffer is empty or is the current socket's.     *)
(***************************************************************************)
BufferIsCurrent == ws.buffer # None => ws.buffer = ws.socket

\* connect() waits for an answer on a socket that no longer exists.
Stalled == ws.state = "CONNECTING" /\ \A c \in Call : call[c] # "dialing" /\ ~sock[c].open

(***************************************************************************)
(* A client that lost its connection is up again, unless it was stopped by *)
(* the application or by a close frame, or a socket was closed during the  *)
(* upgrade.                                                                *)
(***************************************************************************)
Recovers ==
    ws.state = "RECONNECTING" ~> (ws.state \in {Up, "CLOSED"} \/ app.stops > 0 \/ Stalled)

=============================================================================
