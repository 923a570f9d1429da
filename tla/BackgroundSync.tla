--------------------------- MODULE BackgroundSync ---------------------------
(***************************************************************************)
(* BackgroundSyncService.executeSync: a headless cycle that opens the      *)
(* database, starts Tor under a timeout, connects a client of its own,     *)
(* drains the mailbox until it has been quiet for a while, and cleans up.  *)
(* The client is the one of WsClient; its events call the cycle back.      *)
(*                                                                         *)
(* What follows the settling of an awaited promise runs before the next    *)
(* event: nothing happens between the phase "settled" and the finally      *)
(* block.  Every cycle makes a new client object.  A cycle that is asked   *)
(* for while one is running returns at once and is left out.               *)
(*                                                                         *)
(* Two things outlive the cycle that began them, and are told apart by its *)
(* number: the timer of the bootstrap, which nothing clears, and the       *)
(* notification of a message, which its callback awaits before it arms the *)
(* drain timer anew.                                                       *)
(***************************************************************************)
EXTENDS WsClient

CONSTANTS
    MaxCycles,    \* bound: cycles
    MaxMessages   \* bound: messages that the relay hands out

ASSUME BackgroundSyncAssumption == MaxCycles \in Nat /\ MaxMessages \in Nat

VARIABLES
    run,      \* the cycle: its phase and its resources
    tor,      \* the TorManager singleton: its status, native starts that no
              \* cycle waits for any more, and how many there have been
    cycles,   \* how many cycles were begun
    mail,     \* messages of the cycle's client: stored, or taken and lost
    bootTimers,   \* cycles whose bootstrap timer is armed
    drainTimers,  \* cycles whose drain timer is armed
    notes,        \* per cycle, the notifications that its callbacks await
    overrun       \* history: cycles with one that ended after they had settled

timed == <<bootTimers, drainTimers, notes, overrun>>
sync  == <<run, tor, cycles, mail, timed>>
all   == <<vars, sync>>

Cycle == 1..MaxCycles

Phases == {"idle", "setup", "bootstrap", "connect", "drain", "settled", "stopping"}
Statuses == {"NOT_INITIALIZED", "BOOTSTRAPPING", "READY", "STOPPED", "ERROR"}

NoRun == [phase |-> "idle", db |-> FALSE, tor |-> FALSE, client |-> FALSE]

SyncInit ==
    /\ Init
    /\ run = NoRun
    /\ tor = [status |-> "NOT_INITIALIZED", orphans |-> 0, timeouts |-> 0]
    /\ cycles = 0
    /\ mail = [stored |-> 0, lost |-> 0]
    /\ bootTimers = {} /\ drainTimers = {} /\ overrun = {}
    /\ notes = [k \in Cycle |-> 0]

Calm == run.phase # "settled"

\* Fault variant: the drain timer is not cleared.
SettleKeepTimer ==
    /\ run' = [run EXCEPT !.phase = "settled"]
    /\ UNCHANGED <<drainTimers, notes, overrun>>

\* The promise of the phase is settled; a drain timer is cleared.
Settle ==
    /\ run' = [run EXCEPT !.phase = "settled"]
    /\ drainTimers' = drainTimers \ {cycles}
    /\ UNCHANGED <<notes, overrun>>

-----------------------------------------------------------------------------
(* Up to the bootstrap of Tor *)

Execute ==
    /\ run.phase = "idle"
    /\ cycles < MaxCycles
    /\ cycles' = cycles + 1
    /\ run' = [NoRun EXCEPT !.phase = "setup"]
    /\ UNCHANGED <<vars, tor, mail, timed>>

\* There is no identity, the database cannot be opened, or the notifications
\* cannot be initialized; an open database is closed in Cleanup.
SetupFails ==
    /\ run.phase = "setup"
    /\ Settle
    /\ UNCHANGED <<vars, tor, cycles, mail, bootTimers>>

(***************************************************************************)
(* The database is open and startTor is called: it returns at once if Tor  *)
(* is ready, otherwise its native start races the timeout.  The timer is   *)
(* armed in either case, and neither the start nor the cycle's end clears  *)
(* it.                                                                     *)
(***************************************************************************)
StartTor ==
    LET ready == tor.status = "READY" IN
    /\ run.phase = "setup"
    /\ run' = [run EXCEPT !.phase = IF ready THEN "connect" ELSE "bootstrap",
                          !.db = TRUE, !.tor = TRUE]
    /\ tor' = IF ready THEN tor ELSE [tor EXCEPT !.status = "BOOTSTRAPPING"]
    /\ bootTimers' = bootTimers \cup {cycles}
    /\ UNCHANGED <<vars, cycles, mail, drainTimers, notes, overrun>>

TorStarted ==
    /\ run.phase = "bootstrap"
    /\ tor' = [tor EXCEPT !.status = "READY"]
    /\ run' = [run EXCEPT !.phase = "connect"]
    /\ UNCHANGED <<vars, cycles, mail, timed>>

TorFailed ==
    /\ run.phase = "bootstrap"
    /\ tor' = [tor EXCEPT !.status = "ERROR"]
    /\ Settle
    /\ UNCHANGED <<vars, cycles, mail, bootTimers>>

\* The timeout wins; the native start goes on.
BootstrapTimeout ==
    /\ run.phase = "bootstrap"
    /\ cycles \in bootTimers
    /\ bootTimers' = bootTimers \ {cycles}
    /\ tor' = [tor EXCEPT !.orphans = @ + 1, !.timeouts = @ + 1]
    /\ Settle
    /\ UNCHANGED <<vars, cycles, mail>>

\* A start that a cycle gave up ends after all, and sets the status.
LateStart ==
    /\ Calm
    /\ tor.orphans > 0
    /\ \E status \in {"READY", "ERROR"} :
          tor' = [tor EXCEPT !.status = status, !.orphans = @ - 1]
    /\ UNCHANGED <<vars, run, cycles, mail, timed>>

\* A new client object, and its connect(); of the last one nothing is left.
Connect ==
    /\ run.phase = "connect"
    /\ run' = [run EXCEPT !.phase = "drain", !.client = TRUE]
    /\ ConnectFrom([ws EXCEPT !.state = "DISCONNECTED", !.auto = TRUE,
                              !.attempts = 0])
    /\ UNCHANGED <<app, sock, peer, tor, cycles, mail, timed>>

-----------------------------------------------------------------------------
(* The client's events and its callbacks *)

\* Steps towards authentication.  They call nobody back ...
Handshake(c) ==
    /\ Calm
    /\ DialOk(c) \/ UpgradeOk(c) \/ Challenge(c)
    /\ UNCHANGED sync

\* ... nor do these; a frame is a ping, or one that is ignored, or a message
\* whose processing throws.
Silent(c) ==
    /\ Calm
    /\ Chunk(c) \/ CloseFrame(c) \/ (OtherFrame(c) /\ peer[c] = "serving")
    /\ UNCHANGED sync

\* onError: the promise is rejected.
ClientError(c) ==
    /\ Calm
    /\ DialFail(c) \/ UpgradeRejected(c) \/ ChallengeBad(c) \/ OtherFrame(c)
    /\ Settle
    /\ UNCHANGED <<tor, cycles, mail, bootTimers>>

\* onDisconnect, for a socket that has its handlers.
ClientLost(c) ==
    /\ Calm
    /\ SocketClosed(c)
    /\ IF sock[c].live /\ ws.state \notin {"CLOSED", "DISCONNECTED"}
       THEN Settle ELSE UNCHANGED <<run, drainTimers, notes, overrun>>
    /\ UNCHANGED <<tor, cycles, mail, bootTimers>>

\* Fault variant: the timer is left to the first message.
ClientAuthenticatedUntimed(c) ==
    /\ Calm
    /\ Authenticated(c)
    /\ UNCHANGED sync

\* onAuthenticated: the drain timer is armed.
ClientAuthenticated(c) ==
    /\ Calm
    /\ Authenticated(c)
    /\ drainTimers' = drainTimers \cup {cycles}
    /\ UNCHANGED <<run, tor, cycles, mail, bootTimers, notes, overrun>>

(***************************************************************************)
(* onMessage: processIncomingEnvelope decrypts and stores, which fails if  *)
(* the database is closed, and awaits the notification.                    *)
(***************************************************************************)
ClientMessage(c) ==
    /\ Calm
    /\ OtherFrame(c)
    /\ peer[c] = "serving"
    /\ mail.stored + mail.lost < MaxMessages
    /\ mail' = IF run.db THEN [mail EXCEPT !.stored = @ + 1]
                         ELSE [mail EXCEPT !.lost = @ + 1]
    /\ notes' = IF run.db THEN [notes EXCEPT ![cycles] = @ + 1] ELSE notes
    /\ UNCHANGED <<run, tor, cycles, bootTimers, drainTimers, overrun>>

(***************************************************************************)
(* The notification is displayed, and the callback goes on: drainTimer is  *)
(* never reset, so a timer is armed anew even if the cycle has settled.    *)
(***************************************************************************)
NotificationShown(k) ==
    /\ Calm
    /\ notes[k] > 0
    /\ notes' = [notes EXCEPT ![k] = @ - 1]
    /\ drainTimers' = drainTimers \cup {k}
    /\ overrun' = IF k = cycles /\ run.phase = "drain" THEN overrun ELSE overrun \cup {k}
    /\ UNCHANGED <<vars, run, tor, cycles, mail, bootTimers>>

\* It throws, which the callback ignores.
NotificationFails(k) ==
    /\ Calm
    /\ notes[k] > 0
    /\ notes' = [notes EXCEPT ![k] = @ - 1]
    /\ UNCHANGED <<vars, run, tor, cycles, mail, bootTimers, drainTimers, overrun>>

DrainTimer ==
    /\ run.phase = "drain"
    /\ cycles \in drainTimers
    /\ Settle
    /\ UNCHANGED <<vars, tor, cycles, mail, bootTimers>>

\* A timer fires whose promise is settled: nothing comes of it.
LateBootTimer(k) ==
    /\ Calm
    /\ k \in bootTimers
    /\ ~(k = cycles /\ run.phase = "bootstrap")
    /\ bootTimers' = bootTimers \ {k}
    /\ UNCHANGED <<vars, run, tor, cycles, mail, drainTimers, notes, overrun>>

LateDrainTimer(k) ==
    /\ Calm
    /\ k \in drainTimers
    /\ ~(k = cycles /\ run.phase = "drain")
    /\ drainTimers' = drainTimers \ {k}
    /\ UNCHANGED <<vars, run, tor, cycles, mail, bootTimers, notes, overrun>>

Late(k) ==
    \/ NotificationShown(k) \/ NotificationFails(k)
    \/ LateBootTimer(k) \/ LateDrainTimer(k)

-----------------------------------------------------------------------------
(* finally *)

\* Fault variant: Tor is stopped only by a cycle that has connected.
CleanupKeepTor ==
    /\ run.phase = "settled"
    /\ IF run.client THEN Disconnect(ws) ELSE UNCHANGED <<ws, sock>>
    /\ run' = IF run.client THEN [run EXCEPT !.phase = "stopping"] ELSE NoRun
    /\ UNCHANGED <<app, call, peer, tor, cycles, mail, timed>>

\* Fault variant: the client is disconnected only after an error.
CleanupKeepClient ==
    /\ run.phase = "settled"
    /\ IF run.client /\ ws.state # Up THEN Disconnect(ws) ELSE UNCHANGED <<ws, sock>>
    /\ run' = IF run.tor THEN [run EXCEPT !.phase = "stopping"] ELSE NoRun
    /\ UNCHANGED <<app, call, peer, tor, cycles, mail, timed>>

\* The client is disconnected; stopTor awaits the native stop.
Cleanup ==
    /\ run.phase = "settled"
    /\ IF run.client THEN Disconnect(ws) ELSE UNCHANGED <<ws, sock>>
    /\ run' = IF run.tor THEN [run EXCEPT !.phase = "stopping"] ELSE NoRun
    /\ UNCHANGED <<app, call, peer, tor, cycles, mail, timed>>

\* Fault variant: the database stays open.
FinishKeepDatabase ==
    /\ run.phase = "stopping"
    /\ tor' = [tor EXCEPT !.status = "STOPPED"]
    /\ run' = [NoRun EXCEPT !.db = run.db]
    /\ UNCHANGED <<vars, cycles, mail, timed>>

\* Then the database is closed and isRunning reset.
Finish ==
    /\ run.phase = "stopping"
    /\ tor' = [tor EXCEPT !.status = "STOPPED"]
    /\ run' = NoRun
    /\ UNCHANGED <<vars, cycles, mail, timed>>

Client(c) ==
    \/ Handshake(c) \/ Silent(c) \/ ClientError(c) \/ ClientLost(c)
    \/ ClientAuthenticated(c) \/ ClientMessage(c)

SyncNext ==
    \/ Execute \/ SetupFails \/ StartTor
    \/ TorStarted \/ TorFailed \/ BootstrapTimeout \/ LateStart
    \/ Connect \/ DrainTimer \/ Cleanup \/ Finish
    \/ \E c \in Call : Client(c)
    \/ \E k \in Cycle : Late(k)

SyncSpec == SyncInit /\ [][SyncNext]_all

(***************************************************************************)
(* The event loop runs what is due: setup, timers and the finally block.   *)
(* A dial ends; on a connection that stays up the server goes on with the  *)
(* handshake.                                                              *)
(***************************************************************************)
SyncFairSpec ==
    /\ SyncSpec
    /\ WF_all(SetupFails \/ StartTor)
    /\ WF_all(BootstrapTimeout) /\ WF_all(Connect)
    /\ WF_all(DrainTimer) /\ WF_all(Cleanup) /\ WF_all(Finish)
    /\ \A c \in Call : WF_all(Handshake(c)) /\ WF_all(ClientAuthenticated(c))

-----------------------------------------------------------------------------
(* Properties *)

SyncTypeOK ==
    /\ TypeOK
    /\ run \in [phase : Phases, db : BOOLEAN, tor : BOOLEAN, client : BOOLEAN]
    /\ run.phase = "idle" => run = NoRun
    /\ bootTimers \subseteq Cycle /\ drainTimers \subseteq Cycle
    /\ notes \in [Cycle -> Nat] /\ overrun \subseteq Cycle
    /\ tor \in [status : Statuses, orphans : 0..MaxCycles, timeouts : 0..MaxCycles]

(***************************************************************************)
(* A cycle that is over has left nothing of its client running, no socket, *)
(* no dial, no timer, and none reconnects while one is under way either.   *)
(* A drain timer is armed in a draining cycle, or by a notification that   *)
(* ended too late.  The bootstrap timer may well be left.                  *)
(***************************************************************************)
NothingLeftBehind ==
    /\ Calm => ~ws.timer /\ ws.strays = 0
    /\ run.phase = "idle" =>
          /\ ~ws.ping
          /\ \A c \in Call : call[c] # "dialing" /\ ~sock[c].open
    /\ \A k \in drainTimers \ overrun : k = cycles /\ run.phase = "drain"

(***************************************************************************)
(* The relay deletes what it hands out: no message is taken from it by a   *)
(* client whose database is closed already.                                *)
(***************************************************************************)
NoMailLost == mail.lost = 0

(***************************************************************************)
(* BackgroundSyncService.ts:159, "suspend Tor to save battery": between    *)
(* cycles Tor is stopped, whichever way they ended, as long as none has    *)
(* given up a start.                                                       *)
(***************************************************************************)
TorSuspended ==
    run.phase = "idle" /\ tor.timeouts = 0 => tor.status \in {"NOT_INITIALIZED", "STOPPED"}

\* The client waits for an event that calls nobody back: the socket closed
\* during the upgrade, or the server closed it before it had authenticated.
Unanswered ==
    run.phase = "drain" /\ cycles \notin drainTimers /\ (Stalled \/ ws.state = "CLOSED")

(***************************************************************************)
(* A cycle ends, unless its client is left unanswered.                     *)
(***************************************************************************)
CycleEndsIfAnswered == run.phase # "idle" ~> (run.phase = "idle" \/ Unanswered)

(***************************************************************************)
(* BackgroundSyncService.ts:21, "under strict execution time limits": a    *)
(* cycle ends.                                                             *)
(***************************************************************************)
CycleEnds == run.phase # "idle" ~> run.phase = "idle"
=============================================================================
