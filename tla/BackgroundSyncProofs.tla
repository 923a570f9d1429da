------------------------ MODULE BackgroundSyncProofs ------------------------
(***************************************************************************)
(* Proofs about BackgroundSync for any number of cycles and messages: what *)
(* a cycle leaves behind, that no message is lost to a closed database,    *)
(* and that Tor is stopped between cycles.  The client's part rests on     *)
(* the lemmas of WsClientProofs about its events.                          *)
(***************************************************************************)
EXTENDS BackgroundSync, WsClientProofs

\* Nothing of a client is at work: no dial, socket, timer or ping.
Quiet ==
    /\ ~ws.timer /\ ~ws.ping /\ ws.buffer = None
    /\ \A c \in Call : call[c] # "dialing" /\ ~sock[c].open

\* No callback of a cycle has armed a timer or awaits a notification.
Fresh(k) == k \notin drainTimers /\ notes[k] = 0

\* The resources that a cycle holds in each phase, and what its client may do.
PhaseInv ==
    /\ run.client => run.db /\ run.tor
    /\ run.phase \in {"bootstrap", "connect", "drain"} => run.db /\ run.tor
    /\ run.phase = "drain" => run.client /\ ~ws.timer
    /\ run.phase \notin {"drain", "settled"} \/ ~run.client => Quiet
    /\ run.phase = "settled" \/ (run.phase = "drain" /\ ~Fresh(cycles)) =>
          \A c \in Call : call[c] # "dialing"

\* The callbacks of a cycle have work only once its client is authenticated;
\* its timer goes when the cycle settles, and comes back with a late one.
DrainInv ==
    /\ run.phase # "idle" => cycles # 0
    /\ \A k \in Cycle : k > cycles => Fresh(k)
    /\ run.phase \in {"setup", "bootstrap", "connect"} => Fresh(cycles)
    /\ \A k \in drainTimers \ overrun : k = cycles /\ run.phase = "drain"

\* Every late start was given up by a cycle, which did so once.
TorInv ==
    /\ cycles \in 0..MaxCycles
    /\ tor.orphans <= tor.timeouts
    /\ tor.timeouts <= cycles
    /\ run.phase \in {"setup", "bootstrap"} => tor.timeouts < cycles
    /\ ~run.tor /\ tor.timeouts = 0 => tor.status \in {"NOT_INITIALIZED", "STOPPED"}

MailInv == mail \in [stored : Nat, lost : {0}]

SyncInv == ClientInv /\ SyncTypeOK /\ PhaseInv /\ DrainInv /\ TorInv /\ MailInv

-----------------------------------------------------------------------------
\* No cycle has begun.
LEMMA SyncInitInv == SyncInit => SyncInv
<1> SUFFICES ASSUME SyncInit PROVE SyncInv
  OBVIOUS
<1>1. ClientInv
  BY WsInitInv DEF SyncInit, WsInv
<1>2. Quiet
  BY DEF SyncInit, Init, Quiet, NoSocket
<1> QED
  BY <1>1, <1>2, BackgroundSyncAssumption
     DEF SyncInit, SyncInv, ClientInv, SyncTypeOK, PhaseInv, DrainInv, TorInv, MailInv,
         NoRun, Phases, Statuses, Fresh, Cycle

\* What a step does to the client when it does nothing to it.
LEMMA ClientStays ==
    ASSUME ClientInv, UNCHANGED vars
    PROVE  ClientInv' /\ TypeOK' /\ (Quiet' <=> Quiet)
  BY DEF vars, ClientInv, TypeOK, NoSocketLeaked, TimerMeansReconnecting, BufferIsCurrent,
         DialsAlone, OpenSockets, BufferStartsEmpty, Quiet

\* The types of a cycle, and of the TorManager's state.
Runs == [phase : Phases, db : BOOLEAN, tor : BOOLEAN, client : BOOLEAN]
Tors == [status : Statuses, orphans : 0..MaxCycles, timeouts : 0..MaxCycles]

\* The types of the timers and the notifications.
TimedOK ==
    /\ bootTimers \subseteq Cycle /\ drainTimers \subseteq Cycle
    /\ notes \in [Cycle -> Nat] /\ overrun \subseteq Cycle

\* What the invariant says without its definitions.
LEMMA SyncFacts ==
    ASSUME SyncInv
    PROVE  /\ ClientInv /\ PhaseInv /\ DrainInv /\ TorInv /\ MailInv
           /\ run \in Runs /\ tor \in Tors /\ TimedOK
           /\ (run.phase = "idle" => run = NoRun)
           /\ cycles \in 0..MaxCycles /\ MaxCycles \in Nat
           /\ (run.phase # "idle" => cycles \in Cycle)
  BY BackgroundSyncAssumption
     DEF SyncInv, SyncTypeOK, TorInv, DrainInv, Runs, Tors, TimedOK, Cycle

\* What a step must show of the cycle, when the client keeps its own.
LEMMA Assemble ==
    ASSUME ClientInv', run' \in Runs, tor' \in Tors, TimedOK',
           run'.phase = "idle" => run' = NoRun,
           PhaseInv', DrainInv', TorInv', MailInv'
    PROVE  SyncInv'
  BY DEF SyncInv, SyncTypeOK, ClientInv, Runs, Tors, TimedOK

\* Settling keeps what the cycle holds, and clears its timer.
LEMMA SettleEffect ==
    ASSUME run \in Runs, Settle
    PROVE  /\ run' \in Runs /\ run'.phase = "settled"
           /\ run'.db = run.db /\ run'.tor = run.tor /\ run'.client = run.client
           /\ drainTimers' = drainTimers \ {cycles}
           /\ UNCHANGED <<notes, overrun>>
  BY DEF Settle, Runs, Phases

\* A cycle whose client does not dial settles.
LEMMA SettledInv ==
    ASSUME SyncInv, Settle, cycles' = cycles, bootTimers' \subseteq bootTimers,
           ClientInv', TorInv', tor' \in Tors, MailInv',
           run.phase # "idle", run.client \/ Quiet',
           \A c \in Call : call'[c] # "dialing"
    PROVE  SyncInv'
<1>1. /\ run' \in Runs /\ run'.phase = "settled"
      /\ run'.db = run.db /\ run'.tor = run.tor /\ run'.client = run.client
      /\ drainTimers' = drainTimers \ {cycles} /\ UNCHANGED <<notes, overrun>>
  BY SettleEffect, SyncFacts
<1>2. PhaseInv'
  BY <1>1, SyncFacts DEF PhaseInv
<1>3. TimedOK'
  BY <1>1, SyncFacts DEF TimedOK
<1>4. DrainInv'
  BY <1>1, SyncFacts DEF DrainInv, Fresh
<1> QED BY <1>1, <1>2, <1>3, <1>4, Assemble

\* The cycle moves on in a phase before its client's, with Tor as it is now.
LEMMA MovedInv ==
    ASSUME SyncInv, UNCHANGED <<vars, mail, drainTimers, notes, overrun>>,
           bootTimers' \subseteq Cycle, tor' \in Tors,
           tor'.orphans = tor.orphans, tor'.timeouts = tor.timeouts,
           run' \in Runs, run'.phase \in {"setup", "bootstrap", "connect"},
           run'.phase = "bootstrap" => run.phase = "setup",
           run'.phase # "setup" => run'.db /\ run'.tor,
           run'.phase = "setup" => ~run'.client, ~run'.tor => ~run.tor /\ tor' = tor,
           \/ run.phase \in {"setup", "bootstrap"} /\ cycles' = cycles
           \/ run.phase = "idle" /\ cycles' = cycles + 1 /\ cycles < MaxCycles,
           run'.phase = "setup" => cycles' = cycles + 1
    PROVE  SyncInv'
<1>1. ClientInv' /\ (Quiet' <=> Quiet) /\ UNCHANGED <<ws, call>>
  BY SyncFacts, ClientStays DEF vars
<1>2. Quiet
  BY SyncFacts DEF PhaseInv
<1>3. TimedOK'
  BY SyncFacts DEF TimedOK
<1>4. PhaseInv' /\ MailInv'
  BY <1>1, <1>2, SyncFacts DEF PhaseInv, MailInv
<1>5. DrainInv'
  <2>1. /\ \A k \in Cycle : k > cycles => Fresh(k)
        /\ run.phase \in {"setup", "bootstrap", "connect"} => Fresh(cycles)
        /\ \A k \in drainTimers \ overrun : k = cycles /\ run.phase = "drain"
        /\ cycles \in 0..MaxCycles /\ drainTimers \subseteq Cycle
    BY SyncFacts DEF DrainInv, TimedOK
  <2>2. cycles' \in Cycle
    BY SyncFacts DEF Cycle
  <2>3. Fresh(cycles')
    BY <2>1, <2>2 DEF Cycle
  <2>4. \A k \in Cycle : k > cycles' => Fresh(k)
    BY <2>1 DEF Cycle
  <2>5. drainTimers \ overrun = {}
    BY <2>1
  <2> QED BY <2>2, <2>3, <2>4, <2>5 DEF DrainInv, Fresh, Cycle
<1>6. TorInv'
  BY SyncFacts DEF TorInv, Tors
<1> QED BY <1>1, <1>3, <1>4, <1>5, <1>6, Assemble

\* A step of a drain timer or of a notification's callback.
LEMMA TimedInv ==
    ASSUME SyncInv, UNCHANGED <<vars, run, tor, cycles, mail>>, TimedOK', DrainInv',
           run.phase = "drain" /\ ~Fresh(cycles)' => ~Fresh(cycles)
    PROVE  SyncInv'
<1>1. ClientInv' /\ (Quiet' <=> Quiet) /\ UNCHANGED <<ws, call>>
  BY SyncFacts, ClientStays DEF vars
<1>2. PhaseInv' /\ TorInv' /\ MailInv'
  BY <1>1, SyncFacts DEF PhaseInv, TorInv, MailInv
<1> QED BY <1>1, <1>2, SyncFacts, Assemble

-----------------------------------------------------------------------------
\* The steps that leave the client alone.
LEMMA CycleStepInv ==
    ASSUME SyncInv, UNCHANGED vars,
           \/ Execute \/ SetupFails \/ StartTor \/ TorStarted \/ TorFailed
           \/ BootstrapTimeout \/ LateStart \/ DrainTimer \/ Finish
    PROVE  SyncInv'
<1>1. ClientInv' /\ (Quiet' <=> Quiet) /\ UNCHANGED <<ws, call>>
  BY SyncFacts, ClientStays DEF vars
<1>2. /\ run \in Runs /\ tor \in Tors /\ TimedOK /\ (run.phase = "idle" => run = NoRun)
      /\ cycles \in 0..MaxCycles /\ MaxCycles \in Nat
      /\ (run.phase # "idle" => cycles \in Cycle)
      /\ PhaseInv /\ DrainInv /\ TorInv /\ MailInv
  BY SyncFacts
<1>q. run.phase \notin {"drain", "settled"} => Quiet /\ \A c \in Call : call[c] # "dialing"
  BY <1>2 DEF PhaseInv, Quiet
<1>4. CASE Execute
  <2>1. /\ run.phase = "idle" /\ run' = [NoRun EXCEPT !.phase = "setup"]
        /\ cycles' = cycles + 1 /\ cycles < MaxCycles
        /\ UNCHANGED <<tor, mail, bootTimers, drainTimers, notes, overrun>>
    BY <1>4 DEF Execute, timed
  <2>2. run' \in Runs /\ run'.phase = "setup" /\ ~run'.client /\ ~run'.tor
    BY <2>1 DEF NoRun, Runs, Phases
  <2>3. run = NoRun /\ ~run.tor
    BY <1>2, <2>1 DEF NoRun
  <2> QED BY <1>2, <2>1, <2>2, <2>3, MovedInv DEF TimedOK
<1>5. CASE SetupFails
  <2>1. Settle /\ UNCHANGED <<tor, cycles, mail, bootTimers>> /\ run.phase = "setup"
    BY <1>5 DEF SetupFails
  <2>2. run'.phase = "settled" /\ run'.tor = run.tor
    BY <1>2, <2>1, SettleEffect
  <2>3. TorInv' /\ MailInv'
    BY <1>2, <2>1, <2>2 DEF TorInv, MailInv
  <2> QED BY <1>1, <1>2, <1>q, <2>1, <2>3, SettledInv
<1>6. CASE StartTor
  <2>1. /\ run' \in Runs /\ run'.phase \in {"connect", "bootstrap"} /\ run'.db
        /\ run'.tor /\ run'.client = run.client /\ run.phase = "setup"
        /\ UNCHANGED <<cycles, mail, drainTimers, notes, overrun>>
        /\ bootTimers' = bootTimers \cup {cycles}
    BY <1>2, <1>6 DEF StartTor, Runs, Phases
  <2>2. tor' \in Tors /\ tor'.orphans = tor.orphans /\ tor'.timeouts = tor.timeouts
    BY <1>2, <1>6 DEF StartTor, Tors, Statuses
  <2>3. bootTimers' \subseteq Cycle
    BY <1>2, <2>1 DEF TimedOK
  <2> QED BY <2>1, <2>2, <2>3, MovedInv
<1>7. CASE TorStarted
  <2>1. /\ run' \in Runs /\ run'.phase = "connect" /\ run'.db = run.db
        /\ run'.tor = run.tor /\ run'.client = run.client /\ run.phase = "bootstrap"
        /\ UNCHANGED <<cycles, mail, bootTimers, drainTimers, notes, overrun>>
    BY <1>2, <1>7 DEF TorStarted, Runs, Phases, timed
  <2>2. tor' \in Tors /\ tor'.orphans = tor.orphans /\ tor'.timeouts = tor.timeouts
    BY <1>2, <1>7 DEF TorStarted, Tors, Statuses
  <2>3. run.db /\ run.tor
    BY <1>2, <2>1 DEF PhaseInv
  <2> QED BY <1>2, <2>1, <2>2, <2>3, MovedInv DEF TimedOK
<1>8. CASE TorFailed
  <2>1. Settle /\ UNCHANGED <<cycles, mail, bootTimers>> /\ run.phase = "bootstrap"
    BY <1>8 DEF TorFailed
  <2>2. run'.phase = "settled" /\ run'.tor = run.tor /\ run.tor
    BY <1>2, <2>1, SettleEffect DEF PhaseInv
  <2>3. tor' \in Tors /\ tor'.orphans = tor.orphans /\ tor'.timeouts = tor.timeouts
    BY <1>2, <1>8 DEF TorFailed, Tors, Statuses
  <2>4. TorInv' /\ MailInv'
    BY <1>2, <2>1, <2>2, <2>3 DEF TorInv, MailInv
  <2> QED BY <1>1, <1>q, <2>1, <2>3, <2>4, SettledInv
<1>9. CASE BootstrapTimeout
  <2>1. /\ Settle /\ UNCHANGED <<cycles, mail>> /\ run.phase = "bootstrap"
        /\ bootTimers' \subseteq bootTimers
    BY <1>9 DEF BootstrapTimeout
  <2>2. run'.phase = "settled" /\ run'.tor = run.tor /\ run.tor
    BY <1>2, <2>1, SettleEffect DEF PhaseInv
  <2>3. tor.orphans <= tor.timeouts /\ tor.timeouts < cycles
    BY <1>2, <2>1 DEF TorInv
  <2>4. tor.orphans + 1 \in 0..MaxCycles /\ tor.timeouts + 1 \in 0..MaxCycles
    BY <1>2, <2>3 DEF Tors
  <2>5. tor' \in Tors /\ tor'.orphans = tor.orphans + 1 /\ tor'.timeouts = tor.timeouts + 1
    BY <1>2, <1>9, <2>4 DEF BootstrapTimeout, Tors
  <2>6. TorInv' /\ MailInv'
    BY <1>2, <2>1, <2>2, <2>3, <2>5 DEF TorInv, MailInv, Tors
  <2> QED BY <1>1, <1>q, <2>1, <2>5, <2>6, SettledInv
<1>10. CASE LateStart
  <2>1. PICK status \in {"READY", "ERROR"} :
            tor' = [tor EXCEPT !.status = status, !.orphans = @ - 1]
    BY <1>10 DEF LateStart
  <2>2. UNCHANGED <<run, cycles, mail, bootTimers, drainTimers, notes, overrun>>
        /\ tor.orphans > 0
    BY <1>10 DEF LateStart, timed
  <2>3. tor.orphans - 1 \in 0..MaxCycles
    BY <1>2, <2>2 DEF Tors
  <2>4. tor' \in Tors /\ tor'.orphans = tor.orphans - 1 /\ tor'.timeouts = tor.timeouts
    BY <1>2, <2>1, <2>3 DEF Tors, Statuses
  <2>5. TorInv'
    BY <1>2, <2>2, <2>4 DEF TorInv, Tors
  <2>6. PhaseInv' /\ DrainInv' /\ MailInv' /\ TimedOK'
    BY <1>1, <1>2, <2>2 DEF PhaseInv, DrainInv, MailInv, TimedOK, Fresh
  <2> QED BY <1>1, <1>2, <2>2, <2>4, <2>5, <2>6, Assemble
<1>11. CASE DrainTimer
  <2>1. /\ Settle /\ UNCHANGED <<tor, cycles, mail, bootTimers>>
        /\ run.phase = "drain" /\ ~Fresh(cycles)
    BY <1>11 DEF DrainTimer, Fresh
  <2>2. run'.phase = "settled" /\ run'.tor = run.tor /\ run.client
        /\ \A c \in Call : call'[c] # "dialing"
    BY <1>1, <1>2, <2>1, SettleEffect DEF PhaseInv
  <2>3. TorInv' /\ MailInv'
    BY <1>2, <2>1, <2>2 DEF TorInv, MailInv
  <2> QED BY <1>1, <1>2, <2>1, <2>2, <2>3, SettledInv
<1>12. CASE Finish
  <2>1. /\ run' = NoRun /\ run' \in Runs /\ run'.phase = "idle" /\ ~run'.client
        /\ run.phase = "stopping"
        /\ UNCHANGED <<cycles, mail, bootTimers, drainTimers, notes, overrun>>
    BY <1>12 DEF Finish, NoRun, Runs, Phases, timed
  <2>2. /\ tor' \in Tors /\ tor'.orphans = tor.orphans /\ tor'.timeouts = tor.timeouts
        /\ tor'.status = "STOPPED"
    BY <1>2, <1>12 DEF Finish, Tors, Statuses
  <2>3. PhaseInv' /\ MailInv'
    BY <1>1, <1>2, <1>q, <2>1 DEF PhaseInv, MailInv
  <2>4. DrainInv' /\ TimedOK'
    BY <1>2, <2>1 DEF DrainInv, TimedOK, Fresh
  <2>5. TorInv'
    BY <1>2, <2>1, <2>2 DEF TorInv
  <2> QED BY <1>1, <2>1, <2>2, <2>3, <2>4, <2>5, Assemble
<1> QED
  BY <1>4, <1>5, <1>6, <1>7, <1>8, <1>9, <1>10, <1>11, <1>12

\* Notifications that end, and timers whose promise is settled, in any cycle.
LEMMA LateInv ==
    ASSUME SyncInv, NEW k \in Cycle, Late(k)
    PROVE  SyncInv'
<1>1. DrainInv /\ TimedOK
  BY SyncFacts
<1>2. CASE NotificationShown(k)
  <2>1. /\ notes[k] > 0 /\ notes' = [notes EXCEPT ![k] = @ - 1]
        /\ drainTimers' = drainTimers \cup {k}
        /\ overrun' = IF k = cycles /\ run.phase = "drain" THEN overrun
                      ELSE overrun \cup {k}
        /\ UNCHANGED <<vars, run, tor, cycles, mail, bootTimers>>
    BY <1>2 DEF NotificationShown
  <2>2. notes' \in [Cycle -> Nat] /\ \A j \in Cycle \ {k} : notes'[j] = notes[j]
    BY <1>1, <2>1 DEF TimedOK
  <2>3. TimedOK'
    BY <1>1, <2>1, <2>2 DEF TimedOK
  <2>4. ~Fresh(k) /\ \A j \in Cycle \ {k} : Fresh(j)' <=> Fresh(j)
    BY <2>1, <2>2 DEF Fresh
  <2>5. DrainInv'
    <3>1. \A j \in Cycle : j > cycles => Fresh(j)'
      BY <1>1, <2>4 DEF DrainInv
    <3>2. run.phase \in {"setup", "bootstrap", "connect"} => Fresh(cycles)'
      BY <1>1, <2>1, <2>2, SyncFacts DEF DrainInv, Fresh
    <3> QED BY <1>1, <2>1, <3>1, <3>2 DEF DrainInv, Fresh
  <2>6. run.phase = "drain" /\ ~Fresh(cycles)' => ~Fresh(cycles)
    BY <2>1, <2>2, SyncFacts DEF Fresh
  <2> QED BY <2>1, <2>3, <2>5, <2>6, TimedInv
<1>3. CASE NotificationFails(k)
  <2>1. /\ notes[k] > 0 /\ notes' = [notes EXCEPT ![k] = @ - 1]
        /\ UNCHANGED <<vars, run, tor, cycles, mail, bootTimers, drainTimers, overrun>>
    BY <1>3 DEF NotificationFails
  <2>2. notes' \in [Cycle -> Nat] /\ \A j \in Cycle \ {k} : notes'[j] = notes[j]
    BY <1>1, <2>1 DEF TimedOK
  <2>3. TimedOK'
    BY <1>1, <2>1, <2>2 DEF TimedOK
  <2>4. ~Fresh(k) /\ \A j \in Cycle \ {k} : Fresh(j)' <=> Fresh(j)
    BY <2>1, <2>2 DEF Fresh
  <2>5. DrainInv'
    <3>1. \A j \in Cycle : j > cycles => Fresh(j)'
      BY <1>1, <2>4 DEF DrainInv
    <3>2. run.phase \in {"setup", "bootstrap", "connect"} => Fresh(cycles)'
      BY <1>1, <2>1, <2>2, SyncFacts DEF DrainInv, Fresh
    <3> QED BY <1>1, <2>1, <3>1, <3>2 DEF DrainInv, Fresh
  <2>6. run.phase = "drain" /\ ~Fresh(cycles)' => ~Fresh(cycles)
    BY <2>1, <2>2, SyncFacts DEF Fresh
  <2> QED BY <2>1, <2>3, <2>5, <2>6, TimedInv
<1>4. CASE LateBootTimer(k) \/ LateDrainTimer(k)
  <2>1. /\ UNCHANGED <<vars, run, tor, cycles, mail, notes, overrun>>
        /\ drainTimers' \subseteq drainTimers /\ bootTimers' \subseteq bootTimers
    BY <1>4 DEF LateBootTimer, LateDrainTimer
  <2>2. TimedOK'
    BY <1>1, <2>1 DEF TimedOK
  <2>3. \A j : Fresh(j) => Fresh(j)'
    BY <2>1 DEF Fresh
  <2>4. DrainInv'
    BY <1>1, <2>1 DEF DrainInv, Fresh
  <2>5. ~Fresh(cycles)' => ~Fresh(cycles)
    BY <2>1 DEF Fresh
  <2> QED BY <2>1, <2>2, <2>4, <2>5, TimedInv
<1> QED BY <1>2, <1>3, <1>4 DEF Late

-----------------------------------------------------------------------------
\* connect(): the first client, or a new one that takes over nothing.
LEMMA ConnectStepInv == SyncInv /\ Connect => SyncInv'
<1> SUFFICES ASSUME SyncInv, Connect PROVE SyncInv'
  OBVIOUS
<1> DEFINE w == [ws EXCEPT !.state = "DISCONNECTED", !.auto = TRUE, !.attempts = 0]
<1>1. /\ ClientInv /\ PhaseInv /\ DrainInv /\ TorInv /\ MailInv /\ run \in Runs
      /\ tor \in Tors /\ TimedOK /\ ws \in Fields /\ ws.strays = 0
  BY ClientFacts, SyncFacts
<1>2. /\ run.phase = "connect" /\ ConnectFrom(w)
      /\ run' = [run EXCEPT !.phase = "drain", !.client = TRUE]
      /\ UNCHANGED <<app, sock, peer, tor, cycles, mail, bootTimers, drainTimers,
                     notes, overrun>>
  BY DEF Connect, timed
<1>3. Quiet /\ run.db /\ run.tor /\ Fresh(cycles)
  BY <1>1, <1>2 DEF PhaseInv, DrainInv
<1>4. /\ w \in Fields /\ w.state = "DISCONNECTED" /\ ~w.timer /\ w.strays = 0
      /\ w.buffer = None
  <2>1. 0 \in 0..MaxExponent /\ "DISCONNECTED" \in States
    BY DEF MaxExponent, States
  <2> QED BY <1>1, <1>3, <2>1 DEF Quiet, Fields
<1> HIDE DEF w
<1>5. ws'.state = "CONNECTING"
  BY <1>2, <1>4 DEF ConnectFrom, Up, Fields
<1>6. ClientInv'
  BY <1>1, <1>2, <1>3, <1>4, ConnectInv DEF Quiet, ClientInv, TypeOK
<1>7. ~ws'.timer
  BY <1>5, <1>6, ClientFacts DEF ClientInv, TimerMeansReconnecting
<1>8. run' \in Runs /\ run'.phase = "drain" /\ run'.db /\ run'.tor /\ run'.client
  BY <1>1, <1>2, <1>3 DEF Runs, Phases
<1>9. PhaseInv' /\ DrainInv' /\ TorInv' /\ MailInv' /\ TimedOK'
  BY <1>1, <1>2, <1>3, <1>7, <1>8
     DEF PhaseInv, DrainInv, TorInv, MailInv, TimedOK, Fresh
<1> QED BY <1>1, <1>2, <1>6, <1>8, <1>9, Assemble

\* The finally block: the client is disconnected, if the cycle has one.
LEMMA CleanupInv == SyncInv /\ Cleanup => SyncInv'
<1> SUFFICES ASSUME SyncInv, Cleanup PROVE SyncInv'
  OBVIOUS
<1>1. /\ ClientInv /\ PhaseInv /\ DrainInv /\ TorInv /\ MailInv /\ run \in Runs
      /\ tor \in Tors /\ TimedOK
      /\ app \in [start : {"idle", "tor", "done"}, stops : 0..MaxStops]
      /\ peer \in [Call -> {"none", "connected", "challenging", "replied", "serving"}]
  BY SyncFacts DEF ClientInv, TypeOK
<1>2. /\ run.phase = "settled"
      /\ UNCHANGED <<app, call, peer, tor, cycles, mail, bootTimers, drainTimers,
                     notes, overrun>>
      /\ IF run.client THEN Disconnect(ws) ELSE UNCHANGED <<ws, sock>>
      /\ run' = IF run.tor THEN [run EXCEPT !.phase = "stopping"] ELSE NoRun
  BY DEF Cleanup, timed
<1>3. ClientInv' /\ Quiet'
  <2>1. CASE run.client
    <3>1. Disconnect(ws)
      BY <1>2, <2>1
    <3>2. ClientInv'
      BY <1>1, <1>2, <3>1, DisconnectInv
    <3>3. Quiet'
      BY <1>1, <1>2, <3>1, DisconnectEffect DEF Quiet, PhaseInv
    <3> QED BY <3>2, <3>3
  <2>2. CASE ~run.client
    BY <1>1, <1>2, <2>2, ClientStays DEF vars, PhaseInv
  <2> QED BY <2>1, <2>2
<1>4. /\ run' \in Runs /\ run'.phase \in {"stopping", "idle"}
      /\ run'.phase = "idle" => run' = NoRun
      /\ run'.client => run'.db /\ run'.tor
      /\ ~run'.tor => ~run.tor
  <2>1. run.client => run.db /\ run.tor
    BY <1>1, <1>2 DEF PhaseInv
  <2> QED BY <1>1, <1>2, <2>1 DEF NoRun, Runs, Phases
<1>5. PhaseInv' /\ DrainInv' /\ TorInv' /\ MailInv' /\ TimedOK'
  BY <1>1, <1>2, <1>3, <1>4 DEF PhaseInv, DrainInv, TorInv, MailInv, TimedOK, Fresh
<1> QED BY <1>1, <1>2, <1>3, <1>4, <1>5, Assemble

-----------------------------------------------------------------------------
(* The client's events *)

\* An event of a connection starts no dial; after one of an open socket, or
\* the end of a dial, nobody dials.
LEMMA NobodyDials ==
    ASSUME ClientInv, NEW c \in Call, Connection(c)
    PROVE  \A b \in Call : call'[b] # "dialing"
<1>1. call \in [Call -> {"idle", "dialing", "upgrading"}]
  BY DEF ClientInv, TypeOK
<1>2. CASE call[c] = "dialing" /\ (DialOk(c) \/ DialFail(c))
  <2>1. \A b \in Call \ {c} : call[b] # "dialing"
    BY <1>2 DEF ClientInv, DialsAlone
  <2>2. \E p \in {"idle", "upgrading"} : call' = [call EXCEPT ![c] = p]
    BY <1>2 DEF DialOk, DialFail
  <2> QED BY <1>1, <2>1, <2>2
<1>3. CASE sock[c].open /\ (call' = call \/ call' = [call EXCEPT ![c] = "idle"])
  BY <1>1, <1>3, OpenExcludes
<1> QED
  BY <1>2, <1>3
     DEF Connection, DialOk, DialFail, UpgradeOk, UpgradeRejected, Chunk, OtherFrame,
         Challenge, ChallengeBad, Authenticated, CloseFrame, SocketClosed, Receives

\* The events that call nobody back arm no timer.
LEMMA NoTimerArmed ==
    ASSUME ClientInv, NEW c \in Call, ~ws.timer,
           \/ DialOk(c) \/ UpgradeOk(c) \/ Challenge(c) \/ Chunk(c) \/ OtherFrame(c)
           \/ Authenticated(c) \/ CloseFrame(c)
           \/ SocketClosed(c) /\ ~(sock[c].live /\ ws.state \notin {"CLOSED", "DISCONNECTED"})
    PROVE  ~ws'.timer
<1> USE ClientFacts DEF Fields
<1>1. CASE DialOk(c) \/ UpgradeOk(c) \/ Chunk(c)
  BY <1>1 DEF DialOk, UpgradeOk, Chunk
<1>2. CASE Challenge(c) \/ OtherFrame(c) \/ Authenticated(c)
  BY <1>2 DEF Challenge, OtherFrame, Authenticated, CleanupTimers
<1>3. CASE CloseFrame(c)
  BY <1>3, DisconnectEffect DEF CloseFrame
<1>4. CASE SocketClosed(c) /\ ~(sock[c].live /\ ws.state \notin {"CLOSED", "DISCONNECTED"})
  BY <1>4 DEF SocketClosed, CleanupTimers
<1> QED BY <1>1, <1>2, <1>3, <1>4

\* Every event of the client, with what the cycle does in its callback.
LEMMA ClientStepInv ==
    ASSUME SyncInv, NEW c \in Call, Client(c)
    PROVE  SyncInv'
<1>1. /\ ClientInv /\ PhaseInv /\ DrainInv /\ TorInv /\ MailInv /\ run \in Runs
      /\ tor \in Tors /\ TimedOK
  BY SyncFacts
<1>2. Calm /\ Connection(c) /\ UNCHANGED <<tor, cycles, bootTimers>>
  BY DEF Client, Handshake, Silent, ClientError, ClientLost, ClientAuthenticated,
         ClientMessage, Connection, sync, timed
<1>3. call[c] = "dialing" \/ sock[c].open
  BY <1>2 DEF Connection, DialOk, DialFail, UpgradeOk, UpgradeRejected, Chunk, OtherFrame,
              Challenge, ChallengeBad, Authenticated, CloseFrame, SocketClosed, Receives
<1>4. /\ run.phase = "drain" /\ run.client /\ run.db /\ run.tor /\ ~ws.timer
      /\ cycles \in Cycle
  BY <1>1, <1>2, <1>3, SyncFacts DEF Calm, PhaseInv, Quiet
<1>5. ClientInv' /\ \A b \in Call : call'[b] # "dialing"
  BY <1>1, <1>2, ConnectionInv, NobodyDials
<1>6. ASSUME UNCHANGED <<run, overrun>>, ~ws'.timer, MailInv', TimedOK',
             drainTimers' \subseteq drainTimers \cup {cycles},
             \A k \in Cycle \ {cycles} : notes'[k] = notes[k]
      PROVE  SyncInv'
  <2>1. DrainInv'
    BY <1>1, <1>2, <1>4, <1>6 DEF DrainInv, TimedOK, Fresh, Cycle
  <2>2. PhaseInv' /\ TorInv'
    BY <1>1, <1>2, <1>4, <1>5, <1>6 DEF PhaseInv, TorInv
  <2>3. run' \in Runs /\ tor' \in Tors /\ run'.phase # "idle"
    BY <1>1, <1>2, <1>4, <1>6
  <2> QED BY <1>5, <1>6, <2>1, <2>2, <2>3, Assemble
<1>7. CASE Settle /\ UNCHANGED mail
  <2>1. run'.phase = "settled" /\ run'.tor = run.tor
    BY <1>1, <1>7, SettleEffect
  <2>2. TorInv' /\ MailInv'
    BY <1>1, <1>2, <1>7, <2>1 DEF TorInv, MailInv
  <2> QED BY <1>1, <1>2, <1>4, <1>5, <1>7, <2>2, SettledInv
<1>8. CASE Handshake(c) \/ Silent(c)
  <2>1. UNCHANGED <<run, mail, bootTimers, drainTimers, notes, overrun>>
    BY <1>8 DEF Handshake, Silent, sync, timed
  <2>2. ~ws'.timer
    BY <1>1, <1>4, <1>8, NoTimerArmed DEF Handshake, Silent
  <2> QED BY <1>1, <1>6, <2>1, <2>2 DEF MailInv, TimedOK
<1>10. CASE ClientError(c)
  BY <1>7, <1>10 DEF ClientError
<1>11. CASE ClientLost(c)
  <2>1. CASE sock[c].live /\ ws.state \notin {"CLOSED", "DISCONNECTED"}
    BY <1>7, <1>11, <2>1 DEF ClientLost
  <2>2. CASE ~(sock[c].live /\ ws.state \notin {"CLOSED", "DISCONNECTED"})
    <3>1. UNCHANGED <<run, mail, bootTimers, drainTimers, notes, overrun>>
      BY <1>11, <2>2 DEF ClientLost
    <3>2. ~ws'.timer
      BY <1>1, <1>4, <1>11, <2>2, NoTimerArmed DEF ClientLost
    <3> QED BY <1>1, <1>6, <3>1, <3>2 DEF MailInv, TimedOK
  <2> QED BY <2>1, <2>2
<1>12. CASE ClientAuthenticated(c)
  <2>1. /\ drainTimers' = drainTimers \cup {cycles}
        /\ UNCHANGED <<run, mail, bootTimers, notes, overrun>>
    BY <1>12 DEF ClientAuthenticated
  <2>2. ~ws'.timer
    BY <1>1, <1>4, <1>12, NoTimerArmed DEF ClientAuthenticated
  <2>3. TimedOK' /\ MailInv'
    BY <1>1, <1>4, <2>1 DEF TimedOK, MailInv
  <2> QED BY <1>6, <2>1, <2>2, <2>3
<1>13. CASE ClientMessage(c)
  <2>1. /\ mail' = [mail EXCEPT !.stored = @ + 1] /\ OtherFrame(c)
        /\ notes' = [notes EXCEPT ![cycles] = @ + 1]
        /\ UNCHANGED <<run, bootTimers, drainTimers, overrun>>
    BY <1>4, <1>13 DEF ClientMessage
  <2>2. MailInv'
    BY <1>1, <2>1 DEF MailInv
  <2>3. TimedOK' /\ \A k \in Cycle \ {cycles} : notes'[k] = notes[k]
    BY <1>1, <1>4, <2>1 DEF TimedOK
  <2>4. ~ws'.timer
    BY <1>1, <1>4, <2>1, NoTimerArmed
  <2> QED BY <1>6, <2>1, <2>2, <2>3, <2>4
<1> QED BY <1>8, <1>10, <1>11, <1>12, <1>13 DEF Client

-----------------------------------------------------------------------------

\* Every step, of the cycle, of Tor or of the connection under it, keeps the
\* invariant.
LEMMA SyncNextInv == SyncInv /\ [SyncNext]_all => SyncInv'
<1> SUFFICES ASSUME SyncInv, [SyncNext]_all PROVE SyncInv'
  OBVIOUS
<1>1. CASE UNCHANGED all
  <2>1. UNCHANGED vars
        /\ UNCHANGED <<run, tor, cycles, mail, ws, call, bootTimers, drainTimers,
                       notes, overrun>>
    BY <1>1 DEF all, vars, sync, timed
  <2>2. ClientInv' /\ (Quiet' <=> Quiet)
    BY <2>1, ClientStays DEF SyncInv
  <2>3. PhaseInv' /\ DrainInv' /\ TorInv' /\ MailInv' /\ TimedOK'
    BY <2>1, <2>2, SyncFacts DEF PhaseInv, DrainInv, TorInv, MailInv, TimedOK, Fresh
  <2> QED BY <2>1, <2>2, <2>3, SyncFacts, Assemble
<1>2. CASE SyncNext
  <2>1. \/ Connect \/ Cleanup \/ (\E c \in Call : Client(c)) \/ \E k \in Cycle : Late(k)
        \/ /\ UNCHANGED vars
           /\ \/ Execute \/ SetupFails \/ StartTor \/ TorStarted \/ TorFailed
              \/ BootstrapTimeout \/ LateStart \/ DrainTimer \/ Finish
    BY <1>2 DEF SyncNext, Execute, SetupFails, StartTor, TorStarted, TorFailed,
                BootstrapTimeout, LateStart, DrainTimer, Finish
  <2> QED BY <2>1, ConnectStepInv, CleanupInv, ClientStepInv, LateInv, CycleStepInv
<1> QED BY <1>1, <1>2

\* The invariant holds in every reachable state.
LEMMA SyncInvariant == SyncSpec => []SyncInv
  BY SyncInitInv, SyncNextInv, PTL DEF SyncSpec

\* The variables of the cycle, of its client and of what outlives them always
\* have their types, and a cycle that is over holds nothing.
THEOREM SyncTypeCorrect == SyncSpec => []SyncTypeOK
  BY SyncInvariant, PTL DEF SyncInv

\* Whichever way a cycle ends, nothing of its client goes on, and its drain
\* timer is armed only by a notification that ended after it had settled.
THEOREM NothingLeftBehindHolds == SyncSpec => []NothingLeftBehind
<1>1. SyncInv => NothingLeftBehind
  <2> SUFFICES ASSUME SyncInv PROVE NothingLeftBehind
    OBVIOUS
  <2>1. /\ ws.strays = 0 /\ (run.phase = "drain" => ~ws.timer)
        /\ (run.phase \notin {"drain", "settled"} => Quiet)
    BY DEF SyncInv, ClientInv, TimerMeansReconnecting, PhaseInv
  <2>2. \A k \in drainTimers \ overrun : k = cycles /\ run.phase = "drain"
    BY SyncFacts DEF DrainInv
  <2> QED BY <2>1, <2>2 DEF NothingLeftBehind, Calm, Quiet
<1> QED BY <1>1, SyncInvariant, PTL

\* No message is taken from the relay after the database was closed.
THEOREM NoMailLostHolds == SyncSpec => []NoMailLost
<1>1. SyncInv => NoMailLost
  BY DEF SyncInv, MailInv, NoMailLost
<1> QED BY <1>1, SyncInvariant, PTL

\* Between cycles Tor is stopped, unless a start was given up.
THEOREM TorSuspendedHolds == SyncSpec => []TorSuspended
<1>1. SyncInv => TorSuspended
  BY SyncFacts DEF TorInv, TorSuspended, NoRun
<1> QED BY <1>1, SyncInvariant, PTL

=============================================================================
