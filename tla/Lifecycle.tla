----------------------------- MODULE Lifecycle -----------------------------
(***************************************************************************)
(* The life of the application: the identity in the keychain, the provider *)
(* that starts and stops an orchestrator for it, and the database file of  *)
(* each identity with its key and its migrations.                          *)
(*                                                                         *)
(* The keychain and Tor answer later, and the user goes on meanwhile; the  *)
(* application may die at any point.  The database answers at once, so the *)
(* statements of a migration are interrupted by nothing but a crash.  A    *)
(* file opens only with the key it was made with: the driver is assumed to *)
(* honour PRAGMA key.                                                      *)
(***************************************************************************)
EXTENDS Naturals, Sequences, Functions

CONSTANTS
    Identity,      \* mnemonics, and the keys and the database name made of them
    None,
    MaxStarts      \* bound: how many orchestrators are made, over all restarts

ASSUME LifecycleAssumption == None \notin Identity /\ MaxStarts \in Nat

VARIABLES
    keychain,    \* [identity, dbKey]: what the two services hold
    file,        \* each identity's database: its key, and what was made in it
    app,         \* the provider: "loading" until isInitialized
    identity,    \* its state
    effect,      \* the identity for which its effect ran last
    ref,         \* orchestratorRef
    entering,    \* the identities that are being saved
    leaving,     \* whether logout waits for the keychain
    orch,        \* the orchestrators, in the order they were made
    trouble,     \* history: the keychain has failed
    hasty        \* history: an orchestrator was left while it started, or two
                 \* identities were entered at once

stores    == <<keychain, file>>
provider  == <<app, identity, effect, ref, entering, leaving>>
lifecycle == <<stores, provider, orch, trouble, hasty>>

(***************************************************************************)
(* The statements of runMigrations after the pragmas.  The name of a table *)
(* or column stands for what makes it, "v1" and "v2" for the two rows of   *)
(* schema_migrations; the three tables of the key store are taken as one.  *)
(***************************************************************************)
V1 == <<"contacts", "sessions_and_prekeys", "messages", "idx_messages_contact", "v1">>
V2 == <<"linked_devices", "own_linked_devices", "v2">>

Schema == {"schema_migrations"} \cup Range(V1) \cup Range(V2)

\* An orchestrator: whose it is, the statements its database still has to run,
\* and whether stop() has closed it.
Orchestrator(x) == [who |-> x, at |-> "get", todo |-> << >>, closed |-> FALSE]

\* One of an application that died, or whose socket, timers and database are
\* closed; and one whose initialize() has thrown.
Gone   == [Orchestrator(None) EXCEPT !.at = "gone"]
Broken == [Orchestrator(None) EXCEPT !.at = "broken"]

\* "connecting" while start() waits for Tor, or the client for its dial;
\* "online" with a socket, or the timer of a reconnect; "off" with neither.
At == {"get", "set", "migrate", "connecting", "online", "off"}

Starting   == {"get", "set", "migrate", "connecting"}
Connecting == {"connecting", "online"}

NoFile == [key |-> 0, made |-> {}]

LifecycleInit ==
    /\ keychain = [identity |-> None, dbKey |-> 0]
    /\ file = [x \in Identity |-> NoFile]
    /\ app = "loading"
    /\ identity = None /\ effect = None /\ ref = 0
    /\ entering = {} /\ leaving = FALSE
    /\ orch = << >>
    /\ trouble = FALSE /\ hasty = FALSE

\* No event is taken between two statements of a migration.
Quiet == \A i \in DOMAIN orch : orch[i].at # "migrate"

\* Bound: the keychain fails once.
KeychainFails == ~trouble /\ trouble' = TRUE

-----------------------------------------------------------------------------
(* The identity *)

\* loadIdentityFromKeychain: what was saved, or an error.
Load ==
    /\ app = "loading"
    /\ app' = "ready"
    /\ \/ identity' = keychain.identity /\ UNCHANGED trouble
       \/ KeychainFails /\ UNCHANGED identity
    /\ UNCHANGED <<stores, effect, ref, entering, leaving, orch, hasty>>

\* Fault variant: the screens are shown before the keychain has answered.
WelcomeEarly == identity = None

\* RootNavigator shows the screens, and without an identity those that make one.
Welcome == app = "ready" /\ identity = None

\* Fault variant: the identity is shown before it is saved.
EnterShown(x) ==
    /\ Quiet /\ Welcome /\ x \notin entering
    /\ entering' = entering \cup {x}
    /\ hasty' = (hasty \/ entering # {})
    /\ identity' = x
    /\ UNCHANGED <<stores, app, effect, ref, leaving, orch, trouble>>

\* createIdentity and restoreIdentity: saved first ...
Enter(x) ==
    /\ Quiet /\ Welcome /\ x \notin entering
    /\ entering' = entering \cup {x}
    /\ hasty' = (hasty \/ entering # {})
    /\ UNCHANGED <<stores, app, identity, effect, ref, leaving, orch, trouble>>

\* ... and then the provider's identity, also when saving returned false.
Entered(x) ==
    /\ Quiet /\ x \in entering
    /\ entering' = entering \ {x}
    /\ \/ keychain' = [keychain EXCEPT !.identity = x] /\ UNCHANGED trouble
       \/ KeychainFails /\ UNCHANGED keychain
    /\ identity' = x
    /\ UNCHANGED <<file, app, effect, ref, leaving, orch, hasty>>

\* The keychain throws, and the screen stays.
EnterFails(x) ==
    /\ Quiet /\ x \in entering
    /\ entering' = entering \ {x}
    /\ KeychainFails
    /\ UNCHANGED <<stores, app, identity, effect, ref, leaving, orch, hasty>>

-----------------------------------------------------------------------------
(* Stopping *)

\* Fault variant: the identity is wiped.
StoppedWiped(o) == [o EXCEPT !.who = None]

\* Fault variant: the socket is left.
StoppedOnline(o) == [o EXCEPT !.closed = TRUE]

\* stop(): disconnect() takes the socket or the timer that is there, which while
\* Tor starts or a dial is awaited is none; then the database is closed.
Stopped(o) == IF o.at = "connecting" THEN [o EXCEPT !.closed = TRUE] ELSE Gone

\* The orchestrators when the one that ref holds, if any, is stopped.
RefStopped == IF ref = 0 THEN orch ELSE [orch EXCEPT ![ref] = Stopped(@)]

Hasty == hasty \/ \E i \in DOMAIN orch : orch[i].at \in Starting

\* logout: the keychain is cleared ...
Logout ==
    /\ Quiet /\ app = "ready" /\ identity # None /\ ~leaving
    /\ leaving' = TRUE
    /\ UNCHANGED <<stores, app, identity, effect, ref, entering, orch, trouble, hasty>>

\* ... or it throws; then the orchestrator is stopped and the identity dropped.
LoggedOut ==
    /\ Quiet /\ leaving
    /\ leaving' = FALSE
    /\ \/ /\ keychain' = [keychain EXCEPT !.identity = None]
          /\ orch' = RefStopped
          /\ ref' = 0
          /\ identity' = None
          /\ hasty' = Hasty
          /\ UNCHANGED trouble
       \/ /\ KeychainFails
          /\ UNCHANGED <<keychain, orch, ref, identity, hasty>>
    /\ UNCHANGED <<file, app, effect, entering>>

-----------------------------------------------------------------------------
(* The provider's effect *)

\* The cleanup of the last effect, and the effect: ref is stopped, which both
\* would do, and an orchestrator made for the identity, if there is one.
Effect ==
    /\ Quiet /\ effect # identity
    /\ identity # None => Len(orch) < MaxStarts
    /\ effect' = identity
    /\ LET stops == effect # None \/ identity = None
           left  == IF stops THEN RefStopped ELSE orch
       IN  /\ ref' = IF stops THEN 0 ELSE ref
           /\ orch' = IF identity = None THEN left ELSE Append(left, Orchestrator(identity))
           /\ hasty' = IF effect # None THEN Hasty ELSE hasty
    /\ UNCHANGED <<stores, app, identity, entering, leaving, trouble>>

-----------------------------------------------------------------------------
(* AppOrchestrator.initialize *)

Set(i, o) == orch' = [orch EXCEPT ![i] = o]

\* With a key, the file is opened; a new file takes the key it is given.
Opened(i, key) ==
    LET o == orch[i]
        f == file[o.who]
    IN  IF f.key \in {0, key}
          THEN /\ file' = [file EXCEPT ![o.who].key = key]
               /\ Set(i, [o EXCEPT !.at = "migrate", !.todo = <<"schema_migrations">>])
          ELSE Set(i, Broken) /\ UNCHANGED file

\* Fault variant: the key is used while it is still being saved.
GetKeyUnsaved(i) ==
    /\ Quiet /\ orch[i].at = "get"
    /\ IF keychain.dbKey # 0
         THEN Opened(i, keychain.dbKey) /\ UNCHANGED keychain
         ELSE /\ Opened(i, i)
              /\ \E saved \in BOOLEAN :
                     keychain' = [keychain EXCEPT !.dbKey = IF saved THEN i ELSE @]
    /\ UNCHANGED <<provider, trouble, hasty>>

\* getOrCreateDatabaseKey: the saved key, or a new one, which is named after
\* the orchestrator that makes it.
GetKey(i) ==
    /\ Quiet /\ orch[i].at = "get"
    /\ IF keychain.dbKey # 0
         THEN Opened(i, keychain.dbKey)
         ELSE Set(i, [orch[i] EXCEPT !.at = "set"]) /\ UNCHANGED file
    /\ UNCHANGED <<keychain, provider, trouble, hasty>>

SetKey(i) ==
    /\ Quiet /\ orch[i].at = "set"
    /\ keychain' = [keychain EXCEPT !.dbKey = i]
    /\ Opened(i, i)
    /\ UNCHANGED <<provider, trouble, hasty>>

\* The keychain cannot be read or written: a key that nobody keeps.
KeyLost(i) ==
    /\ Quiet /\ orch[i].at \in {"get", "set"}
    /\ KeychainFails
    /\ Opened(i, i)
    /\ UNCHANGED <<keychain, provider, hasty>>

\* Fault variant: one migration at a start.
PendingOne(made) == IF made \cap {"v1", "v2"} = {} THEN V1 ELSE V2

\* The migrations that the versions on record leave to do.
Pending(made) ==
    (IF made \cap {"v1", "v2"} = {} THEN V1 ELSE << >>) \o
    (IF "v2" \in made THEN << >> ELSE V2)

\* The INSERTs: version is the primary key.  The other statements say IF NOT
\* EXISTS or have their exception caught.
OnlyOnce == {"v1", "v2"}

Migrate(i) ==
    LET o == orch[i]
        s == Head(o.todo)
        f == file[o.who]
    IN  /\ o.at = "migrate" /\ o.todo # << >>
        /\ IF s \in OnlyOnce \cap f.made
             THEN Set(i, Broken) /\ UNCHANGED file
             ELSE /\ file' = [file EXCEPT ![o.who].made = @ \cup {s}]
                  /\ Set(i, [o EXCEPT !.todo =
                        IF s = "schema_migrations" THEN Pending(f.made) ELSE Tail(@)])
        /\ UNCHANGED <<keychain, provider, trouble, hasty>>

\* initialize() has returned, whoever the identity is by now.
Initialized(i) ==
    /\ orch[i].at = "migrate" /\ orch[i].todo = << >>
    /\ Set(i, [orch[i] EXCEPT !.at = "connecting"])
    /\ ref' = i
    /\ UNCHANGED <<stores, app, identity, effect, entering, leaving, trouble, hasty>>

-----------------------------------------------------------------------------
(* AppOrchestrator.start and the client's connection *)

Moves(i, from, to) ==
    /\ Quiet /\ orch[i].at = from
    /\ Set(i, [orch[i] EXCEPT !.at = to])
    /\ UNCHANGED <<stores, provider, trouble, hasty>>

\* Tor is up and the dial has ended, well or with a timer for the next.
Connected(i) == Moves(i, "connecting", "online")

\* Tor fails; or the dial, of a client that was disconnected during it.
ConnectFails(i) == Moves(i, "connecting", "off")

\* The timer dials again, or the server closes the stream.
Redials(i) == Moves(i, "online", "connecting")
HungUp(i)  == Moves(i, "online", "off")

-----------------------------------------------------------------------------
\* The application dies and is started again.
Crash ==
    /\ app' = "loading"
    /\ identity' = None /\ effect' = None /\ ref' = 0
    /\ entering' = {} /\ leaving' = FALSE
    /\ orch' = [i \in DOMAIN orch |-> Gone]
    /\ UNCHANGED <<stores, trouble, hasty>>

LifecycleNext ==
    \/ Load \/ Logout \/ LoggedOut \/ Effect \/ Crash
    \/ \E x \in Identity : Enter(x) \/ Entered(x) \/ EnterFails(x)
    \/ \E i \in DOMAIN orch :
           \/ GetKey(i) \/ SetKey(i) \/ KeyLost(i) \/ Migrate(i) \/ Initialized(i)
           \/ Connected(i) \/ ConnectFails(i) \/ Redials(i) \/ HungUp(i)

LifecycleSpec == LifecycleInit /\ [][LifecycleNext]_lifecycle

-----------------------------------------------------------------------------
(* Properties *)

\* The stores, the provider and the orchestrators are of their types.
LifecycleTypeOK ==
    /\ keychain \in [identity : Identity \cup {None}, dbKey : 0..MaxStarts]
    /\ file \in [Identity -> [key : 0..MaxStarts, made : SUBSET Schema]]
    /\ app \in {"loading", "ready"}
    /\ {identity, effect} \subseteq Identity \cup {None}
    /\ ref \in {0} \cup DOMAIN orch
    /\ entering \subseteq Identity
    /\ {leaving, trouble, hasty} \subseteq BOOLEAN
    /\ Len(orch) <= MaxStarts
    /\ \A i \in DOMAIN orch :
           orch[i] \in {Gone, Broken} \/ (orch[i].who \in Identity /\ orch[i].at \in At)

(***************************************************************************)
(* A crash at any point, between the statements of a migration or while    *)
(* the key is made, leaves files that the next start opens and completes,  *)
(* as long as the keychain does not fail and no two orchestrators start at *)
(* once: no initialize() ends with an error.                               *)
(***************************************************************************)
StartsAgain == ~trouble /\ ~hasty => \A i \in DOMAIN orch : orch[i].at # "broken"

(***************************************************************************)
(* An orchestrator that went on to Tor has every table, column and record  *)
(* of both migrations, whatever earlier starts left undone.                *)
(***************************************************************************)
SchemaComplete ==
    \A i \in DOMAIN orch : orch[i].at \in Connecting => file[orch[i].who].made = Schema

(***************************************************************************)
(* Whoever is connected, or about to be, is the orchestrator that the      *)
(* provider holds, has its database open, and is the current identity's:   *)
(* one that the user has left receives nothing.  This needs that nobody is *)
(* left while it starts or dials.                                          *)
(***************************************************************************)
OnlyCurrentConnects ==
    ~hasty => \A i \in DOMAIN orch :
                  orch[i].at \in Connecting =>
                      ref = i /\ ~orch[i].closed /\ orch[i].who = identity

(***************************************************************************)
(* The identity that the user sees is the one in the keychain, so that it  *)
(* is there after a crash; and that one gives way to nothing but a logout: *)
(* no crash, restart or early tap makes a new one take its place.          *)
(***************************************************************************)
IdentityKept ==
    /\ [](identity # None => identity = keychain.identity \/ trouble)
    /\ [][keychain.identity \notin {None, keychain'.identity} => leaving \/ trouble \/ hasty]_lifecycle
=============================================================================
