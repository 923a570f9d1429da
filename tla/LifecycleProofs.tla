-------------------------- MODULE LifecycleProofs --------------------------
(***************************************************************************)
(* Proofs about Lifecycle for any set of identities and any number of      *)
(* starts: the migrations complete every database whatever crashes cut     *)
(* short, every database opens with the key that is kept, the identity is  *)
(* not replaced, and only the current orchestrator is connected.           *)
(***************************************************************************)
EXTENDS Lifecycle, SequenceTheorems, TLAPS

\* The orchestrators that have not ended, and all that there can be.
Workers == [who : Identity, at : At, todo : Seq(Schema), closed : BOOLEAN]
Orchestrators == {Gone, Broken} \cup Workers

\* The rest of the migrations: it makes what is not made yet; the row of a
\* version comes after its tables and is not made twice.
Plan(todo, made) ==
    /\ todo \in Seq(Schema \ {"schema_migrations"})
    /\ Schema \subseteq made \cup Range(todo)
    /\ \A p, q \in DOMAIN todo : todo[p] = "v1" /\ p < q => todo[q] \notin Range(V1)
    /\ \A p \in DOMAIN todo : todo[p] = "v2" => p = Len(todo)
    /\ \A p \in DOMAIN todo : todo[p] \notin OnlyOnce \cap made

\* A version on record was completed.
Recorded(made) ==
    /\ "v1" \in made => {"schema_migrations"} \cup Range(V1) \subseteq made
    /\ "v2" \in made => made = Schema

\* One orchestrator migrates at a time.
MigrationInv ==
    /\ \A x \in Identity : Recorded(file[x].made)
    /\ \A i, j \in DOMAIN orch :
          orch[i].at = "migrate" /\ orch[j].at = "migrate" => i = j
    /\ \A i \in DOMAIN orch :
          orch[i].at = "migrate" =>
              \/ orch[i].todo = <<"schema_migrations">>
              \/ Plan(orch[i].todo, file[orch[i].who].made)

\* An orchestrator that is at work, or whose client is.
Live(o) == o.at \in Starting \cup {"online"}

\* Without haste one orchestrator is at work: that of the current identity.
CurrentInv ==
    ~hasty =>
        /\ \A i, j \in DOMAIN orch : Live(orch[i]) /\ Live(orch[j]) => i = j
        /\ \A i \in DOMAIN orch : Live(orch[i]) =>
               /\ orch[i].who = identity /\ effect = identity /\ ~orch[i].closed
               /\ orch[i].at \in Connecting => ref = i

\* The provider's identity is the keychain's, and is entered once.
ProviderInv ==
    /\ app = "loading" =>
          /\ identity = None /\ effect = None /\ entering = {} /\ ~leaving
          /\ \A i \in DOMAIN orch : ~Live(orch[i])
    /\ app = "ready" /\ ~trouble => identity = keychain.identity
    /\ ~hasty =>
          /\ entering # {} => identity = None
          /\ \A x, y \in entering : x = y

\* A key that was used is the one that is kept.
KeyInv ==
    ~trouble /\ ~hasty =>
        /\ \A x \in Identity : file[x].key \in {0, keychain.dbKey}
        /\ \A i \in DOMAIN orch : orch[i].at = "set" => keychain.dbKey = 0

LifeTypes == LifecycleTypeOK /\ orch \in Seq(Orchestrators)

LifeInv ==
    /\ LifeTypes
    /\ MigrationInv /\ SchemaComplete
    /\ CurrentInv /\ ProviderInv
    /\ KeyInv /\ StartsAgain

-----------------------------------------------------------------------------
(* The migrations *)

\* The tables and columns of both versions.
LEMMA Versions ==
    /\ V1 \in Seq(Schema \ {"schema_migrations"}) /\ Len(V1) = 5
    /\ V2 \in Seq(Schema \ {"schema_migrations"}) /\ Len(V2) = 3
    /\ Range(V1) = {V1[1], V1[2], V1[3], V1[4], "v1"}
    /\ Range(V2) = {V2[1], V2[2], "v2"}
    /\ V1[5] = "v1" /\ V2[3] = "v2"
    /\ \A p \in 1..4 : V1[p] \notin OnlyOnce
    /\ \A p \in 1..2 : V2[p] \notin OnlyOnce
    /\ Range(V1) \cap Range(V2) = {}
    /\ "schema_migrations" \in Schema
<1>1. V1 = <<"contacts", "sessions_and_prekeys", "messages", "idx_messages_contact", "v1">>
      /\ V2 = <<"linked_devices", "own_linked_devices", "v2">>
  BY DEF V1, V2
<1>2. Len(V1) = 5 /\ Len(V2) = 3 /\ DOMAIN V1 = 1..5 /\ DOMAIN V2 = 1..3
  BY <1>1
<1>3. Range(V1) = {V1[1], V1[2], V1[3], V1[4], V1[5]}
  BY <1>2 DEF Range
<1>4. Range(V2) = {V2[1], V2[2], V2[3]}
  BY <1>2 DEF Range
<1>5. /\ V1[1] = "contacts" /\ V1[2] = "sessions_and_prekeys" /\ V1[3] = "messages"
      /\ V1[4] = "idx_messages_contact" /\ V1[5] = "v1"
      /\ V2[1] = "linked_devices" /\ V2[2] = "own_linked_devices" /\ V2[3] = "v2"
  BY <1>1
<1>6. V1 \in Seq(Range(V1)) /\ V2 \in Seq(Range(V2))
  BY <1>1, <1>3, <1>4, <1>5
<1>7. /\ Range(V1) \subseteq Schema \ {"schema_migrations"}
      /\ Range(V2) \subseteq Schema \ {"schema_migrations"}
  BY <1>3, <1>4, <1>5 DEF Schema
<1>8. /\ V1 \in Seq(Schema \ {"schema_migrations"})
      /\ V2 \in Seq(Schema \ {"schema_migrations"})
  BY <1>6, <1>7, SeqMonotonic
<1>9. /\ \A p \in 1..4 : V1[p] \notin OnlyOnce
      /\ \A p \in 1..2 : V2[p] \notin OnlyOnce
      /\ Range(V1) \cap Range(V2) = {}
  <2>1. \A p \in 1..4 : p = 1 \/ p = 2 \/ p = 3 \/ p = 4
    OBVIOUS
  <2>2. \A p \in 1..2 : p = 1 \/ p = 2
    OBVIOUS
  <2> QED BY <1>3, <1>4, <1>5, <2>1, <2>2 DEF OnlyOnce
<1>10. "schema_migrations" \in Schema
  BY DEF Schema
<1> QED BY <1>2, <1>3, <1>4, <1>5, <1>8, <1>9, <1>10

\* What the versions on record leave to do is a plan for the rest.
LEMMA PendingIsPlan ==
    ASSUME NEW made \in SUBSET Schema, Recorded(made)
    PROVE  Plan(Pending(made), made \cup {"schema_migrations"})
<1> DEFINE T == Schema \ {"schema_migrations"}
<1>s. Schema = {"schema_migrations"} \cup Range(V1) \cup Range(V2)
  BY DEF Schema
<1>e. Range(<< >>) = {} /\ << >> \in Seq(T)
  BY DEF Range
<1>1. CASE "v1" \notin made /\ "v2" \notin made
  <2> DEFINE todo == V1 \o V2
  <2>1. Pending(made) = todo
    BY <1>1 DEF Pending
  <2>2. /\ todo \in Seq(T) /\ Len(todo) = 8 /\ DOMAIN todo = 1..8
        /\ \A p \in 1..8 : todo[p] = IF p <= 5 THEN V1[p] ELSE V2[p - 5]
    <3>1. V1 \in Seq(T) /\ V2 \in Seq(T) /\ Len(V1) = 5 /\ Len(V2) = 3
      BY Versions
    <3> HIDE DEF T
    <3>2. /\ todo \in Seq(T) /\ Len(todo) = Len(V1) + Len(V2)
          /\ \A p \in 1..(Len(V1) + Len(V2)) :
                todo[p] = IF p <= Len(V1) THEN V1[p] ELSE V2[p - Len(V1)]
      BY <3>1, ConcatProperties
    <3> HIDE DEF todo
    <3>3. DOMAIN todo = 1..Len(todo)
      BY <3>2, LenProperties
    <3> QED BY <3>1, <3>2, <3>3
  <2>3. Range(todo) = Range(V1) \cup Range(V2)
    BY Versions, RangeConcatenation
  <2> HIDE DEF todo
  <2>4. \A p \in 1..8 : /\ p <= 5 => todo[p] \in Range(V1)
                        /\ p > 5 => todo[p] \in Range(V2)
    <3>1. \A p \in 1..5 : V1[p] \in Range(V1)
      BY Versions, LenProperties DEF Range
    <3>2. \A p \in 1..3 : V2[p] \in Range(V2)
      BY Versions, LenProperties DEF Range
    <3>3. \A p \in 1..8 : (p <= 5 => p \in 1..5) /\ (p > 5 => p - 5 \in 1..3)
      OBVIOUS
    <3> QED BY <2>2, <3>1, <3>2, <3>3
  <2>5. \A p \in 1..8 : (todo[p] = "v1" => p = 5) /\ (todo[p] = "v2" => p = 8)
    <3> SUFFICES ASSUME NEW p \in 1..8
                 PROVE  (todo[p] = "v1" => p = 5) /\ (todo[p] = "v2" => p = 8)
      OBVIOUS
    <3>1. CASE p \in 1..4
      BY <2>2, <3>1, Versions DEF OnlyOnce
    <3>2. CASE p = 5
      BY <2>2, <3>2, Versions
    <3>3. CASE p \in 6..7
      <4>1. p - 5 \in 1..2 /\ todo[p] = V2[p - 5]
        BY <2>2, <3>3
      <4> QED BY <4>1, Versions DEF OnlyOnce
    <3>4. CASE p = 8
      <4>1. todo[p] = V2[3]
        BY <2>2, <3>4
      <4> QED BY <3>4, <4>1, Versions
    <3> QED BY <3>1, <3>2, <3>3, <3>4
  <2>6. \A p, q \in 1..8 : todo[p] = "v1" /\ p < q => todo[q] \notin Range(V1)
    <3>1. \A q \in 1..8 : q > 5 => todo[q] \notin Range(V1)
      BY <2>4, Versions
    <3> QED BY <2>5, <3>1
  <2> QED BY <1>1, <1>s, <2>1, <2>2, <2>3, <2>5, <2>6 DEF Plan, OnlyOnce
<1>2. CASE "v1" \in made /\ "v2" \notin made
  <2>1. Pending(made) = V2
    BY <1>2, Versions, ConcatEmptySeq DEF Pending
  <2>2. DOMAIN V2 = 1..3 /\ \A p \in 1..3 : V2[p] \in Range(V2) /\ (V2[p] = "v2" => p = 3)
    <3>1. DOMAIN V2 = 1..3
      BY Versions, LenProperties
    <3>2. \A p \in 1..3 : p \in 1..2 \/ p = 3
      OBVIOUS
    <3> QED BY <3>1, <3>2, Versions DEF Range, OnlyOnce
  <2>3. "v1" \notin Range(V2) /\ \A p \in 1..3 : V2[p] # "v1"
    BY <2>2, Versions
  <2>4. Range(V1) \subseteq made
    BY <1>2 DEF Recorded
  <2> QED BY <1>2, <1>s, <2>1, <2>2, <2>3, <2>4, Versions DEF Plan, OnlyOnce
<1>3. CASE "v2" \in made
  <2>1. made = Schema /\ "v1" \in made
    BY <1>3, <1>s, Versions DEF Recorded
  <2>2. Pending(made) = << >>
    BY <1>3, <2>1, <1>e, ConcatEmptySeq DEF Pending
  <2> QED BY <1>e, <2>1, <2>2 DEF Plan
<1> QED BY <1>1, <1>2, <1>3

\* A statement of a plan is new if it may run once, and leaves a plan; the
\* row of a version is written when the rest of that version is there.
LEMMA PlanStep ==
    ASSUME NEW made \in SUBSET Schema, Recorded(made),
           NEW todo, Plan(todo, made), todo # << >>
    PROVE  /\ Head(todo) \in Schema \ {"schema_migrations"}
           /\ Head(todo) \notin OnlyOnce \cap made
           /\ Plan(Tail(todo), made \cup {Head(todo)})
           /\ Recorded(made \cup {Head(todo)})
<1> DEFINE T == Schema \ {"schema_migrations"}
           s == Head(todo)
           rest == Tail(todo)
           n == Len(rest)
<1>1. /\ todo \in Seq(T) /\ s \in T /\ rest \in Seq(T)
      /\ n \in Nat /\ Len(todo) = n + 1 /\ s = todo[1]
      /\ \A p \in 1..n : rest[p] = todo[p + 1]
      /\ DOMAIN todo = 1..(n + 1) /\ DOMAIN rest = 1..n
  BY HeadTailProperties, LenProperties DEF Plan
<1>2. \A p \in 1..n : p + 1 \in 1..(n + 1) /\ 1 < p + 1
  BY <1>1
<1> HIDE DEF s, rest, n, T
<1>3. Schema \subseteq (made \cup {s}) \cup Range(rest)
  <2>1. \A p \in 1..(n + 1) : p = 1 \/ p - 1 \in 1..n
    BY <1>1
  <2>2. Range(todo) \subseteq {s} \cup Range(rest)
    <3> SUFFICES ASSUME NEW p \in 1..(n + 1) PROVE todo[p] \in {s} \cup Range(rest)
      BY <1>1 DEF Range
    <3>1. CASE p = 1
      BY <1>1, <3>1
    <3>2. CASE p - 1 \in 1..n
      <4>1. rest[p - 1] = todo[(p - 1) + 1] /\ (p - 1) + 1 = p
        BY <1>1, <3>2
      <4> QED BY <1>1, <3>2, <4>1 DEF Range
    <3> QED BY <2>1, <3>1, <3>2
  <2> QED BY <2>2 DEF Plan
<1>4. s \notin OnlyOnce \cap made
  BY <1>1 DEF Plan
<1>d. /\ \A p, q \in DOMAIN todo : todo[p] = "v1" /\ p < q => todo[q] \notin Range(V1)
      /\ \A p \in DOMAIN todo : todo[p] = "v2" => p = Len(todo)
  BY DEF Plan
<1>f. /\ \A p, q \in 1..(n + 1) : todo[p] = "v1" /\ p < q => todo[q] \notin Range(V1)
      /\ \A p \in 1..(n + 1) : todo[p] = "v2" => p = n + 1
      /\ 1 \in 1..(n + 1)
  <2>1. DOMAIN todo = 1..(n + 1) /\ Len(todo) = n + 1 /\ n \in Nat
    BY <1>1
  <2>2. 1 \in 1..(n + 1)
    BY <2>1
  <2> QED BY <1>d, <2>1, <2>2, Zenon
<1>5. s = "v1" => \A p \in 1..n : rest[p] \notin Range(V1)
  BY <1>1, <1>2, <1>f
<1>6. s = "v2" => n = 0
  <2>1. todo[1] = "v2" => 1 = n + 1
    BY <1>f
  <2> QED BY <1>1, <2>1
<1>7. \A p \in 1..n : rest[p] \notin OnlyOnce \cap (made \cup {s})
  <2> SUFFICES ASSUME NEW p \in 1..n, rest[p] \in OnlyOnce PROVE rest[p] \notin made \cup {s}
    OBVIOUS
  <2>1. rest[p] \notin made
    BY <1>1, <1>2 DEF Plan
  <2>2. s # "v2"
    BY <1>1, <1>6
  <2>3. s = "v1" => rest[p] # "v1"
    BY <1>5, Versions
  <2> QED BY <2>1, <2>2, <2>3 DEF OnlyOnce
<1>8. \A p, q \in 1..n : rest[p] = "v1" /\ p < q => rest[q] \notin Range(V1)
  <2> SUFFICES ASSUME NEW p \in 1..n, NEW q \in 1..n, rest[p] = "v1", p < q
               PROVE  rest[q] \notin Range(V1)
    OBVIOUS
  <2>1. todo[p + 1] = "v1" /\ p + 1 < q + 1 /\ rest[q] = todo[q + 1]
    BY <1>1
  <2> QED BY <1>1, <1>2, <2>1 DEF Plan
<1>9. \A p \in 1..n : rest[p] = "v2" => p = n
  BY <1>1, <1>2 DEF Plan
<1>10. Plan(rest, made \cup {s})
  BY <1>1, <1>3, <1>7, <1>8, <1>9 DEF Plan, T
<1>11. Recorded(made \cup {s})
  <2>1. CASE s = "v1"
    <3>1. Range(V1) \cap Range(rest) = {} /\ "schema_migrations" \notin Range(rest)
      BY <1>1, <1>5, <2>1 DEF Range, T
    <3>2. {"schema_migrations"} \cup Range(V1) \subseteq made \cup {s}
      BY <1>3, <3>1 DEF Schema
    <3> QED BY <1>1, <2>1, <3>2 DEF Recorded, T
  <2>2. CASE s = "v2"
    <3>1. Range(rest) = {}
      BY <1>1, <1>6, <2>2 DEF Range
    <3>2. made \cup {s} = Schema
      BY <1>1, <1>3, <3>1 DEF T
    <3> QED BY <3>2 DEF Recorded, Schema
  <2>3. CASE s \notin {"v1", "v2"}
    BY <1>1, <2>3 DEF Recorded, T
  <2> QED BY <2>1, <2>2, <2>3
<1> QED BY <1>1, <1>4, <1>10, <1>11 DEF s, rest, T

-----------------------------------------------------------------------------
(* The orchestrators *)

Files     == [Identity -> [key : 0..MaxStarts, made : SUBSET Schema]]
Keychains == [identity : Identity \cup {None}, dbKey : 0..MaxStarts]

\* An orchestrator is at work, or is one of the two that have ended.
LEMMA Kinds ==
    /\ Gone.at = "gone" /\ Broken.at = "broken"
    /\ \A o \in Orchestrators :
          /\ o.at \in At <=> o \in Workers
          /\ o.at \in At \cup {"gone", "broken"}
          /\ o.at = "gone" => o = Gone
          /\ o.at = "broken" => o = Broken
    /\ \A o \in Orchestrators : Live(o) \/ o.at = "migrate" => o.at \in At
<1>1. Gone.at = "gone" /\ Broken.at = "broken"
  BY DEF Gone, Broken, Orchestrator
<1>2. \A o \in Workers : o.at \in At
  BY DEF Workers
<1>3. Live(Gone) = FALSE /\ Live(Broken) = FALSE
  BY <1>1 DEF Live, Starting
<1> QED
  BY <1>1, <1>2, <1>3 DEF Orchestrators, At, Live, Starting

\* The orchestrators are numbered in the order they were made.
LEMMA Numbered ==
    ASSUME LifeTypes
    PROVE  /\ orch \in Seq(Orchestrators) /\ Len(orch) \in 0..MaxStarts /\ MaxStarts \in Nat
           /\ DOMAIN orch = 1..Len(orch)
           /\ \A i \in DOMAIN orch : orch[i] \in Orchestrators /\ i \in 1..MaxStarts
           /\ file \in Files /\ keychain \in Keychains
<1>1. orch \in Seq(Orchestrators) /\ Len(orch) <= MaxStarts
      /\ file \in Files /\ keychain \in Keychains
  BY DEF LifeTypes, LifecycleTypeOK, Files, Keychains
<1>2. Len(orch) \in Nat /\ DOMAIN orch = 1..Len(orch) /\ MaxStarts \in Nat
  BY <1>1, LenProperties, LifecycleAssumption
<1>3. \A i \in 1..Len(orch) : orch[i] \in Orchestrators
  BY <1>1, ElementOfSeq
<1> QED BY <1>1, <1>2, <1>3

\* A step of one orchestrator leaves the others.
LEMMA SetEffect ==
    ASSUME LifeTypes, NEW i \in DOMAIN orch, NEW o \in Orchestrators, Set(i, o)
    PROVE  /\ orch' \in Seq(Orchestrators) /\ Len(orch') = Len(orch)
           /\ DOMAIN orch' = DOMAIN orch
           /\ orch'[i] = o /\ \A j \in DOMAIN orch : j # i => orch'[j] = orch[j]
<1>1. orch \in Seq(Orchestrators) /\ DOMAIN orch = 1..Len(orch)
  BY Numbered
<1>2. orch' = [orch EXCEPT ![i] = o]
  BY DEF Set
<1>3. /\ orch' \in Seq(Orchestrators) /\ Len(orch') = Len(orch)
      /\ \A j \in 1..Len(orch) : orch'[j] = IF j = i THEN o ELSE orch[j]
  BY <1>1, <1>2, ExceptSeq
<1>4. DOMAIN orch' = 1..Len(orch')
  BY <1>3, LenProperties
<1> QED BY <1>1, <1>3, <1>4

\* The types, when the orchestrators have theirs.
LEMMA KeepTypes ==
    ASSUME LifeTypes, orch' \in Seq(Orchestrators), Len(orch') <= MaxStarts,
           Len(orch) <= Len(orch') \/ ref' = 0,
           keychain' \in Keychains, file' \in Files, app' \in {"loading", "ready"},
           {identity', effect'} \subseteq Identity \cup {None},
           ref' \in {0} \cup DOMAIN orch', entering' \subseteq Identity,
           {leaving', trouble', hasty'} \subseteq BOOLEAN
    PROVE  LifeTypes'
<1>1. \A i \in DOMAIN orch' : orch'[i] \in Orchestrators
  BY LenProperties, ElementOfSeq
<1>2. \A i \in DOMAIN orch' :
          orch'[i] \in {Gone, Broken} \/ (orch'[i].who \in Identity /\ orch'[i].at \in At)
  BY <1>1 DEF Orchestrators, Workers
<1> QED BY <1>2 DEF LifeTypes, LifecycleTypeOK, Files, Keychains

\* What a step of one orchestrator at work must show, migrations apart.
LEMMA WorkInv ==
    ASSUME LifeInv, NEW i \in DOMAIN orch, NEW o \in Orchestrators, Set(i, o),
           Live(orch[i]),
           keychain' \in Keychains, file' \in Files, trouble' \in BOOLEAN, trouble => trouble',
           keychain'.identity = keychain.identity,
           ref' = ref \/ ref' = i,
           UNCHANGED <<app, identity, effect, entering, leaving, hasty>>,
           Live(o) => o.who = orch[i].who /\ o.closed = orch[i].closed,
           o.at \in Connecting => orch[i].at \in Connecting \/ ref' = i,
           o.at = "broken" => trouble' \/ hasty
    PROVE  LifeTypes' /\ CurrentInv' /\ ProviderInv' /\ StartsAgain'
<1>1. /\ LifeTypes /\ CurrentInv /\ ProviderInv /\ StartsAgain
  BY DEF LifeInv
<1>2. /\ orch' \in Seq(Orchestrators) /\ Len(orch') = Len(orch)
      /\ DOMAIN orch' = DOMAIN orch
      /\ orch'[i] = o /\ \A j \in DOMAIN orch : j # i => orch'[j] = orch[j]
  BY <1>1, SetEffect
<1>3. LifeTypes'
  BY <1>1, <1>2, KeepTypes, Numbered DEF LifeTypes, LifecycleTypeOK
<1>4. CurrentInv'
  <2> SUFFICES ASSUME ~hasty
      PROVE  /\ \A j, k \in DOMAIN orch : Live(orch'[j]) /\ Live(orch'[k]) => j = k
             /\ \A j \in DOMAIN orch : Live(orch'[j]) =>
                    /\ orch'[j].who = identity /\ effect = identity /\ ~orch'[j].closed
                    /\ orch'[j].at \in Connecting => ref' = j
    BY <1>2 DEF CurrentInv
  <2>1. \A j \in DOMAIN orch : Live(orch'[j]) => j = i
    BY <1>1, <1>2 DEF CurrentInv
  <2>2. /\ orch[i].who = identity /\ effect = identity /\ ~orch[i].closed
        /\ orch[i].at \in Connecting => ref = i
    BY <1>1 DEF CurrentInv
  <2> QED BY <1>2, <2>1, <2>2
<1>5. ProviderInv'
  BY <1>1 DEF ProviderInv
<1>6. StartsAgain'
  BY <1>1, <1>2 DEF StartsAgain
<1> QED BY <1>3, <1>4, <1>5, <1>6

\* And of the migrations, when it makes nothing in a file.
LEMMA NothingMade ==
    ASSUME LifeInv, NEW i \in DOMAIN orch, NEW o \in Orchestrators, Set(i, o),
           \A x \in Identity : file'[x].made = file[x].made,
           o.at = "migrate" => Quiet /\ o.todo = <<"schema_migrations">>,
           o.at \in Connecting => o.who \in Identity /\ file[o.who].made = Schema
    PROVE  MigrationInv' /\ SchemaComplete'
<1>1. /\ LifeTypes /\ MigrationInv /\ SchemaComplete
  BY DEF LifeInv
<1>2. /\ DOMAIN orch' = DOMAIN orch
      /\ orch'[i] = o /\ \A j \in DOMAIN orch : j # i => orch'[j] = orch[j]
  BY <1>1, SetEffect
<1>3. \A j \in DOMAIN orch : orch[j].at \in At => orch[j].who \in Identity
  BY <1>1, Numbered, Kinds DEF Workers
<1>4. Connecting \subseteq At /\ "migrate" \in At
  BY DEF Connecting, At
<1>5. MigrationInv'
  <2>1. \A x \in Identity : Recorded(file'[x].made)
    BY <1>1 DEF MigrationInv
  <2>2. \A j, k \in DOMAIN orch : orch'[j].at = "migrate" /\ orch'[k].at = "migrate" => j = k
    BY <1>1, <1>2 DEF MigrationInv, Quiet
  <2>3. \A j \in DOMAIN orch : orch'[j].at = "migrate" =>
            \/ orch'[j].todo = <<"schema_migrations">>
            \/ Plan(orch'[j].todo, file'[orch'[j].who].made)
    <3> SUFFICES ASSUME NEW j \in DOMAIN orch, orch'[j].at = "migrate"
                 PROVE  \/ orch'[j].todo = <<"schema_migrations">>
                        \/ Plan(orch'[j].todo, file'[orch'[j].who].made)
      OBVIOUS
    <3>1. CASE j = i
      BY <1>2, <3>1
    <3>2. CASE j # i
      <4>1. orch'[j] = orch[j] /\ orch[j].at = "migrate" /\ orch[j].who \in Identity
        BY <1>2, <1>3, <1>4, <3>2
      <4>2. \/ orch[j].todo = <<"schema_migrations">>
            \/ Plan(orch[j].todo, file[orch[j].who].made)
        BY <1>1, <4>1 DEF MigrationInv
      <4> QED BY <4>1, <4>2
    <3> QED BY <3>1, <3>2
  <2> QED BY <1>2, <2>1, <2>2, <2>3 DEF MigrationInv
<1>6. SchemaComplete'
  BY <1>1, <1>2, <1>3, <1>4 DEF SchemaComplete
<1> QED BY <1>5, <1>6

-----------------------------------------------------------------------------
(* AppOrchestrator.initialize and start *)

\* Opening a file makes nothing in it; it fails only for another key.
LEMMA OpenedEffect ==
    ASSUME LifeTypes, NEW i \in DOMAIN orch, orch[i].at \in {"get", "set"},
           NEW key \in 0..MaxStarts, Opened(i, key)
    PROVE  \E o \in Orchestrators :
              /\ Set(i, o)
              /\ \/ /\ o = Broken
                    /\ file' = file
                    /\ file[orch[i].who].key \notin {0, key}
                 \/ /\ o.at = "migrate" /\ o.todo = <<"schema_migrations">>
                    /\ o.who = orch[i].who /\ o.closed = orch[i].closed
                    /\ file' \in Files
                    /\ \A x \in Identity : /\ file'[x].made = file[x].made
                                           /\ file'[x].key \in {file[x].key, key}
<1> DEFINE o == orch[i]
<1>1. o \in Workers /\ file \in Files
  BY Numbered, Kinds DEF At
<1>2. o.who \in Identity
  BY <1>1 DEF Workers
<1>3. CASE file[o.who].key \in {0, key}
  <2> DEFINE v == [o EXCEPT !.at = "migrate", !.todo = <<"schema_migrations">>]
  <2>1. Set(i, v) /\ file' = [file EXCEPT ![o.who].key = key]
    BY <1>3 DEF Opened
  <2>2. <<"schema_migrations">> \in Seq(Schema) /\ "migrate" \in At
    BY DEF Schema, At
  <2>3. /\ v \in Workers /\ v.at = "migrate" /\ v.todo = <<"schema_migrations">>
        /\ v.who = o.who /\ v.closed = o.closed
    <3> HIDE DEF o
    <3> QED BY <1>1, <2>2 DEF Workers
  <2>4. /\ file' \in Files
        /\ \A x \in Identity : /\ file'[x].made = file[x].made
                               /\ file'[x].key \in {file[x].key, key}
    <3> HIDE DEF o, v
    <3> QED BY <1>1, <1>2, <2>1 DEF Files
  <2> HIDE DEF v
  <2> QED BY <2>1, <2>3, <2>4 DEF Orchestrators
<1>4. CASE file[o.who].key \notin {0, key}
  BY <1>4 DEF Opened, Orchestrators
<1> QED BY <1>3, <1>4

\* The key is asked for, and the file opened with the one that is kept.
LEMMA GetKeyInv ==
    ASSUME LifeInv, NEW i \in DOMAIN orch, GetKey(i)
    PROVE  LifeInv'
<1>1. /\ LifeTypes /\ CurrentInv /\ KeyInv /\ orch[i].at = "get" /\ Quiet
      /\ UNCHANGED <<keychain, provider, trouble, hasty>>
      /\ keychain \in Keychains /\ file \in Files /\ trouble \in BOOLEAN
      /\ Live(orch[i]) /\ orch[i] \in Workers
  BY Numbered, Kinds
     DEF LifeInv, GetKey, LifeTypes, LifecycleTypeOK, Live, Starting, At
<1>2. UNCHANGED <<app, identity, effect, ref, entering, leaving>>
  BY <1>1 DEF provider
<1>3. CASE keychain.dbKey # 0
  <2>1. Opened(i, keychain.dbKey) /\ keychain.dbKey \in 0..MaxStarts
    BY <1>1, <1>3 DEF GetKey, Keychains
  <2>2. PICK o \in Orchestrators :
              /\ Set(i, o)
              /\ \/ /\ o = Broken
                    /\ file' = file
                    /\ file[orch[i].who].key \notin {0, keychain.dbKey}
                 \/ /\ o.at = "migrate" /\ o.todo = <<"schema_migrations">>
                    /\ o.who = orch[i].who /\ o.closed = orch[i].closed
                    /\ file' \in Files
                    /\ \A x \in Identity : /\ file'[x].made = file[x].made
                                           /\ file'[x].key \in {file[x].key, keychain.dbKey}
    BY <1>1, <2>1, OpenedEffect
  <2>3. o.at \in {"migrate", "broken"} /\ (o.at = "broken" => o = Broken /\ ~Live(o))
        /\ o.at \notin Connecting /\ o.at # "set"
    BY <2>2, Kinds DEF Connecting, Live, Starting
  <2>4. o.at = "broken" => trouble \/ hasty
    BY <1>1, <2>2, <2>3 DEF KeyInv, Workers
  <2>f. /\ file' \in Files /\ \A x \in Identity : file'[x].made = file[x].made
        /\ Live(o) => o.who = orch[i].who /\ o.closed = orch[i].closed
        /\ o.at = "migrate" => o.todo = <<"schema_migrations">>
        /\ Set(i, o)
    BY <1>1, <2>2, <2>3, Kinds
  <2>5. LifeTypes' /\ CurrentInv' /\ ProviderInv' /\ StartsAgain'
    BY <1>1, <1>2, <2>3, <2>4, <2>f, WorkInv
  <2>6. MigrationInv' /\ SchemaComplete'
    BY <1>1, <2>3, <2>f, NothingMade
  <2>7. KeyInv'
    BY <1>1, <2>2, <2>3, SetEffect DEF KeyInv
  <2> QED BY <2>5, <2>6, <2>7 DEF LifeInv
<1>4. CASE keychain.dbKey = 0
  <2> DEFINE o == [orch[i] EXCEPT !.at = "set"]
  <2>1. Set(i, o) /\ UNCHANGED file
    BY <1>4 DEF GetKey
  <2>2. o \in Orchestrators /\ o.at = "set" /\ o.who = orch[i].who
        /\ o.closed = orch[i].closed /\ o.at \notin Connecting
    BY <1>1 DEF Orchestrators, Workers, At, Connecting
  <2> HIDE DEF o
  <2>3. LifeTypes' /\ CurrentInv' /\ ProviderInv' /\ StartsAgain'
    BY <1>1, <1>2, <2>1, <2>2, WorkInv
  <2>4. MigrationInv' /\ SchemaComplete'
    BY <2>1, <2>2, NothingMade
  <2>5. KeyInv'
    BY <1>1, <1>4, <2>1, SetEffect, <2>2 DEF KeyInv
  <2> QED BY <2>3, <2>4, <2>5 DEF LifeInv
<1> QED BY <1>3, <1>4

\* A key is saved before it is used; nobody else makes one meanwhile.
LEMMA SetKeyInv ==
    ASSUME LifeInv, NEW i \in DOMAIN orch, SetKey(i)
    PROVE  LifeInv'
<1>1. /\ LifeTypes /\ CurrentInv /\ KeyInv /\ orch[i].at = "set" /\ Quiet /\ Opened(i, i)
      /\ UNCHANGED <<provider, trouble, hasty>> /\ keychain' = [keychain EXCEPT !.dbKey = i]
      /\ keychain \in Keychains /\ file \in Files /\ trouble \in BOOLEAN
      /\ Live(orch[i]) /\ orch[i] \in Workers /\ i \in 0..MaxStarts
  BY Numbered, Kinds
     DEF LifeInv, SetKey, LifeTypes, LifecycleTypeOK, Live, Starting, At
<1>2. UNCHANGED <<app, identity, effect, ref, entering, leaving>>
  BY <1>1 DEF provider
<1>3. keychain' \in Keychains /\ keychain'.identity = keychain.identity /\ keychain'.dbKey = i
  BY <1>1 DEF Keychains
<1>4. PICK o \in Orchestrators :
            /\ Set(i, o)
            /\ \/ /\ o = Broken
                  /\ file' = file
                  /\ file[orch[i].who].key \notin {0, i}
               \/ /\ o.at = "migrate" /\ o.todo = <<"schema_migrations">>
                  /\ o.who = orch[i].who /\ o.closed = orch[i].closed
                  /\ file' \in Files
                  /\ \A x \in Identity : /\ file'[x].made = file[x].made
                                         /\ file'[x].key \in {file[x].key, i}
  BY <1>1, OpenedEffect
<1>5. o.at \in {"migrate", "broken"} /\ (o.at = "broken" => o = Broken /\ ~Live(o))
      /\ o.at \notin Connecting /\ o.at # "set"
  BY <1>4, Kinds DEF Connecting, Live, Starting
<1>6. ~trouble /\ ~hasty => \A x \in Identity : file[x].key = 0
  BY <1>1 DEF KeyInv
<1>7. o.at = "broken" => trouble \/ hasty
  BY <1>1, <1>4, <1>5, <1>6 DEF Workers
<1>f. /\ file' \in Files /\ \A x \in Identity : file'[x].made = file[x].made
      /\ Live(o) => o.who = orch[i].who /\ o.closed = orch[i].closed
      /\ o.at = "migrate" => o.todo = <<"schema_migrations">>
      /\ Set(i, o)
  BY <1>1, <1>4, <1>5, Kinds
<1>8. LifeTypes' /\ CurrentInv' /\ ProviderInv' /\ StartsAgain'
  BY <1>1, <1>2, <1>3, <1>5, <1>7, <1>f, WorkInv
<1>9. MigrationInv' /\ SchemaComplete'
  BY <1>1, <1>5, <1>f, NothingMade
<1>10. KeyInv'
  <2> SUFFICES ASSUME ~trouble, ~hasty
      PROVE  /\ \A x \in Identity : file'[x].key \in {0, i}
             /\ \A j \in DOMAIN orch : orch'[j].at # "set"
    BY <1>1, <1>3, <1>4, SetEffect DEF KeyInv
  <2>1. \A x \in Identity : file'[x].key \in {0, i}
    BY <1>4, <1>6
  <2>2. \A j \in DOMAIN orch : j # i => orch[j].at # "set"
    BY <1>1 DEF CurrentInv, Live, Starting
  <2> QED BY <1>1, <1>4, <1>5, <2>1, <2>2, SetEffect
<1> QED BY <1>8, <1>9, <1>10 DEF LifeInv

\* A key that nobody keeps: from here on nothing is promised of the keys.
LEMMA KeyLostInv ==
    ASSUME LifeInv, NEW i \in DOMAIN orch, KeyLost(i)
    PROVE  LifeInv'
<1>1. /\ LifeTypes /\ orch[i].at \in {"get", "set"} /\ Quiet /\ Opened(i, i)
      /\ UNCHANGED <<keychain, provider, hasty>> /\ trouble' = TRUE
      /\ keychain \in Keychains /\ file \in Files
      /\ Live(orch[i]) /\ i \in 0..MaxStarts
  BY Numbered DEF LifeInv, KeyLost, KeychainFails, Live, Starting
<1>2. UNCHANGED <<app, identity, effect, ref, entering, leaving>>
  BY <1>1 DEF provider
<1>3. PICK o \in Orchestrators :
            /\ Set(i, o)
            /\ \/ /\ o = Broken
                  /\ file' = file
                  /\ file[orch[i].who].key \notin {0, i}
               \/ /\ o.at = "migrate" /\ o.todo = <<"schema_migrations">>
                  /\ o.who = orch[i].who /\ o.closed = orch[i].closed
                  /\ file' \in Files
                  /\ \A x \in Identity : /\ file'[x].made = file[x].made
                                         /\ file'[x].key \in {file[x].key, i}
  BY <1>1, OpenedEffect
<1>4. o.at \in {"migrate", "broken"} /\ (o.at = "broken" => o = Broken /\ ~Live(o))
      /\ o.at \notin Connecting
  BY <1>3, Kinds DEF Connecting, Live, Starting
<1>f. /\ file' \in Files /\ \A x \in Identity : file'[x].made = file[x].made
      /\ Live(o) => o.who = orch[i].who /\ o.closed = orch[i].closed
      /\ o.at = "migrate" => o.todo = <<"schema_migrations">>
      /\ Set(i, o)
  BY <1>1, <1>3, <1>4, Kinds
<1>5. LifeTypes' /\ CurrentInv' /\ ProviderInv' /\ StartsAgain'
  BY <1>1, <1>2, <1>4, <1>f, WorkInv
<1>6. MigrationInv' /\ SchemaComplete'
  BY <1>1, <1>4, <1>f, NothingMade
<1> QED BY <1>1, <1>5, <1>6 DEF LifeInv, KeyInv

\* initialize() returns with a complete schema; start() and the client go on.
LEMMA ConnectionsInv ==
    ASSUME LifeInv, NEW i \in DOMAIN orch,
           \/ Initialized(i) \/ Connected(i) \/ ConnectFails(i) \/ Redials(i) \/ HungUp(i)
    PROVE  LifeInv'
<1>1. /\ LifeTypes /\ CurrentInv /\ KeyInv /\ MigrationInv /\ SchemaComplete
      /\ keychain \in Keychains /\ file \in Files /\ trouble \in BOOLEAN
  BY Numbered DEF LifeInv, LifeTypes, LifecycleTypeOK
<1>2. PICK at \in {"connecting", "online", "off"} : Set(i, [orch[i] EXCEPT !.at = at])
  BY DEF Initialized, Connected, ConnectFails, Redials, HungUp, Moves
<1>3. /\ UNCHANGED <<stores, app, identity, effect, entering, leaving, trouble, hasty>>
      /\ orch[i].at \in {"migrate", "connecting", "online"}
      /\ orch[i].at = "migrate" => orch[i].todo = << >> /\ ref' = i
      /\ orch[i].at # "migrate" => ref' = ref
  BY DEF Initialized, Connected, ConnectFails, Redials, HungUp, Moves, provider
<1>4. UNCHANGED <<keychain, file, app, identity, effect, entering, leaving, trouble, hasty>>
  BY <1>3 DEF stores
<1>5. Live(orch[i]) /\ orch[i] \in Workers
  BY <1>1, <1>3, Numbered, Kinds DEF Live, Starting, At
<1> DEFINE o == [orch[i] EXCEPT !.at = at]
<1>6. /\ o \in Orchestrators /\ o.at = at /\ o.who = orch[i].who /\ o.who \in Identity
      /\ o.closed = orch[i].closed /\ Set(i, o)
  BY <1>2, <1>5 DEF Orchestrators, Workers, At
<1>7. file[orch[i].who].made = Schema
  <2>1. CASE orch[i].at = "migrate"
    <3>0. << >> # <<"schema_migrations">>
      OBVIOUS
    <3>1. Plan(<< >>, file[orch[i].who].made)
      <4>1. \/ orch[i].todo = <<"schema_migrations">>
            \/ Plan(orch[i].todo, file[orch[i].who].made)
        BY <1>1, <2>1 DEF MigrationInv
      <4> QED BY <1>3, <2>1, <3>0, <4>1
    <3>2. Range(<< >>) = {}
      BY DEF Range
    <3>3. file[orch[i].who].made \subseteq Schema
      BY <1>1, <1>5 DEF Files, Workers
    <3> QED BY <3>1, <3>2, <3>3 DEF Plan
  <2>2. CASE orch[i].at # "migrate"
    BY <1>1, <1>3, <2>2 DEF SchemaComplete, Connecting
  <2> QED BY <2>1, <2>2
<1> HIDE DEF o
<1>8. LifeTypes' /\ CurrentInv' /\ ProviderInv' /\ StartsAgain'
  BY <1>1, <1>3, <1>4, <1>5, <1>6, WorkInv DEF Connecting
<1>9. MigrationInv' /\ SchemaComplete'
  BY <1>1, <1>4, <1>6, <1>7, NothingMade
<1>10. KeyInv'
  BY <1>1, <1>4, <1>6, SetEffect DEF KeyInv
<1> QED BY <1>8, <1>9, <1>10 DEF LifeInv

\* One statement of a migration: none fails, and what is left is a plan.
LEMMA MigrateInv ==
    ASSUME LifeInv, NEW i \in DOMAIN orch, Migrate(i)
    PROVE  LifeInv'
<1> DEFINE x == orch[i].who
           made == file[x].made
           s == Head(orch[i].todo)
           left == IF s = "schema_migrations" THEN Pending(made) ELSE Tail(orch[i].todo)
           o == [orch[i] EXCEPT !.todo = left]
<1>1. /\ LifeTypes /\ MigrationInv /\ SchemaComplete /\ KeyInv
      /\ orch[i].at = "migrate" /\ orch[i].todo # << >> /\ orch[i] \in Workers
      /\ UNCHANGED <<keychain, provider, trouble, hasty>>
      /\ keychain \in Keychains /\ file \in Files /\ trouble \in BOOLEAN /\ Live(orch[i])
  BY Numbered, Kinds DEF LifeInv, Migrate, LifeTypes, LifecycleTypeOK, At, Live, Starting
<1>2. UNCHANGED <<app, identity, effect, ref, entering, leaving>>
  BY <1>1 DEF provider
<1>3. x \in Identity /\ made \in SUBSET Schema /\ Recorded(made)
  BY <1>1 DEF Workers, Files, MigrationInv
<1>4. /\ s \in Schema /\ s \notin OnlyOnce \cap made
      /\ Plan(left, made \cup {s}) /\ Recorded(made \cup {s})
  <2>1. CASE orch[i].todo = <<"schema_migrations">>
    <3>1. s = "schema_migrations" /\ s \notin OnlyOnce /\ s \in Schema
      BY <2>1, Versions DEF OnlyOnce
    <3>2. Recorded(made \cup {s})
      BY <1>3, <3>1 DEF Recorded
    <3> QED BY <1>3, <3>1, <3>2, PendingIsPlan
  <2>2. CASE Plan(orch[i].todo, made)
    BY <1>1, <1>3, <2>2, PlanStep
  <2> QED BY <1>1, <2>1, <2>2 DEF MigrationInv
<1>5. /\ Set(i, o)
      /\ file' = [file EXCEPT ![x].made = @ \cup {s}]
  <2>1. /\ file' = [file EXCEPT ![orch[i].who].made = @ \cup {Head(orch[i].todo)}]
        /\ Set(i, [orch[i] EXCEPT !.todo =
                     IF Head(orch[i].todo) = "schema_migrations"
                       THEN Pending(file[orch[i].who].made) ELSE Tail(@)])
    BY <1>4 DEF Migrate
  <2> QED BY <2>1
<1> HIDE DEF left, s, made
<1>6. left \in Seq(Schema)
  <2>1. left \in Seq(Schema \ {"schema_migrations"}) /\ Schema \ {"schema_migrations"} \subseteq Schema
    BY <1>4 DEF Plan
  <2> QED BY <2>1, SeqMonotonic
<1>7. /\ o \in Orchestrators /\ o.at = "migrate" /\ o.who = x /\ o.todo = left
      /\ o.closed = orch[i].closed
  BY <1>1, <1>6 DEF Workers, Orchestrators
<1>8. /\ file' \in Files /\ file'[x].made = made \cup {s} /\ file'[x].key = file[x].key
      /\ \A y \in Identity \ {x} : file'[y] = file[y]
  BY <1>1, <1>3, <1>4, <1>5 DEF Files, made
<1> HIDE DEF o
<1>9. LifeTypes' /\ CurrentInv' /\ ProviderInv' /\ StartsAgain'
  BY <1>1, <1>2, <1>5, <1>7, <1>8, WorkInv DEF Connecting
<1>10. /\ DOMAIN orch' = DOMAIN orch
       /\ orch'[i] = o /\ \A j \in DOMAIN orch : j # i => orch'[j] = orch[j]
  BY <1>1, <1>5, <1>7, SetEffect
<1>11. MigrationInv'
  <2>1. \A y \in Identity : Recorded(file'[y].made)
    BY <1>1, <1>4, <1>8 DEF MigrationInv
  <2>2. \A j \in DOMAIN orch : orch'[j].at = "migrate" => j = i
    BY <1>1, <1>10 DEF MigrationInv
  <2>3. Plan(orch'[i].todo, file'[orch'[i].who].made)
    BY <1>4, <1>7, <1>8, <1>10
  <2> QED BY <1>10, <2>1, <2>2, <2>3 DEF MigrationInv
<1>12. SchemaComplete'
  <2> SUFFICES ASSUME NEW j \in DOMAIN orch, orch'[j].at \in Connecting
               PROVE  file'[orch'[j].who].made = Schema
    BY <1>10 DEF SchemaComplete
  <2>1. j # i /\ orch'[j] = orch[j]
    BY <1>7, <1>10 DEF Connecting
  <2>2. file[orch[j].who].made = Schema /\ orch[j].who \in Identity
    BY <1>1, <2>1, Numbered, Kinds DEF SchemaComplete, Connecting, At, Workers
  <2> QED BY <1>4, <1>8, <2>1, <2>2 DEF made
<1>13. KeyInv'
  BY <1>1, <1>7, <1>8, <1>10 DEF KeyInv
<1> QED BY <1>9, <1>11, <1>12, <1>13 DEF LifeInv

-----------------------------------------------------------------------------
(* The provider *)

\* Stopping takes an orchestrator away, or closes one that connects.
LEMMA RefStoppedEffect ==
    ASSUME LifeTypes
    PROVE  /\ RefStopped \in Seq(Orchestrators) /\ Len(RefStopped) = Len(orch)
           /\ DOMAIN RefStopped = DOMAIN orch
           /\ \A j \in DOMAIN orch :
                 \/ j # ref /\ RefStopped[j] = orch[j]
                 \/ RefStopped[j] = Gone
                 \/ /\ orch[j].at = "connecting" /\ RefStopped[j].at = "connecting"
                    /\ RefStopped[j].who = orch[j].who
<1>1. /\ orch \in Seq(Orchestrators) /\ DOMAIN orch = 1..Len(orch)
      /\ \A j \in DOMAIN orch : orch[j] \in Orchestrators
      /\ ref \in {0} \cup DOMAIN orch
  BY Numbered DEF LifeTypes, LifecycleTypeOK
<1>2. CASE ref = 0
  <2>1. RefStopped = orch
    BY <1>2 DEF RefStopped
  <2> QED BY <1>1, <1>2, <2>1
<1>3. CASE ref \in DOMAIN orch
  <2> DEFINE o == Stopped(orch[ref])
  <2>1. \/ o = Gone
        \/ /\ orch[ref].at = "connecting" /\ o \in Workers /\ o.at = "connecting"
           /\ o.who = orch[ref].who
    <3>1. CASE orch[ref].at = "connecting"
      <4>1. orch[ref] \in Workers /\ o = [orch[ref] EXCEPT !.closed = TRUE]
        BY <1>1, <1>3, <3>1, Kinds DEF At, Stopped
      <4> QED BY <3>1, <4>1 DEF Workers
    <3>2. CASE orch[ref].at # "connecting"
      BY <3>2 DEF Stopped
    <3> QED BY <3>1, <3>2
  <2>2. o \in Orchestrators
    BY <2>1 DEF Orchestrators
  <2>3. RefStopped = [orch EXCEPT ![ref] = o]
    BY <1>1, <1>3 DEF RefStopped
  <2> HIDE DEF o
  <2>4. /\ RefStopped \in Seq(Orchestrators) /\ Len(RefStopped) = Len(orch)
        /\ \A j \in 1..Len(orch) : RefStopped[j] = IF j = ref THEN o ELSE orch[j]
    BY <1>1, <1>3, <2>2, <2>3, ExceptSeq
  <2>5. DOMAIN RefStopped = 1..Len(orch)
    BY <2>4, LenProperties
  <2> QED BY <1>1, <2>1, <2>4, <2>5
<1> QED BY <1>1, <1>2, <1>3

\* Without haste nobody was left at work: the one that is online is stopped.
LEMMA NobodyLive ==
    ASSUME LifeTypes, CurrentInv, ~Hasty
    PROVE  \A j \in DOMAIN orch : ~Live(RefStopped[j])
<1> SUFFICES ASSUME NEW j \in DOMAIN orch PROVE ~Live(RefStopped[j])
  OBVIOUS
<1>1. orch[j].at \notin Starting /\ ~hasty
  BY DEF Hasty
<1>2. \/ j # ref /\ RefStopped[j] = orch[j]
      \/ RefStopped[j] = Gone
      \/ orch[j].at = "connecting"
  BY RefStoppedEffect
<1>3. Live(orch[j]) => j = ref
  BY <1>1 DEF CurrentInv, Live, Connecting
<1>4. ~Live(Gone)
  BY Kinds DEF Live, Starting
<1> QED BY <1>1, <1>2, <1>3, <1>4 DEF Starting

\* The orchestrators of a step that stops some of them and may make another.
Descends ==
    \A j \in DOMAIN orch' :
        \/ j \in DOMAIN orch /\ orch'[j] = orch[j]
        \/ orch'[j] = Gone
        \/ /\ j \in DOMAIN orch /\ orch[j].at = "connecting"
           /\ orch'[j].at = "connecting" /\ orch'[j].who = orch[j].who
        \/ orch'[j].at = "get"

\* Such a step keeps what was said of files, keys and migrations.
LEMMA DescendsInv ==
    ASSUME LifeInv, Descends, UNCHANGED file, keychain'.dbKey = keychain.dbKey,
           trouble => trouble', hasty => hasty',
           trouble' \in BOOLEAN, hasty' \in BOOLEAN
    PROVE  MigrationInv' /\ SchemaComplete' /\ KeyInv' /\ StartsAgain'
<1>1. /\ LifeTypes /\ MigrationInv /\ SchemaComplete /\ KeyInv /\ StartsAgain
  BY DEF LifeInv
<1>2. \A j \in DOMAIN orch' : orch'[j].at \in {"migrate", "set", "broken", "online"} =>
          j \in DOMAIN orch /\ orch'[j] = orch[j]
  BY Kinds DEF Descends
<1>3. MigrationInv'
  BY <1>1, <1>2 DEF MigrationInv
<1>4. SchemaComplete'
  <2> SUFFICES ASSUME NEW j \in DOMAIN orch', orch'[j].at \in Connecting
               PROVE  file[orch'[j].who].made = Schema
    BY DEF SchemaComplete
  <2>1. j \in DOMAIN orch /\ orch[j].at \in Connecting /\ orch'[j].who = orch[j].who
    BY <1>2, Kinds DEF Descends, Connecting
  <2> QED BY <1>1, <2>1 DEF SchemaComplete
<1>5. KeyInv' /\ StartsAgain'
  BY <1>1, <1>2 DEF KeyInv, StartsAgain
<1> QED BY <1>3, <1>4, <1>5

\* The steps of the provider that leave the orchestrators alone.
LEMMA ProviderStepInv ==
    ASSUME LifeInv,
           \/ Load \/ Logout \/ \E x \in Identity : Enter(x) \/ Entered(x) \/ EnterFails(x)
    PROVE  LifeInv'
<1>1. /\ LifeTypes /\ CurrentInv /\ ProviderInv
      /\ UNCHANGED <<file, orch, effect, ref>>
      /\ trouble \in BOOLEAN /\ hasty \in BOOLEAN /\ leaving \in BOOLEAN
      /\ identity \in Identity \cup {None} /\ effect \in Identity \cup {None}
      /\ app \in {"loading", "ready"} /\ keychain \in Keychains /\ entering \subseteq Identity
  BY DEF LifeInv, Load, Logout, Enter, Entered, EnterFails, stores, LifeTypes,
         LifecycleTypeOK, Keychains
<1>2. /\ keychain' \in Keychains /\ keychain'.dbKey = keychain.dbKey
      /\ trouble' \in BOOLEAN /\ hasty' \in BOOLEAN /\ (trouble => trouble') /\ (hasty => hasty')
      /\ app' \in {"loading", "ready"} /\ leaving' \in BOOLEAN
      /\ identity' \in Identity \cup {None} /\ entering' \subseteq Identity
  BY <1>1 DEF Load, Logout, Enter, Entered, EnterFails, stores, KeychainFails, Keychains
<1>3. LifeTypes'
  BY <1>1, <1>2, KeepTypes, Numbered DEF LifeTypes, LifecycleTypeOK
<1>4. MigrationInv' /\ SchemaComplete' /\ KeyInv' /\ StartsAgain'
  BY <1>1, <1>2, DescendsInv DEF Descends
<1>5. CurrentInv' /\ ProviderInv'
  <2> USE <1>1, <1>2
  <2>1. CASE Load
    <3>1. app = "loading" /\ app' = "ready" /\ entering' = entering /\ UNCHANGED <<keychain, hasty>>
          /\ (~trouble' => identity' = keychain.identity)
      BY <2>1 DEF Load, KeychainFails, stores
    <3>2. \A i \in DOMAIN orch : ~Live(orch[i])
      BY <3>1 DEF ProviderInv
    <3> QED BY <3>1, <3>2 DEF CurrentInv, ProviderInv
  <2>2. CASE Logout
    BY <2>2 DEF Logout, stores, CurrentInv, ProviderInv
  <2>3. ASSUME NEW x \in Identity, Enter(x) PROVE CurrentInv' /\ ProviderInv'
    <3>1. /\ app = "ready" /\ identity = None /\ entering' = entering \cup {x}
          /\ UNCHANGED <<app, keychain, identity, trouble, leaving>>
          /\ (~hasty' => entering = {} /\ ~hasty)
      BY <2>3 DEF Enter, Welcome, stores
    <3> QED BY <3>1 DEF CurrentInv, ProviderInv
  <2>4. ASSUME NEW x \in Identity, Entered(x) PROVE CurrentInv' /\ ProviderInv'
    <3>1. /\ x \in entering /\ entering' = entering \ {x} /\ identity' = x
          /\ UNCHANGED <<app, hasty, leaving>>
          /\ (~trouble' => keychain'.identity = x)
      BY <2>4 DEF Entered, KeychainFails, Keychains
    <3>2. app = "ready"
      BY <3>1 DEF ProviderInv
    <3>3. ~hasty => identity = None /\ entering' = {}
      BY <3>1 DEF ProviderInv
    <3>4. ~hasty => \A i \in DOMAIN orch : ~Live(orch[i])
      <4> SUFFICES ASSUME ~hasty, NEW i \in DOMAIN orch, Live(orch[i]) PROVE FALSE
        OBVIOUS
      <4>1. orch[i].who = None
        BY <3>3 DEF CurrentInv
      <4>2. orch[i].who \in Identity
        BY Numbered, Kinds DEF Workers
      <4> QED BY <4>1, <4>2, LifecycleAssumption
    <3> QED BY <3>1, <3>2, <3>3, <3>4 DEF CurrentInv, ProviderInv
  <2>5. ASSUME NEW x \in Identity, EnterFails(x) PROVE CurrentInv' /\ ProviderInv'
    <3>1. /\ x \in entering /\ entering' = entering \ {x}
          /\ UNCHANGED <<app, identity, keychain, hasty, leaving>> /\ trouble'
      BY <2>5 DEF EnterFails, KeychainFails, stores
    <3> QED BY <3>1 DEF CurrentInv, ProviderInv
  <2> QED BY <2>1, <2>2, <2>3, <2>4, <2>5
<1> QED BY <1>3, <1>4, <1>5 DEF LifeInv

\* logout has come to its end, or failed.
LEMMA LoggedOutInv == LifeInv /\ LoggedOut => LifeInv'
<1> SUFFICES ASSUME LifeInv, LoggedOut PROVE LifeInv'
  OBVIOUS
<1>1. /\ LifeTypes /\ CurrentInv /\ ProviderInv /\ keychain \in Keychains /\ file \in Files
      /\ leaving /\ ~leaving' /\ leaving' \in BOOLEAN /\ UNCHANGED <<file, app, effect, entering>>
      /\ trouble \in BOOLEAN /\ hasty \in BOOLEAN
      /\ identity \in Identity \cup {None} /\ effect \in Identity \cup {None}
      /\ app = "ready" /\ entering \subseteq Identity
  BY DEF LifeInv, LoggedOut, LifeTypes, LifecycleTypeOK, Keychains, Files, ProviderInv
<1>2. CASE /\ keychain' = [keychain EXCEPT !.identity = None]
           /\ orch' = RefStopped /\ ref' = 0 /\ identity' = None /\ hasty' = Hasty
           /\ UNCHANGED trouble
  <2>1. keychain' \in Keychains /\ keychain'.dbKey = keychain.dbKey /\ keychain'.identity = None
    BY <1>1, <1>2 DEF Keychains
  <2>2. hasty' \in BOOLEAN /\ (hasty => hasty')
    BY <1>1, <1>2 DEF Hasty
  <2>3. orch' \in Seq(Orchestrators) /\ Len(orch') = Len(orch) /\ DOMAIN orch' = DOMAIN orch
    BY <1>1, <1>2, RefStoppedEffect
  <2>4. LifeTypes'
    BY <1>1, <1>2, <2>1, <2>2, <2>3, KeepTypes, Numbered
  <2>5. Descends
    BY <1>1, <1>2, <2>3, RefStoppedEffect DEF Descends
  <2>6. MigrationInv' /\ SchemaComplete' /\ KeyInv' /\ StartsAgain'
    BY <1>1, <1>2, <2>1, <2>2, <2>5, DescendsInv
  <2>7. ~hasty' => \A j \in DOMAIN orch' : ~Live(orch'[j])
    BY <1>1, <1>2, <2>3, NobodyLive
  <2>8. CurrentInv' /\ ProviderInv'
    BY <1>1, <1>2, <2>1, <2>2, <2>7 DEF CurrentInv, ProviderInv
  <2> QED BY <2>4, <2>6, <2>8 DEF LifeInv
<1>3. CASE trouble' = TRUE /\ UNCHANGED <<keychain, orch, ref, identity, hasty>>
  <2>1. LifeTypes'
    BY <1>1, <1>3, KeepTypes, Numbered DEF LifeTypes, LifecycleTypeOK
  <2>2. MigrationInv' /\ SchemaComplete' /\ KeyInv' /\ StartsAgain'
    BY <1>1, <1>3, DescendsInv DEF Descends
  <2>3. CurrentInv' /\ ProviderInv'
    BY <1>1, <1>3 DEF CurrentInv, ProviderInv
  <2> QED BY <2>1, <2>2, <2>3 DEF LifeInv
<1> QED BY <1>2, <1>3 DEF LoggedOut, KeychainFails

\* The effect: the orchestrator it makes is the only one at work.
LEMMA EffectInv == LifeInv /\ Effect => LifeInv'
<1> SUFFICES ASSUME LifeInv, Effect PROVE LifeInv'
  OBVIOUS
<1> DEFINE stops == effect # None \/ identity = None
           left  == IF stops THEN RefStopped ELSE orch
<1>1. /\ LifeTypes /\ CurrentInv /\ ProviderInv /\ keychain \in Keychains /\ file \in Files
      /\ trouble \in BOOLEAN /\ hasty \in BOOLEAN /\ leaving \in BOOLEAN
      /\ identity \in Identity \cup {None} /\ effect \in Identity \cup {None}
      /\ ref \in {0} \cup DOMAIN orch
      /\ app \in {"loading", "ready"} /\ entering \subseteq Identity
  BY DEF LifeInv, LifeTypes, LifecycleTypeOK, Keychains, Files
<1>2. /\ effect # identity /\ effect' = identity
      /\ ref' = IF stops THEN 0 ELSE ref
      /\ orch' = IF identity = None THEN left ELSE Append(left, Orchestrator(identity))
      /\ hasty' = IF effect # None THEN Hasty ELSE hasty
      /\ UNCHANGED <<keychain, file, app, identity, entering, leaving, trouble>>
      /\ identity # None => Len(orch) < MaxStarts
  BY DEF Effect, stores
<1>3. hasty' \in BOOLEAN /\ (hasty => hasty')
  BY <1>1, <1>2 DEF Hasty
<1>4. /\ left \in Seq(Orchestrators) /\ Len(left) = Len(orch) /\ DOMAIN left = DOMAIN orch
      /\ DOMAIN orch = 1..Len(orch) /\ Len(orch) \in Nat /\ MaxStarts \in Nat
      /\ Len(orch) <= MaxStarts
  BY <1>1, RefStoppedEffect, Numbered
<1>5. \A j \in DOMAIN orch :
          \/ left[j] = orch[j]
          \/ left[j] = Gone
          \/ /\ orch[j].at = "connecting" /\ left[j].at = "connecting"
             /\ left[j].who = orch[j].who
  BY <1>1, RefStoppedEffect
<1>6. ~hasty' => \A j \in DOMAIN orch : ~Live(left[j])
  <2>1. CASE effect # None
    BY <1>1, <1>2, <2>1, NobodyLive
  <2>2. CASE effect = None
    <3>1. stops = FALSE
      BY <1>2, <2>2
    <3> SUFFICES ASSUME ~hasty, NEW j \in DOMAIN orch, Live(orch[j]) PROVE FALSE
      BY <1>2, <2>2, <3>1
    <3>2. orch[j].who = identity /\ effect = identity
      BY <1>1 DEF CurrentInv
    <3> QED BY <1>2, <3>2
  <2> QED BY <2>1, <2>2
<1> HIDE DEF left, stops
<1>7. CASE identity = None
  <2>1. orch' = left /\ ref' = 0
    BY <1>2, <1>7 DEF stops
  <2>2. LifeTypes'
    BY <1>1, <1>2, <1>3, <1>4, <2>1, KeepTypes
  <2>3. Descends
    BY <1>4, <1>5, <2>1 DEF Descends
  <2>4. MigrationInv' /\ SchemaComplete' /\ KeyInv' /\ StartsAgain'
    BY <1>1, <1>2, <1>3, <2>3, DescendsInv
  <2>5. CurrentInv' /\ ProviderInv'
    BY <1>1, <1>2, <1>3, <1>4, <1>6, <1>7, <2>1 DEF CurrentInv, ProviderInv
  <2> QED BY <2>2, <2>4, <2>5 DEF LifeInv
<1>8. CASE identity # None
  <2> DEFINE o == Orchestrator(identity)
  <2>1. orch' = Append(left, o) /\ Len(orch) < MaxStarts /\ identity \in Identity
    BY <1>1, <1>2, <1>8
  <2>2. /\ o \in Workers /\ o.at = "get" /\ o.who = identity /\ ~o.closed
    <3>1. << >> \in Seq(Schema)
      OBVIOUS
    <3> QED BY <2>1, <3>1 DEF Orchestrator, Workers, At
  <2>3. o \in Orchestrators
    BY <2>2 DEF Orchestrators
  <2> HIDE DEF o
  <2>4. /\ orch' \in Seq(Orchestrators) /\ Len(orch') = Len(orch) + 1
        /\ \A j \in 1..Len(orch) : orch'[j] = left[j]
        /\ orch'[Len(orch) + 1] = o
    BY <1>4, <2>1, <2>3, AppendProperties
  <2>5. DOMAIN orch' = 1..(Len(orch) + 1)
    BY <2>4, LenProperties
  <2>6. /\ Len(orch') <= MaxStarts /\ Len(orch) <= Len(orch')
        /\ \A j \in DOMAIN orch' : j \in DOMAIN orch \/ j = Len(orch) + 1
        /\ DOMAIN orch \subseteq DOMAIN orch'
    BY <1>4, <2>1, <2>4, <2>5
  <2>7. LifeTypes'
    <3>1. ref' \in {0} \cup DOMAIN orch'
      BY <1>1, <1>2, <2>6
    <3> QED BY <1>1, <1>2, <1>3, <2>4, <2>6, <3>1, KeepTypes
  <2>8. \A j \in DOMAIN orch' : orch'[j] = IF j \in DOMAIN orch THEN left[j] ELSE o
    BY <1>4, <2>4, <2>6
  <2>9. Descends
    BY <1>5, <2>2, <2>8 DEF Descends
  <2>10. MigrationInv' /\ SchemaComplete' /\ KeyInv' /\ StartsAgain'
    BY <1>1, <1>2, <1>3, <2>9, DescendsInv
  <2>11. CurrentInv'
    <3>1. ~hasty' => \A j \in DOMAIN orch' : Live(orch'[j]) => j = Len(orch) + 1
      BY <1>6, <2>6, <2>8
    <3>2. orch'[Len(orch) + 1].at \notin Connecting
      BY <2>2, <2>4 DEF Connecting
    <3> QED BY <1>2, <2>2, <2>4, <3>1, <3>2 DEF CurrentInv
  <2>12. ProviderInv'
    BY <1>1, <1>2, <1>3, <1>8 DEF ProviderInv
  <2> QED BY <2>7, <2>10, <2>11, <2>12 DEF LifeInv
<1> QED BY <1>7, <1>8

\* Whatever ran is gone, and nothing of it is left in the provider.
LEMMA CrashInv == LifeInv /\ Crash => LifeInv'
<1> SUFFICES ASSUME LifeInv, Crash PROVE LifeInv'
  OBVIOUS
<1>1. /\ LifeTypes /\ keychain \in Keychains /\ file \in Files
      /\ trouble \in BOOLEAN /\ hasty \in BOOLEAN
      /\ app' = "loading" /\ identity' = None /\ effect' = None /\ ref' = 0
      /\ entering' = {} /\ leaving' = FALSE
      /\ orch' = [i \in DOMAIN orch |-> Gone]
      /\ UNCHANGED <<keychain, file, trouble, hasty>>
  BY DEF LifeInv, LifeTypes, LifecycleTypeOK, Keychains, Files, Crash, stores
<1>2. DOMAIN orch = 1..Len(orch) /\ Len(orch) \in Nat /\ Len(orch) <= MaxStarts
      /\ MaxStarts \in Nat
  BY <1>1, Numbered
<1>3. orch' \in Seq(Orchestrators) /\ Len(orch') = Len(orch)
  <2>1. orch' \in [1..Len(orch) -> Orchestrators]
    BY <1>1, <1>2 DEF Orchestrators
  <2> QED BY <1>2, <2>1
<1>4. LifeTypes'
  BY <1>1, <1>2, <1>3, KeepTypes
<1>5. Descends
  BY <1>1 DEF Descends
<1>6. MigrationInv' /\ SchemaComplete' /\ KeyInv' /\ StartsAgain'
  BY <1>1, <1>5, DescendsInv
<1>7. \A j \in DOMAIN orch' : ~Live(orch'[j])
  BY <1>1, Kinds DEF Live, Starting
<1>8. CurrentInv' /\ ProviderInv'
  BY <1>1, <1>7 DEF CurrentInv, ProviderInv
<1> QED BY <1>4, <1>6, <1>8 DEF LifeInv

-----------------------------------------------------------------------------
\* Nothing was installed, and nobody has entered.
LEMMA LifeInitInv == LifecycleInit => LifeInv
<1> SUFFICES ASSUME LifecycleInit PROVE LifeInv
  OBVIOUS
<1>1. /\ orch = << >> /\ DOMAIN orch = {} /\ Len(orch) = 0 /\ orch \in Seq(Orchestrators)
  BY DEF LifecycleInit
<1>2. \A x \in Identity : file[x] = [key |-> 0, made |-> {}]
  BY DEF LifecycleInit, NoFile
<1>3. LifeTypes
  <2>1. [key |-> 0, made |-> {}] \in [key : 0..MaxStarts, made : SUBSET Schema]
    BY LifecycleAssumption
  <2>2. file \in [Identity -> [key : 0..MaxStarts, made : SUBSET Schema]]
    BY <2>1 DEF LifecycleInit, NoFile
  <2>3. keychain \in [identity : Identity \cup {None}, dbKey : 0..MaxStarts]
    BY LifecycleAssumption DEF LifecycleInit
  <2>4. /\ app \in {"loading", "ready"} /\ {identity, effect} \subseteq Identity \cup {None}
        /\ ref \in {0} \cup DOMAIN orch /\ entering \subseteq Identity
        /\ {leaving, trouble, hasty} \subseteq BOOLEAN
    BY DEF LifecycleInit
  <2>5. /\ Len(orch) <= MaxStarts
        /\ \A i \in DOMAIN orch :
              orch[i] \in {Gone, Broken} \/ (orch[i].who \in Identity /\ orch[i].at \in At)
    <3>1. 0 <= MaxStarts
      BY LifecycleAssumption
    <3> QED BY <1>1, <3>1
  <2> QED BY <1>1, <2>2, <2>3, <2>4, <2>5 DEF LifeTypes, LifecycleTypeOK
<1>4. MigrationInv /\ SchemaComplete /\ StartsAgain
  BY <1>1, <1>2 DEF MigrationInv, Recorded, SchemaComplete, StartsAgain
<1>5. KeyInv /\ CurrentInv
  BY <1>1, <1>2 DEF KeyInv, CurrentInv, LifecycleInit
<1>6. ProviderInv
  BY <1>1 DEF ProviderInv, LifecycleInit
<1> QED BY <1>3, <1>4, <1>5, <1>6 DEF LifeInv

\* Every step of the provider, the screens and the orchestrators, and the end of
\* the process anywhere, keeps the invariant.
LEMMA LifeNextInv == LifeInv /\ [LifecycleNext]_lifecycle => LifeInv'
<1> SUFFICES ASSUME LifeInv, [LifecycleNext]_lifecycle PROVE LifeInv'
  OBVIOUS
<1>1. CASE UNCHANGED lifecycle
  <2>1. UNCHANGED <<keychain, file, app, identity, effect, ref, entering, leaving, orch,
                    trouble, hasty>>
    BY <1>1 DEF lifecycle, stores, provider
  <2>2. /\ LifeTypes' /\ MigrationInv' /\ SchemaComplete'
    BY <2>1 DEF LifeInv, LifeTypes, LifecycleTypeOK, MigrationInv, SchemaComplete
  <2>3. CurrentInv' /\ ProviderInv' /\ KeyInv' /\ StartsAgain'
    BY <2>1 DEF LifeInv, CurrentInv, ProviderInv, KeyInv, StartsAgain
  <2> QED BY <2>2, <2>3 DEF LifeInv
<1>2. CASE LifecycleNext
  BY <1>2, ProviderStepInv, LoggedOutInv, EffectInv, CrashInv, GetKeyInv, SetKeyInv,
     KeyLostInv, MigrateInv, ConnectionsInv
     DEF LifecycleNext
<1> QED BY <1>1, <1>2

\* The invariant holds in every reachable state.
LEMMA LifeInvariant == LifecycleSpec => []LifeInv
  BY LifeInitInv, LifeNextInv, PTL DEF LifecycleSpec

\* The stores, the provider and the orchestrators always have their types.
THEOREM LifecycleTypeCorrect == LifecycleSpec => []LifecycleTypeOK
  BY LifeInvariant, PTL DEF LifeInv, LifeTypes

\* Every database is opened with the key it was made with, and none of its
\* migrations fails, wherever crashes have cut earlier starts short.
THEOREM StartsAgainHolds == LifecycleSpec => []StartsAgain
  BY LifeInvariant, PTL DEF LifeInv

\* Nobody goes on to Tor with an incomplete schema, even after haste or when
\* the keychain has failed.
THEOREM SchemaCompleteHolds == LifecycleSpec => []SchemaComplete
  BY LifeInvariant, PTL DEF LifeInv

\* An orchestrator that was left connects to nothing, unless it was left at work.
THEOREM OnlyCurrentConnectsHolds == LifecycleSpec => []OnlyCurrentConnects
<1>1. LifeInv => OnlyCurrentConnects
  BY DEF LifeInv, CurrentInv, OnlyCurrentConnects, Live, Connecting, Starting
<1> QED BY <1>1, LifeInvariant, PTL

\* The identity that is shown is in the keychain, and no step but a logout
\* replaces it there.
THEOREM IdentityKeptHolds == LifecycleSpec => IdentityKept
<1>1. LifeInv /\ [LifecycleNext]_lifecycle =>
        [keychain.identity \notin {None, keychain'.identity}
            => leaving \/ trouble \/ hasty]_lifecycle
  <2> SUFFICES ASSUME LifeInv, LifecycleNext, ~leaving, ~trouble, ~hasty,
                      keychain.identity # None
               PROVE  keychain'.identity = keychain.identity
    BY DEF lifecycle
  <2>1. keychain \in Keychains /\ ProviderInv
    BY Numbered DEF LifeInv
  <2>2. \A x \in Identity : ~Entered(x)
    <3> SUFFICES ASSUME NEW x \in Identity, x \in entering PROVE FALSE
      BY DEF Entered
    <3>1. app = "ready" /\ identity = None
      BY <2>1 DEF ProviderInv, LifeInv, LifeTypes, LifecycleTypeOK
    <3> QED BY <2>1, <3>1 DEF ProviderInv
  <2>3. CASE \E i \in DOMAIN orch : SetKey(i)
    BY <2>1, <2>3 DEF SetKey, Keychains
  <2>4. CASE UNCHANGED keychain
    BY <2>4
  <2>5. ~LoggedOut
    BY DEF LoggedOut
  <2>6. (\E i \in DOMAIN orch : SetKey(i)) \/ UNCHANGED keychain
    BY <2>2, <2>5
       DEF LifecycleNext, Load, Logout, Effect, Crash, Enter, EnterFails, stores, GetKey,
           KeyLost, Migrate, Initialized, Connected, ConnectFails, Redials, HungUp, Moves
  <2> QED BY <2>3, <2>4, <2>6
<1>2. LifeInv => (identity # None => identity = keychain.identity \/ trouble)
  <2> SUFFICES ASSUME LifeInv, identity # None, ~trouble
               PROVE  identity = keychain.identity
    OBVIOUS
  <2>1. ProviderInv /\ app \in {"loading", "ready"}
    BY DEF LifeInv, LifeTypes, LifecycleTypeOK
  <2> QED BY <2>1 DEF ProviderInv
<1> QED BY <1>1, <1>2, LifeInvariant, PTL DEF LifecycleSpec, IdentityKept

=============================================================================
