-------------------------- MODULE ServerSecret_proofs --------------------------
(***************************************************************************)
(* Proofs about ServerSecret for every set of keys, SereneDBs, specs and   *)
(* lagging informers, and every bound.                                     *)
(***************************************************************************)
EXTENDS ServerSecret, SecretSource_proofs

(***************************************************************************)
(* Types.                                                                  *)
(***************************************************************************)
\* What the shared code's lemmas ask for.
LEMMA SharedTypesOK ==
  ASSUME TypeOK
  PROVE  /\ StatusSet(VersionedStatus) /\ DependentTypeOK(VersionedStatus)
         /\ NewStatus \in VersionedStatus /\ SecretSourceTypeOK
         /\ rows \in [Clusters -> [Names -> Maybe(Rows)]]
BY VersionedStatusSet DEF TypeOK

\* Reading and rendering the options.
LEMMA optionsTypes ==
  ASSUME TypeOK, options
  PROVE  TypeOK' /\ UNCHANGED rows /\ pc' \in {"connect", "status"}
<1> DEFINE usable == seen.spec.options # Bad /\ (seen.spec.secret => secretCache.form = "usable")
<1>1. readSecret("ValuesSecretMissing", usable, "InvalidSpec")
  BY DEF options
<1>2. "ValuesSecretMissing" \in Reasons /\ "InvalidSpec" \in Reasons
  BY DEF Reasons
<1> HIDE DEF usable
<1>3. /\ DependentTypeOK(VersionedStatus)' /\ SecretSourceTypeOK'
      /\ UNCHANGED rows /\ pc' \in {"connect", "status"}
  BY <1>1, <1>2, SharedTypesOK, readSecretTypes
<1> QED
  BY <1>3 DEF TypeOK, Steps

\* CREATE OR REPLACE PERSISTENT SECRET.
LEMMA replaceTypes ==
  ASSUME TypeOK, replace
  PROVE  /\ DependentTypeOK(VersionedStatus)' /\ pc' \in {"idle", "status"}
         /\ rows' \in [Clusters -> [Names -> Maybe(Rows)]]
<1> DEFINE S == VersionedStatus
<1>1. StatusSet(S) /\ WorldOK(S) /\ WorkerOK(S) /\ pc # "idle" /\ SecretSourceTypeOK
  BY SharedTypesOK, Halves DEF replace
<1>2. WorldOK(S)'
  BY <1>1, FaultTypes, WorldKept DEF replace, Exec
<1>3. WorkerOK(S)' /\ pc' \in {"idle", "status"}
  <2>1. CASE FinishApplied
    BY <1>1, <2>1, FinishAppliedTypes DEF FinishApplied
  <2>2. CASE Error
    BY <1>1, <2>2, ErrorTypes, SeenTypes
  <2> QED
    BY <2>1, <2>2 DEF replace, Exec
<1>4. [by |-> seen.uid, options |-> seen.spec.options, version |-> Version] \in Maybe(Rows)
  <2>1. seen.uid \in Nat \ {0} /\ seen.spec \in Specs /\ Version \in Nat
    BY <1>1, SeenTypes, VersionTypes
  <2>2. seen.spec.options \in STRING
    BY <2>1, ServerSecretAssumption DEF SpecType
  <2> QED
    BY <2>1, <2>2 DEF Maybe, Rows
<1>5. CreateSecret \in [Clusters -> [Names -> Maybe(Rows)]]
  BY <1>1, <1>4, SharedTypesOK, WithRows DEF CreateSecret
<1>6. rows' \in [Clusters -> [Names -> Maybe(Rows)]]
  BY <1>5, SharedTypesOK DEF replace, Exec
<1> QED
  BY <1>2, <1>3, <1>6, Joined

\* The shared steps of a reconcile.
LEMMA SharedStepTypes ==
  ASSUME TypeOK,
         \/ ensureFinalizer
         \/ finalize(TRUE) \/ dropServerSecret \/ removeFinalizer
         \/ openSession(IF seen.deleting THEN "dropExists" ELSE "replace")
         \/ GetFails({"finalize", "connect"}) \/ readFails
         \/ PatchStatus
         \/ \E k \in Keys : Begin(k, "secret")
  PROVE  /\ DependentTypeOK(VersionedStatus)' /\ pc' \in Steps \cup {"idle"}
         /\ rows' \in [Clusters -> [Names -> Maybe(Rows)]]
<1> DEFINE S == VersionedStatus
<1>1. StatusSet(S) /\ DependentTypeOK(S) /\ rows \in [Clusters -> [Names -> Maybe(Rows)]]
  BY SharedTypesOK
<1> HIDE DEF S
<1>2. CASE ensureFinalizer \/ removeFinalizer \/ PatchStatus
  BY <1>1, <1>2, ensureFinalizerTypes, removeFinalizerTypes, PatchStatusTypes
     DEF S, ensureFinalizer, removeFinalizer, Update, PatchStatus, server
<1>3. CASE finalize(TRUE)
  BY <1>1, <1>3, finalizeTypes DEF S, Steps, finalize, server
<1>4. ASSUME NEW step \in {"dropExists", "replace"}, openSession(step)
      PROVE  DependentTypeOK(S)' /\ pc' \in Steps \cup {"idle"} /\ UNCHANGED rows
  BY <1>1, <1>4, openSessionTypes DEF Steps, openSession, server
<1>5. ASSUME NEW steps, "idle" \notin steps, GetFails(steps)
      PROVE  DependentTypeOK(S)' /\ pc' \in Steps \cup {"idle"} /\ UNCHANGED rows
  BY <1>1, <1>5, GetFailsTypes DEF Steps, GetFails, server
<1>6. ASSUME NEW k \in Keys, Begin(k, "secret")
      PROVE  DependentTypeOK(S)' /\ pc' \in Steps \cup {"idle"} /\ UNCHANGED rows
  <2>1. DependentTypeOK(S)' /\ pc' \in {"idle", "finalize", "guard", "secret"}
    BY <1>1, <1>6, BeginTypes
  <2>2. UNCHANGED rows
    BY <1>6 DEF Begin, server
  <2> QED
    BY <2>1, <2>2 DEF Steps
<1>7. CASE dropExists
  BY <1>1, <1>7, dropExistsTypes DEF S, Steps
<1>8. CASE drop
  <2>1. /\ DependentTypeOK(S)' /\ rows' \in {rows, With(NoObj)}
        /\ pc' \in {"idle", "status", "release"}
    BY <1>1, <1>8, dropTypes
  <2>2. With(NoObj) \in [Clusters -> [Names -> Maybe(Rows)]]
    BY <1>1, <1>8, Halves, WithRows DEF Maybe, drop
  <2> QED
    BY <1>1, <2>1, <2>2 DEF S, Steps
<1> QED
  BY <1>1, <1>2, <1>3, <1>4, <1>5, <1>6, <1>7, <1>8 DEF S, dropServerSecret, readFails

\* Everybody else.
LEMMA OthersTypes ==
  ASSUME TypeOK, (\E k \in Keys : Create(k, NewStatus)) \/ Surroundings
  PROVE  /\ DependentTypeOK(VersionedStatus)' /\ UNCHANGED pc
         /\ rows' \in [Clusters -> [Names -> Maybe(Rows)]]
<1> DEFINE S == VersionedStatus
<1>1. DependentTypeOK(S) /\ NewStatus \in S /\ rows \in [Clusters -> [Names -> Maybe(Rows)]]
  BY SharedTypesOK
<1>2. DependentTypeOK(S)' /\ UNCHANGED pc
  BY <1>1, UserStepTypes, SurroundingsTypes DEF worker
<1> QED
  BY <1>1, <1>2, SurroundingRows DEF Create, server

\* Every step preserves the types.
LEMMA NextTypes ==
  ASSUME TypeOK, [Next]_vars
  PROVE  TypeOK'
<1>1. CASE UNCHANGED vars
  BY <1>1 DEF TypeOK, DependentTypeOK, SecretSourceTypeOK, vars, secrets, base, api, dbs, server,
              worker, budget
<1>2. ASSUME DependentTypeOK(VersionedStatus)', pc' \in Steps \cup {"idle"},
             rows' \in [Clusters -> [Names -> Maybe(Rows)]],
             read' = IF pc' = "idle" THEN NoObj ELSE read, UNCHANGED secrets
      PROVE  TypeOK'
  BY <1>2, SharedTypesOK, PlainTypes DEF TypeOK
<1>3. CASE options
  BY <1>3, optionsTypes
<1>4. CASE Plain(replace)
  BY <1>2, <1>4, replaceTypes DEF Plain, Steps
<1>5. CASE Plain(\/ ensureFinalizer
                 \/ finalize(TRUE) \/ dropServerSecret \/ removeFinalizer
                 \/ openSession(IF seen.deleting THEN "dropExists" ELSE "replace")
                 \/ GetFails({"finalize", "connect"}) \/ readFails
                 \/ PatchStatus
                 \/ \E k \in Keys : Begin(k, "secret"))
  BY <1>2, <1>5, SharedStepTypes DEF Plain
<1>6. CASE Plain((\E k \in Keys : Create(k, NewStatus)) \/ Surroundings)
  BY <1>2, <1>6, OthersTypes DEF Plain, TypeOK
<1>7. CASE WriteSecret(ValuesForms) \/ DeleteSecret \/ DeliverSecret
  <2>1. ValuesForms \in SUBSET Forms
    BY DEF ValuesForms
  <2> QED
    BY <1>7, <2>1, SharedTypesOK, SecretStepTypes DEF TypeOK, server, worker
<1>8. CASE RestartAll
  BY <1>8, SharedTypesOK, RestartAllTypes DEF TypeOK
<1> QED
  BY <1>1, <1>3, <1>4, <1>5, <1>6, <1>7, <1>8 DEF Next, Worker, Reconcile, Plain

\* The type invariant holds for every value of the constants: no order of outages,
\* lost answers, restarts, edits and rotations leaves a reconcile without the object
\* it works on.
THEOREM TypeCorrect == Spec => []TypeOK
<1>1. Init => TypeOK
  <2> SUFFICES ASSUME Init PROVE TypeOK
    OBVIOUS
  <2>1. DependentTypeOK(VersionedStatus) /\ rows \in [Clusters -> [Names -> Maybe(Rows)]]
    BY InitTypes DEF Init
  <2>2. SecretSourceTypeOK
    BY DEF Init, SecretSourceInit, SecretSourceTypeOK, Maybe
  <2> QED
    BY <2>1, <2>2 DEF Init, DependentInit, TypeOK
<1>2. TypeOK /\ [Next]_vars => TypeOK'
  BY NextTypes
<1> QED
  BY <1>1, <1>2, PTL DEF Spec

(***************************************************************************)
(* Rows and their objects, when the name of a SereneDB is used once and no *)
(* edit moves a row.                                                       *)
(***************************************************************************)
\* Every row belongs to an object with a finalizer that has its place, unless the
\* server goes.
RowInv ==
  \A c \in Clusters, n \in Names :
    rows[c][n] # NoObj /\ ~CacheGone(c) =>
      \E k \in Keys : /\ obj[k] # NoObj /\ obj[k].uid = rows[c][n].by /\ obj[k].finalizer
                      /\ obj[k].spec.cluster = c /\ NameOf(k, obj[k].spec) = n

\* A deletion has come to its end: the row is in the clear.
ReleaseInv == pc = "release" => Clear(Home, Name)

\* Replacing a secret writes at most the row in hand, on a server the operator
\* knows, for an object that exists and has a finalizer.
LEMMA replaceKeeps ==
  ASSUME TypeOK, SharedInv, replace
  PROVE  /\ SharedInv' /\ CopiesKept /\ DbsKept /\ pc' = "status"
         /\ UNCHANGED <<api, dbs, clusters, uids, key, seen>>
         /\ key \in Keys /\ obj[key] \in Objects(VersionedStatus)
         /\ obj[key] # NoObj /\ obj[key].finalizer /\ Evolves(seen, obj[key])
         /\ Home \in Clusters /\ Name \in Names
         /\ \/ UNCHANGED rows
            \/ \A c \in Clusters, n \in Names :
                 IF c = Home /\ n = Name THEN rows'[c][n].by = seen.uid
                 ELSE rows'[c][n] = rows[c][n]
<1> DEFINE S == VersionedStatus
<1>1. /\ StatusSet(S) /\ DependentTypeOK(S) /\ rows \in [Clusters -> [Names -> Maybe(Rows)]]
      /\ pc = "replace"
  BY SharedTypesOK DEF replace
<1>2. ~seen.deleting /\ seen.finalizer
  BY <1>1 DEF SharedInv, PathInv, LiveSteps
<1>3. UNCHANGED <<api, dbs, uids, clusters>>
  BY DEF replace, Exec
<1>4. pc' = "status" /\ UNCHANGED <<key, seen>>
  BY <1>2 DEF replace, Exec, Error, Blocked, Finish, FinishApplied
<1>5. PathInv'
  BY <1>1, <1>2, <1>4, GotoPath DEF SharedInv, DeletingSteps
<1>6. \/ UNCHANGED rows
      \/ \A c \in Clusters, n \in Names :
           rows'[c][n] = IF c = Home /\ n = Name
                         THEN [by |-> seen.uid, options |-> seen.spec.options, version |-> Version]
                         ELSE rows[c][n]
  <2>1. UNCHANGED rows \/ rows' = CreateSecret
    BY DEF replace, Exec
  <2> QED
    BY <1>1, <2>1, WithEffect DEF CreateSecret
<1>7. Known(Home) /\ key \in Keys /\ seen # NoObj /\ Home \in Clusters /\ Name \in Names
  BY <1>1, Halves, SeenTypes DEF SharedInv, KnownInv, SessionSteps, StatusSet
<1>8. \A c \in Clusters, n \in Names : rows'[c][n] # NoObj => rows[c][n] # NoObj \/ Known(c)
  BY <1>6, <1>7
<1>9. SharedInv' /\ CopiesKept /\ DbsKept
  BY <1>1, <1>3, <1>4, <1>5, <1>8, WorkerKeeps DEF SessionSteps
<1>10. Copy(seen, obj[key], uids)
  BY <1>1 DEF SharedInv, CopiesInv
<1>11. obj[key] # NoObj /\ obj[key].finalizer /\ Evolves(seen, obj[key])
  BY <1>2, <1>7, <1>10 DEF Copy, Evolves
<1>12. obj[key] \in Objects(S)
  BY <1>1, <1>7, <1>11 DEF DependentTypeOK, Maybe
<1>13. \/ UNCHANGED rows
       \/ \A c \in Clusters, n \in Names :
            IF c = Home /\ n = Name THEN rows'[c][n].by = seen.uid
            ELSE rows'[c][n] = rows[c][n]
  <2> DEFINE r == [by |-> seen.uid, options |-> seen.spec.options, version |-> Version]
  <2>1. r.by = seen.uid
    OBVIOUS
  <2>2. \/ UNCHANGED rows
        \/ \A c \in Clusters, n \in Names :
             rows'[c][n] = IF c = Home /\ n = Name THEN r ELSE rows[c][n]
    BY <1>6
  <2> HIDE DEF r
  <2> QED
    BY <2>1, <2>2
<1> QED
  BY <1>3, <1>4, <1>7, <1>9, <1>11, <1>12, <1>13

\* What a step can be, as for a Database.
LEMMA StepKinds ==
  ASSUME TypeOK, SharedInv, MaxClusters <= 1, [Next]_vars
  PROVE  /\ SharedInv' /\ DbsKept
         /\ \/ Harmless
            \/ replace
            \/ /\ removeFinalizer /\ HarmlessBut({key}) /\ UNCHANGED rows
               /\ obj[key] = seen /\ obj'[key] = NoObj /\ pc' = "idle"
         /\ \/ UNCHANGED <<pc, key, seen>> /\ Harmless
            \/ pc' # "release"
            \/ finalize(TRUE) \/ dropExists \/ drop
<1> DEFINE S == VersionedStatus
<1>1. /\ StatusSet(S) /\ DependentTypeOK(S) /\ NewStatus \in S
      /\ rows \in [Clusters -> [Names -> Maybe(Rows)]]
  BY SharedTypesOK
<1> HIDE DEF S
<1>2. CASE (\E k \in Keys : Create(k, NewStatus)) \/ Surroundings
  BY <1>1, <1>2, SurroundingsHarmless DEF Harmless, HarmlessBut
<1>3. CASE \E k \in Keys : Begin(k, "secret")
  <2>1. PICK k \in Keys : Begin(k, "secret")
    BY <1>3
  <2>2. Harmless
    BY <1>1, <2>1, BeginHarmless
  <2>3. pc' # "release"
    BY <1>1, <2>1, BeginTypes
  <2> QED
    BY <2>2, <2>3 DEF Harmless, HarmlessBut
<1>4. CASE RestartAll
  BY <1>1, <1>4, RestartHarmless, RestartTypes DEF RestartAll, Harmless, HarmlessBut
<1>5. CASE WriteSecret(ValuesForms) \/ DeleteSecret \/ DeliverSecret \/ UNCHANGED vars
  <2>1. UNCHANGED <<api, dbs, server, worker, budget>>
    BY <1>5 DEF WriteSecret, DeleteSecret, DeliverSecret, vars, base
  <2> QED
    BY <1>1, <2>1, StutterHarmless DEF Harmless, HarmlessBut
<1>6. CASE removeFinalizer
  BY <1>1, <1>6, removeFinalizerHarmless, removeFinalizerTypes DEF Harmless, HarmlessBut
<1>7. CASE options
  <2>1. Harmless
    BY <1>7, SharedTypesOK, readSecretHarmless DEF options
  <2> QED
    BY <1>7, <2>1, optionsTypes DEF Harmless, HarmlessBut
<1>8. CASE replace
  BY <1>8, replaceKeeps
<1>9. ASSUME NEW steps, steps \cap {"idle", "guard"} = {}, GetFails(steps)
      PROVE  Harmless /\ pc' # "release"
  BY <1>1, <1>9, GetFailsHarmless, GetFailsTypes
<1>10. CASE GetFails({"finalize", "connect"}) \/ readFails
  BY <1>9, <1>10 DEF readFails, Harmless, HarmlessBut
<1>11. CASE \/ ensureFinalizer \/ finalize(TRUE) \/ dropExists \/ drop
            \/ openSession(IF seen.deleting THEN "dropExists" ELSE "replace")
            \/ PatchStatus
  <2>1. "replace" \in LiveSteps
    BY DEF LiveSteps
  <2>2. Harmless
    BY <1>1, <1>11, <2>1, SharedHarmless
  <2>3. ASSUME NEW step \in {"dropExists", "replace"}, openSession(step)
        PROVE  pc' # "release"
    BY <1>1, <2>3, openSessionTypes
  <2>4. \/ pc' # "release"
        \/ finalize(TRUE) \/ dropExists \/ drop
    BY <1>1, <1>11, <2>3, ensureFinalizerTypes, PatchStatusTypes
  <2> QED
    BY <2>2, <2>4 DEF Harmless, HarmlessBut
<1> QED
  BY <1>2, <1>3, <1>4, <1>5, <1>6, <1>7, <1>8, <1>10, <1>11
     DEF Next, Worker, Reconcile, Plain, dropServerSecret

\* Every step keeps the end of a deletion in the clear.
LEMMA NextRelease ==
  ASSUME TypeOK, SharedInv, ReleaseInv, MaxClusters <= 1, [Next]_vars
  PROVE  ReleaseInv'
<1>1. CASE pc' # "release"
  BY <1>1 DEF ReleaseInv
<1>2. CASE UNCHANGED <<pc, key, seen>> /\ Harmless /\ pc' = "release"
  <2>1. Clear(Home, Name) => Clear(Home, Name)'
    BY <1>2, SharedTypesOK, RowClearKept DEF Harmless, HarmlessBut
  <2> QED
    BY <1>2, <2>1 DEF ReleaseInv
<1>3. CASE (finalize(TRUE) \/ dropExists \/ drop) /\ pc' = "release"
  <2>1. Clear(Home, Name)'
    BY <1>3, SharedTypesOK, ReleaseClear
  <2> QED
    BY <2>1 DEF ReleaseInv
<1> QED
  BY <1>1, <1>2, <1>3, StepKinds

\* A row whose object stays in place stays an object's.
LEMMA OwnerKept ==
  ASSUME TypeOK, SharedInv, EditsKeepHome, NEW gone, CopiesKeptBut(gone), NEW k \in Keys \ gone,
         obj[k] # NoObj, obj[k].finalizer
  PROVE  /\ obj'[k] # NoObj /\ obj'[k].uid = obj[k].uid /\ obj'[k].finalizer
         /\ obj'[k].spec.cluster = obj[k].spec.cluster
         /\ NameOf(k, obj'[k].spec) = NameOf(k, obj[k].spec)
BY DEF CopiesKeptBut, Evolves, NameOf

\* Every step leaves every row with its object.
LEMMA NextRows ==
  ASSUME MaxClusters <= 1, EditsKeepHome, TypeOK, SharedInv, ReleaseInv, RowInv, [Next]_vars
  PROVE  RowInv'
<1> SUFFICES ASSUME NEW c \in Clusters, NEW n \in Names, rows'[c][n] # NoObj, ~CacheGone(c)'
             PROVE  \E k \in Keys :
                      /\ obj'[k] # NoObj /\ obj'[k].uid = rows'[c][n].by /\ obj'[k].finalizer
                      /\ obj'[k].spec.cluster = c /\ NameOf(k, obj'[k].spec) = n
  BY DEF RowInv, NameOf
<1>1. DbsKept /\ ~CacheGone(c)
  BY StepKinds DEF DbsKept
<1>2. ASSUME rows'[c][n] = rows[c][n]
      PROVE  \E k \in Keys :
               /\ obj[k] # NoObj /\ obj[k].uid = rows'[c][n].by /\ obj[k].finalizer
               /\ obj[k].spec.cluster = c /\ NameOf(k, obj[k].spec) = n
  BY <1>1, <1>2 DEF RowInv
<1>3. CASE Harmless
  <2>1. rows'[c][n] = rows[c][n]
    BY <1>3 DEF Harmless, HarmlessBut, RowsLost
  <2>2. PICK k \in Keys :
          /\ obj[k] # NoObj /\ obj[k].uid = rows'[c][n].by /\ obj[k].finalizer
          /\ obj[k].spec.cluster = c /\ NameOf(k, obj[k].spec) = n
    BY <1>2, <2>1
  <2> QED
    BY <1>3, <2>2, OwnerKept DEF Harmless, HarmlessBut
<1>4. CASE removeFinalizer /\ HarmlessBut({key}) /\ UNCHANGED rows /\ obj[key] = seen
  <2>1. PICK k \in Keys :
          /\ obj[k] # NoObj /\ obj[k].uid = rows'[c][n].by /\ obj[k].finalizer
          /\ obj[k].spec.cluster = c /\ NameOf(k, obj[k].spec) = n
    BY <1>2, <1>4
  <2>2. k # key
    <3>1. Clear(Home, Name)
      BY <1>4 DEF removeFinalizer, ReleaseInv
    <3>2. k = key => Home = c /\ Name = n
      BY <1>4, <2>1 DEF Home, Name
    <3> QED
      BY <1>1, <1>4, <3>1, <3>2 DEF Clear
  <2> QED
    BY <1>4, <2>1, <2>2, OwnerKept DEF HarmlessBut
<1>5. CASE replace
  <2>1. /\ key \in Keys /\ obj[key] # NoObj /\ obj[key].finalizer /\ Evolves(seen, obj[key])
        /\ UNCHANGED api
    BY <1>5, replaceKeeps
  <2>2. CASE rows'[c][n] = rows[c][n]
    BY <1>2, <2>1, <2>2 DEF api
  <2>3. CASE c = Home /\ n = Name /\ rows'[c][n].by = seen.uid
    <3>1. /\ obj[key].uid = rows'[c][n].by
          /\ obj[key].spec.cluster = c /\ NameOf(key, obj[key].spec) = n
      BY <2>1, <2>3 DEF Evolves, Home, Name, NameOf
    <3> QED
      BY <2>1, <3>1 DEF api
  <2> QED
    BY <1>5, <2>2, <2>3, replaceKeeps
<1> QED
  BY <1>3, <1>4, <1>5, StepKinds

\* The invariants hold together.
SecretInv == TypeOK /\ SharedInv /\ ReleaseInv /\ RowInv

\* They do in every reachable state.
LEMMA Invariants ==
  ASSUME MaxClusters <= 1, EditsKeepHome
  PROVE  Spec => []SecretInv
<1>1. Init => SecretInv
  <2> SUFFICES ASSUME Init PROVE SecretInv
    OBVIOUS
  <2>1. DependentTypeOK(VersionedStatus) /\ rows \in [Clusters -> [Names -> Maybe(Rows)]]
    BY InitTypes DEF Init
  <2>2. SecretSourceTypeOK
    BY DEF Init, SecretSourceInit, SecretSourceTypeOK, Maybe
  <2>3. TypeOK /\ ReleaseInv /\ RowInv
    BY <2>1, <2>2 DEF Init, DependentInit, TypeOK, ReleaseInv, RowInv
  <2> QED
    BY <2>3, InitCopies, InitKnown DEF Init, SharedInv, SecretInv
<1>2. SecretInv /\ [Next]_vars => SecretInv'
  BY NextTypes, StepKinds, NextRelease, NextRows DEF SecretInv
<1> QED
  BY <1>1, <1>2, PTL DEF Spec

\* A row that counts is not on a server that goes.
LEMMA CountedNotGone ==
  ASSUME DbOK, NEW c \in Clusters, db[c] # NoObj, ~db[c].deleting
  PROVE  ~CacheGone(c)
BY DEF DbOK, CacheGone, Known

\* No credential stays on the server of a live SereneDB without the object that
\* asked for it, for all objects, servers, specs, failures and lagging informers, if
\* no SereneDB takes the name of an earlier one and edits keep the SereneDB and the
\* server-side name of an object.
THEOREM NoOrphanHolds ==
  ASSUME MaxClusters <= 1, EditsKeepHome
  PROVE  Spec => []NoOrphan
<1>1. SecretInv => NoOrphan
  BY CountedNotGone DEF SecretInv, SharedInv, KnownInv, RowInv, NoOrphan
<1> QED
  BY <1>1, Invariants, PTL

(***************************************************************************)
(* The promise of a finalizer, step by step.                               *)
(***************************************************************************)
\* The objects that exist, by uid, as Guarded sees them.
thereNow == {obj[k].uid : k \in {k \in Keys : obj[k] # NoObj}}

\* No more objects are created than the bound says.
LEMMA NextBound ==
  ASSUME TypeOK, SharedInv, uids <= MaxUid, [Next]_vars
  PROVE  uids' <= MaxUid
<1>1. uids \in Nat /\ MaxUid \in Nat
  BY DependentAssumption DEF TypeOK, DependentTypeOK
<1>2. CASE UNCHANGED uids
  BY <1>2
<1>3. ASSUME NEW k \in Keys, Create(k, NewStatus)
      PROVE  uids' <= MaxUid
  BY <1>1, <1>3 DEF Create
<1> QED
  BY <1>2, <1>3
     DEF Next, Worker, Reconcile, Plain, options, readSecret, Surroundings, Deliver, Edit, Delete,
         DeliverDb, CreateDb, Serve, Outage, DeleteDb, RemoveDb, HandDrop, WriteSecret,
         DeleteSecret, DeliverSecret, RestartAll, Restart, Begin, ensureFinalizer, finalize,
         dropServerSecret, dropExists, drop, removeFinalizer, openSession, GetFails, readFails,
         replace, PatchStatus, Update, Query, Exec, Refused, vars, base, budget

\* The same objects exist.
UidsKept ==
  \A k \in Keys : /\ obj'[k] = NoObj <=> obj[k] = NoObj
                  /\ obj[k] # NoObj => obj'[k].uid = obj[k].uid

\* The object of key k is removed, and nothing else happens.
Removed(k) == obj[k] # NoObj /\ obj' = [obj EXCEPT ![k] = NoObj] /\ UNCHANGED <<db, rows>>

\* No row comes to count.
NoneStored == storedBy' \subseteq storedBy

\* Steps of the worker, but replace, and of the operator.
LEMMA WorkerUids ==
  ASSUME TypeOK, SharedInv,
         \/ ensureFinalizer \/ PatchStatus \/ removeFinalizer
         \/ UNCHANGED obj
  PROVE  UidsKept \/ (removeFinalizer /\ obj[key] = seen /\ Removed(key))
<1> DEFINE S == VersionedStatus
<1>1. StatusSet(S) /\ DependentTypeOK(S) /\ obj \in [Keys -> Maybe(Objects(S))]
  BY SharedTypesOK DEF DependentTypeOK
<1>2. CASE UNCHANGED obj
  BY <1>2 DEF UidsKept
<1>3. ASSUME NEW k \in Keys, NEW o \in Objects(S), Put(k, o), obj[k] # NoObj, o.uid = obj[k].uid
      PROVE  UidsKept
  BY <1>1, <1>3 DEF Put, UidsKept, StatusSet
<1>4. CASE ensureFinalizer
  <2>1. key \in Keys /\ seen \in Objects(S) /\ seen # NoObj
    BY <1>1, <1>4, Halves, SeenTypes DEF ensureFinalizer, StatusSet
  <2> DEFINE o == [seen EXCEPT !.finalizer = TRUE]
  <2>2. o \in Objects(S) /\ o.uid = seen.uid
    BY <2>1 DEF Objects
  <2>3. (obj[key] = seen /\ Put(key, o)) \/ UNCHANGED obj
    BY <1>4 DEF ensureFinalizer, Update, api
  <2> HIDE DEF o
  <2> QED
    BY <1>2, <1>3, <2>1, <2>2, <2>3
<1>5. CASE PatchStatus
  <2>1. key \in Keys /\ WorkerOK(S) /\ pc # "idle"
    BY <1>1, <1>5, Halves, SeenTypes DEF PatchStatus
  <2>2. (obj[key] # NoObj /\ Put(key, Patched(obj[key]))) \/ UNCHANGED obj
    BY <1>5 DEF PatchStatus, api
  <2>3. obj[key] # NoObj => obj[key] \in Objects(S)
    BY <1>1, <2>1 DEF Maybe
  <2>4. obj[key] # NoObj => Patched(obj[key]) \in Objects(S) /\ Patched(obj[key]).uid = obj[key].uid
    BY <1>1, <2>1, <2>3, PatchedTypes, PatchedEvolves
  <2> QED
    BY <1>2, <1>3, <2>1, <2>2, <2>4
<1>6. CASE removeFinalizer
  <2>1. key \in Keys /\ seen # NoObj
    BY <1>1, <1>6, Halves, SeenTypes DEF removeFinalizer, StatusSet
  <2>2. \/ UNCHANGED obj
        \/ obj[key] = seen /\ Put(key, NoObj) /\ UNCHANGED <<db, rows>>
    BY <1>6 DEF removeFinalizer, Update, api, dbs, server
  <2> QED
    BY <1>2, <1>6, <2>1, <2>2 DEF Put, Removed
<1> QED
  BY <1>2, <1>4, <1>5, <1>6

\* Steps of users.
LEMMA UserUids ==
  ASSUME TypeOK, NEW k \in Keys, Edit(k) \/ Delete(k)
  PROVE  UidsKept \/ (Removed(k) /\ ~obj[k].finalizer)
<1> DEFINE S == VersionedStatus
<1>1. StatusSet(S) /\ obj \in [Keys -> Maybe(Objects(S))]
  BY SharedTypesOK DEF DependentTypeOK
<1>2. obj[k] # NoObj /\ obj[k] \in Objects(S) /\ UNCHANGED <<db, rows>>
  BY <1>1 DEF Edit, Delete, Maybe, dbs, server
<1>3. ASSUME NEW o \in Objects(S), Put(k, o), o.uid = obj[k].uid
      PROVE  UidsKept
  BY <1>1, <1>2, <1>3 DEF Put, UidsKept, StatusSet
<1>4. CASE Edit(k)
  <2>1. PICK s \in Specs : Put(k, [obj[k] EXCEPT !.spec = s, !.gen = @ + 1])
    BY <1>4 DEF Edit
  <2>2. /\ [obj[k] EXCEPT !.spec = s, !.gen = @ + 1] \in Objects(S)
        /\ [obj[k] EXCEPT !.spec = s, !.gen = @ + 1].uid = obj[k].uid
    <3>1. [obj[k] EXCEPT !.spec = s, !.gen = @ + 1] \in Objects(S)
      BY <1>2, ObjectFields
    <3>2. [obj[k] EXCEPT !.spec = s, !.gen = @ + 1].uid = obj[k].uid
      BY <1>2 DEF Objects
    <3> QED
      BY <3>1, <3>2
  <2> QED
    BY <1>3, <2>1, <2>2
<1>5. CASE Delete(k) /\ obj[k].finalizer
  <2>1. Put(k, [obj[k] EXCEPT !.deleting = TRUE, !.gen = @ + 1])
    BY <1>5 DEF Delete
  <2>2. [obj[k] EXCEPT !.deleting = TRUE, !.gen = @ + 1] \in Objects(S)
    BY <1>2, ObjectFields, ObjectTypes
  <2>3. [obj[k] EXCEPT !.deleting = TRUE, !.gen = @ + 1].uid = obj[k].uid
    BY <1>2 DEF Objects
  <2> QED
    BY <1>3, <2>1, <2>2, <2>3
<1>6. CASE Delete(k) /\ ~obj[k].finalizer
  <2>1. Put(k, NoObj)
    BY <1>6 DEF Delete
  <2> QED
    BY <1>2, <1>6, <2>1 DEF Put, Removed
<1> QED
  BY <1>4, <1>5, <1>6

\* A server comes to count only when it is new and empty.
LEMMA DbsCount ==
  ASSUME TypeOK, SharedInv, MaxClusters <= 1, NEW c \in Clusters,
         DeliverDb(c) \/ CreateDb(c) \/ Serve(c) \/ Outage(c) \/ DeleteDb(c) \/ RemoveDb(c)
  PROVE  \A d \in Clusters : db'[d] # NoObj /\ ~db'[d].deleting =>
            \/ db[d] # NoObj /\ ~db[d].deleting
            \/ \A n \in Names : rows'[d][n] = NoObj
<1> SUFFICES ASSUME NEW d \in Clusters, db'[d] # NoObj, ~db'[d].deleting
             PROVE  \/ db[d] # NoObj /\ ~db[d].deleting
                    \/ \A n \in Names : rows'[d][n] = NoObj
  OBVIOUS
<1>1. /\ db \in [Clusters -> Maybe(DbObj)] /\ clusters[c] \in Nat /\ MaxClusters \in Nat
      /\ clusters \in [Clusters -> Nat]
  BY DependentAssumption DEF TypeOK, DependentTypeOK
<1>2. CASE d # c
  BY <1>1, <1>2 DEF DeliverDb, CreateDb, Serve, Outage, DeleteDb, RemoveDb, PutDb
<1>3. CASE d = c /\ DeliverDb(c)
  BY <1>3 DEF DeliverDb
<1>4. CASE d = c /\ CreateDb(c)
  <2>1. clusters[c] = 0 /\ UNCHANGED rows
    BY <1>1, <1>4 DEF CreateDb, server
  <2>2. ~Known(c)
    BY <2>1 DEF SharedInv, KnownInv, DbOK, Known
  <2> QED
    BY <1>4, <2>1, <2>2 DEF SharedInv, KnownInv
<1>5. CASE d = c /\ (Serve(c) \/ Outage(c) \/ DeleteDb(c))
  <2>1. db[c] # NoObj /\ db[c] \in DbObj
    BY <1>1, <1>5 DEF Serve, Outage, DeleteDb, Maybe
  <2>2. CASE Serve(c) \/ DeleteDb(c)
    BY <1>5, <2>2, <2>1 DEF Serve, DeleteDb
  <2>3. CASE Outage(c)
    <3>1. PICK ready \in BOOLEAN : PutDb(c, [db[c] EXCEPT !.ready = ready])
      BY <2>3 DEF Outage
    <3>2. db'[c] = [db[c] EXCEPT !.ready = ready]
      BY <1>1, <3>1 DEF PutDb
    <3>3. db'[c].deleting = db[c].deleting
      BY <2>1, <3>2 DEF DbObj
    <3> QED
      BY <1>5, <2>1, <3>3
  <2> QED
    BY <1>5, <2>2, <2>3
<1>6. CASE d = c /\ RemoveDb(c)
  BY <1>1, <1>6 DEF RemoveDb, PutDb
<1> QED
  BY <1>2, <1>3, <1>4, <1>5, <1>6

\* No row comes to count in a step that writes none, unless a server does.
LEMMA LostRows ==
  ASSUME RowsLost,
         \A d \in Clusters : db'[d] # NoObj /\ ~db'[d].deleting =>
            \/ db[d] # NoObj /\ ~db[d].deleting
            \/ \A n \in Names : rows'[d][n] = NoObj
  PROVE  NoneStored
BY DEF NoneStored, storedBy, RowsLost

\* What a step is to the objects and their rows.
LEMMA PromiseSteps ==
  ASSUME SecretInv, MaxClusters <= 1, Next
  PROVE  \/ UidsKept /\ NoneStored
         \/ \E k \in Keys : Create(k, NewStatus)
         \/ \E k \in Keys : Removed(k) /\ ~obj[k].finalizer
         \/ removeFinalizer /\ obj[key] = seen /\ Removed(key)
         \/ replace
<1> USE DEF SecretInv
<1>1. CASE Plain(\E k \in Keys : Create(k, NewStatus)) \/ Plain(replace)
  BY <1>1 DEF Plain
<1>2. ASSUME UNCHANGED <<db, obj>>, RowsLost
      PROVE  UidsKept /\ NoneStored
  BY <1>2, LostRows DEF UidsKept
<1>3. CASE \E k \in Keys : Edit(k) \/ Delete(k)
  <2>1. PICK k \in Keys : Edit(k) \/ Delete(k)
    BY <1>3
  <2>2. UNCHANGED <<db, rows>>
    BY <2>1 DEF Edit, Delete, dbs, server
  <2>3. NoneStored
    BY <2>2 DEF NoneStored, storedBy
  <2> QED
    BY <2>1, <2>3, UserUids
<1>4. CASE \E c \in Clusters :
             DeliverDb(c) \/ CreateDb(c) \/ Serve(c) \/ Outage(c) \/ DeleteDb(c) \/ RemoveDb(c)
  <2>1. PICK c \in Clusters :
          DeliverDb(c) \/ CreateDb(c) \/ Serve(c) \/ Outage(c) \/ DeleteDb(c) \/ RemoveDb(c)
    BY <1>4
  <2>2. UNCHANGED obj
    BY <2>1 DEF DeliverDb, CreateDb, Serve, Outage, DeleteDb, RemoveDb, api
  <2>3. Surroundings
    BY <2>1 DEF Surroundings
  <2>4. RowsLost
    BY <2>3, SharedTypesOK, SurroundingsHarmless DEF Harmless, HarmlessBut
  <2>5. NoneStored
    BY <2>1, <2>4, DbsCount, LostRows
  <2> QED
    BY <2>2, <2>5, WorkerUids
<1>5. CASE (\E k \in Keys : Deliver(k)) \/ (\E c \in Clusters, n \in Names : HandDrop(c, n))
  <2>1. UNCHANGED <<db, obj>>
    BY <1>5 DEF Deliver, HandDrop, dbs, api
  <2>2. Surroundings
    BY <1>5 DEF Surroundings
  <2>3. RowsLost
    BY <2>2, SharedTypesOK, SurroundingsHarmless DEF Harmless, HarmlessBut
  <2> QED
    BY <1>2, <2>1, <2>3
<1>6. CASE \/ options \/ WriteSecret(ValuesForms) \/ DeleteSecret \/ DeliverSecret \/ RestartAll
           \/ \E k \in Keys : Begin(k, "secret")
  <2>1. UNCHANGED <<db, obj, rows>>
    BY <1>6 DEF options, readSecret, WriteSecret, DeleteSecret, DeliverSecret, RestartAll, Restart,
                Begin, dbs, api, server
  <2> QED
    BY <1>2, <2>1 DEF RowsLost
<1>7. CASE ensureFinalizer \/ PatchStatus \/ removeFinalizer
  <2>1. UNCHANGED <<db, rows>>
    BY <1>7 DEF ensureFinalizer, PatchStatus, removeFinalizer, Update, dbs, server
  <2>2. NoneStored
    BY <2>1 DEF NoneStored, storedBy
  <2> QED
    BY <1>7, <2>2, WorkerUids
<1>8. CASE \/ finalize(TRUE) \/ dropExists \/ drop
           \/ openSession(IF seen.deleting THEN "dropExists" ELSE "replace")
  <2>1. UNCHANGED <<db, obj>>
    BY <1>8 DEF finalize, dropExists, drop, Query, Exec, Refused, openSession, dbs, api
  <2>2. RowsLost
    <3>1. "replace" \in LiveSteps
      BY DEF LiveSteps
    <3> QED
      BY <1>8, <3>1, SharedTypesOK, SharedHarmless DEF Harmless, HarmlessBut
  <2> QED
    BY <1>2, <2>1, <2>2
<1>9. CASE GetFails({"finalize", "connect"}) \/ readFails
  <2>1. UNCHANGED <<db, obj, rows>>
    BY <1>9 DEF GetFails, readFails, dbs, api, server
  <2> QED
    BY <1>2, <2>1 DEF RowsLost
<1> QED
  BY <1>1, <1>3, <1>4, <1>5, <1>6, <1>7, <1>8, <1>9
     DEF Next, Worker, Reconcile, Plain, Surroundings, dropServerSecret

\* Every step of the reconciler and its surroundings is one of the promise.
LEMMA PromiseKept ==
  ASSUME SecretInv, uids <= MaxUid, MaxClusters <= 1, EditsKeepHome, Next
  PROVE  \/ Promise!Lose
         \/ \E u \in 1..MaxUid : Promise!Create(u) \/ Promise!Store(u) \/ Promise!Leave(u)
<1> DEFINE S == VersionedStatus
<1>1. /\ StatusSet(S) /\ DependentTypeOK(S) /\ obj \in [Keys -> Maybe(Objects(S))]
      /\ TypeOK /\ SharedInv /\ uids \in Nat /\ MaxUid \in Nat
  BY SharedTypesOK, DependentAssumption DEF SecretInv, DependentTypeOK
<1>2. ASSUME NEW k \in Keys, obj[k] # NoObj
      PROVE  obj[k].uid \in 1..MaxUid /\ obj[k].uid \in Nat /\ obj[k].uid <= uids
  <2>1. obj[k] \in Objects(S)
    BY <1>1, <1>2 DEF Maybe
  <2>2. obj[k].uid \in Nat \ {0}
    BY <2>1 DEF Objects
  <2>3. obj[k].uid <= uids
    BY <1>1, <1>2 DEF SharedInv, CopiesInv, Copy
  <2> QED
    BY <1>1, <2>2, <2>3
<1>3. CASE UidsKept /\ NoneStored
  <2>1. thereNow' = thereNow
    BY <1>3 DEF UidsKept, thereNow
  <2> QED
    BY <1>3, <2>1 DEF Promise!Lose, NoneStored, thereNow
<1>4. ASSUME NEW k \in Keys, Create(k, NewStatus)
      PROVE  \E u \in 1..MaxUid : Promise!Create(u)
  <2>0. PICK u : u = uids + 1
    OBVIOUS
  <2>1. obj[k] = NoObj /\ uids < MaxUid /\ UNCHANGED <<db, rows>>
    BY <1>4 DEF Create, dbs, server
  <2>2. PICK s \in Specs : obj' = [obj EXCEPT ![k] = [uid |-> uids + 1, gen |-> 1, spec |-> s,
                                     finalizer |-> FALSE, deleting |-> FALSE, status |-> NewStatus]]
    BY <1>4 DEF Create, Put
  <2> DEFINE o == [uid |-> uids + 1, gen |-> 1, spec |-> s,
                   finalizer |-> FALSE, deleting |-> FALSE, status |-> NewStatus]
  <2>3. o \in Objects(S) /\ o.uid = u
    BY <1>1, <2>0, VersionedStatusSet DEF Objects
  <2>4. o # NoObj /\ obj' = [obj EXCEPT ![k] = o]
    BY <1>1, <2>2, <2>3 DEF StatusSet
  <2>5. u \in 1..MaxUid /\ u \notin thereNow
    BY <1>1, <1>2, <2>0, <2>1 DEF thereNow
  <2> HIDE DEF o
  <2>6. thereNow' = thereNow \cup {u}
    BY <1>1, <2>1, <2>3, <2>4 DEF thereNow
  <2>7. storedBy' = storedBy
    BY <2>1 DEF storedBy
  <2>8. Promise!Create(u)
    BY <2>5, <2>6, <2>7 DEF Promise!Create, thereNow
  <2> QED
    BY <2>5, <2>8
<1>5. ASSUME NEW k \in Keys, Removed(k),
             ~obj[k].finalizer \/ (removeFinalizer /\ obj[key] = seen /\ k = key)
      PROVE  \E u \in 1..MaxUid : Promise!Leave(u)
  <2>0. PICK u : u = obj[k].uid
    OBVIOUS
  <2>1. obj[k] # NoObj /\ obj' = [obj EXCEPT ![k] = NoObj] /\ UNCHANGED <<db, rows>>
    BY <1>5 DEF Removed
  <2>2. u \in 1..MaxUid /\ u \in thereNow
    BY <1>2, <2>0, <2>1 DEF thereNow
  <2>3. thereNow' = thereNow \ {u}
    <3>1. \A j \in Keys \ {k} : obj[j] # NoObj => obj[j].uid # u
      BY <1>1, <2>0, <2>1 DEF SharedInv, CopiesInv
    <3>2. \A j \in Keys : obj'[j] = IF j = k THEN NoObj ELSE obj[j]
      BY <1>1, <2>1
    <3> QED
      BY <2>0, <3>1, <3>2 DEF thereNow
  <2>4. storedBy' = storedBy
    BY <2>1 DEF storedBy
  <2>5. u \notin storedBy
    <3>1. SUFFICES ASSUME NEW c \in Clusters, NEW n \in Names, rows[c][n] # NoObj, db[c] # NoObj,
                          ~db[c].deleting, rows[c][n].by = u
                   PROVE  FALSE
      BY DEF storedBy
    <3>2. ~CacheGone(c)
      BY <1>1, <3>1, CountedNotGone DEF SharedInv, KnownInv
    <3>3. PICK j \in Keys : /\ obj[j] # NoObj /\ obj[j].uid = u /\ obj[j].finalizer
                            /\ obj[j].spec.cluster = c /\ NameOf(j, obj[j].spec) = n
      BY <3>1, <3>2 DEF SecretInv, RowInv
    <3>4. j = k
      BY <1>1, <2>0, <2>1, <3>3 DEF SharedInv, CopiesInv
    <3>5. removeFinalizer /\ obj[key] = seen /\ k = key
      BY <1>5, <3>3, <3>4
    <3>6. Clear(Home, Name) /\ Home = c /\ Name = n
      BY <3>3, <3>4, <3>5 DEF SecretInv, ReleaseInv, removeFinalizer, Home, Name
    <3> QED
      BY <3>1, <3>2, <3>6 DEF Clear
  <2>6. Promise!Leave(u)
    BY <2>2, <2>3, <2>4, <2>5 DEF Promise!Leave, thereNow
  <2> QED
    BY <2>2, <2>6
<1>6. CASE replace
  <2>0. PICK u : u = seen.uid
    OBVIOUS
  <2>1. /\ UNCHANGED <<api, dbs>> /\ key \in Keys /\ obj[key] # NoObj /\ obj[key].uid = u
        /\ Home \in Clusters /\ Name \in Names
        /\ \/ UNCHANGED rows
           \/ \A c \in Clusters, n \in Names :
                IF c = Home /\ n = Name THEN rows'[c][n].by = u ELSE rows'[c][n] = rows[c][n]
    BY <1>1, <1>6, <2>0, replaceKeeps DEF Evolves
  <2>2. UNCHANGED <<obj, db>> /\ thereNow' = thereNow
    BY <2>1 DEF api, dbs, thereNow
  <2>3. u \in 1..MaxUid /\ u \in thereNow
    BY <1>2, <2>1 DEF thereNow
  <2>4. storedBy' \subseteq storedBy \cup {u}
    BY <2>1, <2>2 DEF storedBy
  <2>5. CASE u \in storedBy'
    <3> DEFINE kept == storedBy' \ {u}
    <3>1. kept \in SUBSET storedBy /\ storedBy' = kept \cup {u}
      BY <2>4, <2>5
    <3> HIDE DEF kept
    <3>2. Promise!Store(u)
      BY <2>2, <2>3, <3>1 DEF Promise!Store, thereNow
    <3> QED
      BY <2>3, <3>2
  <2>6. CASE u \notin storedBy'
    <3>1. storedBy' \subseteq storedBy
      BY <2>4, <2>6
    <3> QED
      BY <2>2, <3>1 DEF Promise!Lose, thereNow
  <2> QED
    BY <2>5, <2>6
<1> QED
  <2>1. removeFinalizer => key \in Keys
    BY <1>1, Halves, SeenTypes DEF removeFinalizer
  <2> QED
    BY <1>3, <1>4, <1>5, <1>6, <2>1, PromiseSteps

\* The reconciler implements the promise of a finalizer (Guarded): step by step, a
\* row is written only for an object that exists, and the object goes after its row,
\* under the hypotheses of NoOrphanHolds.
THEOREM PromiseImplemented ==
  ASSUME MaxClusters <= 1, EditsKeepHome
  PROVE  Spec => GuardsRows
<1>1. Init => Promise!Init
  <2> SUFFICES ASSUME Init PROVE Promise!Init
    OBVIOUS
  <2>1. (\A k \in Keys : obj[k] = NoObj) /\ (\A c \in Clusters : db[c] = NoObj)
    BY DEF Init, DependentInit
  <2>2. thereNow = {} /\ storedBy = {}
    BY <2>1 DEF thereNow, storedBy
  <2> QED
    BY <2>2 DEF Promise!Init, thereNow
<1> DEFINE Counted == uids <= MaxUid
<1>2. Init => Counted
  BY DependentAssumption DEF Init, DependentInit
<1>3. SecretInv /\ Counted /\ [Next]_vars => Counted'
  BY NextBound DEF SecretInv
<1>4. SecretInv /\ Counted /\ [Next]_vars => [Promise!Next]_<<thereNow, storedBy>>
  <2> SUFFICES ASSUME SecretInv, uids <= MaxUid, [Next]_vars
               PROVE  [Promise!Next]_<<thereNow, storedBy>>
    OBVIOUS
  <2>1. CASE UNCHANGED vars
    BY <2>1 DEF vars, base, api, dbs, server, thereNow, storedBy
  <2>2. CASE Next
    BY <2>2, PromiseKept DEF Promise!Next
  <2> QED
    BY <2>1, <2>2
<1>5. Spec => []SecretInv
  BY Invariants
<1>6. SecretInv /\ Counted /\ [Next]_vars
      => [Promise!Next]_<<{obj[k].uid : k \in {k \in Keys : obj[k] # NoObj}}, storedBy>>
  BY <1>4 DEF thereNow
<1> HIDE DEF Counted
<1>7. Spec => [](SecretInv /\ Counted)
  BY <1>2, <1>3, <1>5, PTL DEF Spec
<1> QED
  BY <1>1, <1>6, <1>7, PTL DEF Spec, GuardsRows, Promise!Spec
=============================================================================
