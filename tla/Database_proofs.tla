---------------------------- MODULE Database_proofs ----------------------------
(***************************************************************************)
(* Proofs about Database for every set of keys, SereneDBs, specs and       *)
(* lagging informers, and every bound.                                     *)
(***************************************************************************)
EXTENDS Database, Dependent_proofs

(***************************************************************************)
(* Types.                                                                  *)
(***************************************************************************)
DatabaseRow == [by : Nat \ {0}]

\* A Database's status is one the shared code can work with.
LEMMA DatabaseStatusSet ==
  /\ StatusSet(DatabaseStatus)
  /\ NewStatus \in DatabaseStatus
<1>1. ASSUME NEW s \in DatabaseStatus, NEW c \in Condition
      PROVE  [s EXCEPT !.ready = c] \in DatabaseStatus
  BY DEF DatabaseStatus
<1>2. ASSUME NEW n \in DatabaseStatus, NEW s \in DatabaseStatus, NEW o \in DatabaseStatus
      PROVE  [f \in DOMAIN n |-> IF n[f] # s[f] THEN n[f] ELSE o[f]] \in DatabaseStatus
  BY DEF DatabaseStatus
<1>3. NewStatus \in DatabaseStatus
  BY DEF DatabaseStatus, NewStatus, Condition
<1> QED
  BY <1>1, <1>2, <1>3, NoDatabaseAssumption DEF StatusSet

\* The query of apply.
LEMMA existsTypes ==
  ASSUME TypeOK, exists
  PROVE  TypeOK' /\ UNCHANGED <<rows, api>>
<1> DEFINE S == DatabaseStatus
<1>1. StatusSet(S) /\ WorldOK(S) /\ WorkerOK(S) /\ pc # "idle" /\ seen.deleting \in BOOLEAN
  BY DatabaseStatusSet, Halves, SeenTypes DEF TypeOK, exists
<1> HIDE DEF S
<1>2. WorldOK(S)' /\ UNCHANGED <<rows, api>>
  BY <1>1, FaultTypes, WorldKept DEF exists, Query, Exec, server, budget, WorldOK
<1>3. ASSUME NEW reason \in {"InvalidSpec", "Applied"}, Finish(reason)
      PROVE  WorkerOK(S)' /\ pc' = "status"
  BY <1>1, <1>3, FinishTypes DEF Reasons, Finish
<1>4. CASE Goto("create")
  BY <1>1, <1>2, <1>4, GotoTypes, Joined DEF TypeOK, S, Steps, Goto
<1>5. CASE Error
  BY <1>1, <1>2, <1>5, ErrorTypes, Joined DEF TypeOK, S, Steps
<1> QED
  BY <1>2, <1>3, <1>4, <1>5, Joined DEF exists, Query, Exec, TypeOK, S, Steps

\* CREATE DATABASE.
LEMMA createTypes ==
  ASSUME TypeOK, create
  PROVE  TypeOK' /\ UNCHANGED api
<1> DEFINE S == DatabaseStatus
<1>1. StatusSet(S) /\ WorldOK(S) /\ WorkerOK(S) /\ pc # "idle" /\ seen.deleting \in BOOLEAN
  BY DatabaseStatusSet, Halves, SeenTypes DEF TypeOK, create
<1>2. WorldOK(S)' /\ UNCHANGED api
  BY <1>1, FaultTypes, WorldKept DEF create, Exec
<1>3. WorkerOK(S)' /\ pc' \in {"idle", "status"}
  <2>1. CASE Finish("Applied")
    BY <1>1, <2>1, FinishTypes DEF Finish
  <2>2. CASE Error
    BY <1>1, <2>2, ErrorTypes
  <2> QED
    BY <2>1, <2>2 DEF create, Exec
<1>4. rows' \in [Clusters -> [Names -> Maybe(DatabaseRow)]]
  <2>1. rows \in [Clusters -> [Names -> Maybe(DatabaseRow)]]
    BY DEF TypeOK, DatabaseRow
  <2>2. [by |-> seen.uid] \in Maybe(DatabaseRow)
    BY <1>1, SeenTypes DEF Maybe, DatabaseRow
  <2>3. With([by |-> seen.uid]) \in [Clusters -> [Names -> Maybe(DatabaseRow)]]
    BY <1>1, <2>1, <2>2, WithRows
  <2> QED
    BY <2>1, <2>3 DEF create, Exec, CreateDatabase
<1> QED
  BY <1>2, <1>3, <1>4, Joined DEF TypeOK, Steps, DatabaseRow

\* The shared steps of a reconcile.
LEMMA SharedTypes ==
  ASSUME TypeOK,
         \/ ensureFinalizer
         \/ finalize(seen.spec.reclaimPolicy = "Delete") \/ removeFinalizer
         \/ openSession(IF seen.deleting THEN "dropExists" ELSE "exists")
         \/ GetFails({"finalize", "connect"})
         \/ PatchStatus \/ Restart
         \/ \E k \in Keys : Begin(k, "connect")
  PROVE  TypeOK' /\ UNCHANGED rows
<1> DEFINE S == DatabaseStatus
<1>1. StatusSet(S) /\ DependentTypeOK(S)
  BY DatabaseStatusSet DEF TypeOK
<1>2. UNCHANGED rows
  BY DEF ensureFinalizer, finalize, removeFinalizer, openSession, GetFails, PatchStatus,
         Restart, Begin, Update, server
<1>3. DependentTypeOK(S)' /\ pc' \in Steps \cup {"idle"}
  <2>1. CASE ensureFinalizer \/ removeFinalizer \/ PatchStatus \/ Restart
    BY <1>1, <2>1, ensureFinalizerTypes, removeFinalizerTypes, PatchStatusTypes, RestartTypes
  <2>2. CASE finalize(seen.spec.reclaimPolicy = "Delete")
    BY <1>1, <2>2, finalizeTypes DEF Steps
  <2>3. ASSUME NEW step \in {"dropExists", "exists"}, openSession(step)
        PROVE  DependentTypeOK(S)' /\ pc' \in Steps \cup {"idle"}
    BY <1>1, <2>3, openSessionTypes DEF Steps
  <2>4. CASE GetFails({"finalize", "connect"})
    BY <1>1, <2>4, GetFailsTypes DEF Steps
  <2>5. ASSUME NEW k \in Keys, Begin(k, "connect")
        PROVE  DependentTypeOK(S)' /\ pc' \in Steps \cup {"idle"}
    BY <1>1, <2>5, BeginTypes DEF Steps
  <2> QED
    BY <2>1, <2>2, <2>3, <2>4, <2>5
<1> QED
  BY <1>2, <1>3 DEF TypeOK

\* The drop.
LEMMA dropDatabaseTypes ==
  ASSUME TypeOK, dropDatabase
  PROVE  TypeOK'
<1> DEFINE S == DatabaseStatus
<1>1. StatusSet(S) /\ DependentTypeOK(S)
  BY DatabaseStatusSet DEF TypeOK
<1>2. CASE dropExists
  BY <1>1, <1>2, dropExistsTypes DEF TypeOK, Steps
<1>3. CASE drop
  <2>1. /\ DependentTypeOK(S)' /\ rows' \in {rows, With(NoObj)}
        /\ pc' \in {"idle", "status", "release"}
    BY <1>1, <1>3, dropTypes
  <2>2. With(NoObj) \in [Clusters -> [Names -> Maybe(DatabaseRow)]]
    BY <1>1, <1>3, Halves, WithRows DEF TypeOK, DatabaseRow, Maybe, drop
  <2> QED
    BY <2>1, <2>2 DEF TypeOK, Steps, DatabaseRow
<1> QED
  BY <1>2, <1>3 DEF dropDatabase

\* Everybody else.
LEMMA OthersTypes ==
  ASSUME TypeOK, (\E k \in Keys : Create(k, NewStatus)) \/ Surroundings \/ Hold \/ LetGo
  PROVE  TypeOK' /\ UNCHANGED pc
<1> DEFINE S == DatabaseStatus
<1>1. DependentTypeOK(S) /\ NewStatus \in S
  BY DatabaseStatusSet DEF TypeOK
<1>2. DependentTypeOK(S)' /\ UNCHANGED pc
  <2>1. ASSUME NEW k \in Keys, Create(k, NewStatus)
        PROVE  DependentTypeOK(S)' /\ UNCHANGED pc
    BY <1>1, <2>1, UserStepTypes DEF worker
  <2>2. CASE Surroundings
    BY <1>1, <2>2, SurroundingsTypes
  <2>3. CASE Hold \/ LetGo
    BY <1>1, <2>3, HandStepTypes DEF worker
  <2> QED
    BY <2>1, <2>2, <2>3
<1>3. rows' \in [Clusters -> [Names -> Maybe(DatabaseRow)]]
  <2>1. rows \in [Clusters -> [Names -> Maybe(DatabaseRow)]]
    BY DEF TypeOK, DatabaseRow
  <2> QED
    BY <2>1, SurroundingRows DEF Create, Hold, LetGo, server
<1> QED
  BY <1>2, <1>3 DEF TypeOK, DatabaseRow

\* Every step preserves the types.
LEMMA NextTypes ==
  ASSUME TypeOK, [Next]_base
  PROVE  TypeOK'
<1>1. CASE UNCHANGED base
  BY <1>1 DEF TypeOK, DependentTypeOK, base, api, dbs, server, worker, budget
<1>2. CASE Worker
  BY <1>2, SharedTypes, dropDatabaseTypes, existsTypes, createTypes DEF Worker, Reconcile
<1>3. CASE Restart
  BY <1>3, SharedTypes
<1>4. CASE (\E k \in Keys : Create(k, NewStatus)) \/ Surroundings \/ Hold \/ LetGo
  BY <1>4, OthersTypes
<1> QED
  BY <1>1, <1>2, <1>3, <1>4 DEF Next

\* The type invariant holds for every value of the constants: no order of outages,
\* lost answers, restarts and edits leaves a reconcile without the object it works
\* on, or a condition with a reason the API does not know.
THEOREM TypeCorrect == Spec => []TypeOK
<1>1. Init => TypeOK
  <2> SUFFICES ASSUME Init PROVE TypeOK
    OBVIOUS
  <2>1. DependentTypeOK(DatabaseStatus) /\ rows \in [Clusters -> [Names -> Maybe(DatabaseRow)]]
    BY InitTypes DEF Init
  <2> QED
    BY <2>1 DEF Init, DependentInit, TypeOK, DatabaseRow
<1>2. TypeOK /\ [Next]_base => TypeOK'
  BY NextTypes
<1> QED
  BY <1>1, <1>2, PTL DEF Spec

(***************************************************************************)
(* The drop, when the name of a SereneDB is used once.                     *)
(***************************************************************************)
\* What the shared code's lemmas ask for.
LEMMA SharedTypesOK ==
  ASSUME TypeOK
  PROVE  /\ StatusSet(DatabaseStatus) /\ DependentTypeOK(DatabaseStatus)
         /\ NewStatus \in DatabaseStatus
         /\ rows \in [Clusters -> [Names -> Maybe(DatabaseRow)]]
BY DatabaseStatusSet DEF TypeOK, DatabaseRow

\* The query of apply changes nothing but the worker's next step.
LEMMA existsHarmless ==
  ASSUME TypeOK, SharedInv, exists
  PROVE  Harmless /\ pc' \in {"create", "status"}
<1>1. pc = "exists" /\ ~seen.deleting
  BY DEF exists, SharedInv, PathInv, LiveSteps
<1>2. UNCHANGED <<api, dbs, uids, clusters, rows>>
  BY DEF exists, Query, Exec, server, budget
<1>3. pc' \in {"create", "status"} /\ UNCHANGED <<key, seen>>
  BY <1>1 DEF exists, Query, Exec, Error, Blocked, Finish, Goto
<1>4. PathInv'
  BY <1>1, <1>3, GotoPath DEF SharedInv, DeletingSteps
<1> QED
  BY <1>1, <1>2, <1>3, <1>4, SharedTypesOK, WorkerHarmless DEF RowsLost, SessionSteps

\* CREATE DATABASE writes at most the row in hand, on a server the operator knows.
LEMMA createKeeps ==
  ASSUME TypeOK, SharedInv, create
  PROVE  /\ SharedInv' /\ CopiesKept /\ DbsKept /\ pc' = "status" /\ UNCHANGED <<key, seen, api>>
         /\ \A c \in Clusters, n \in Names :
              rows'[c][n] = rows[c][n] \/ (c = Home /\ n = Name /\ rows[c][n] = NoObj)
<1>1. pc = "create" /\ ~seen.deleting
  BY DEF create, SharedInv, PathInv, LiveSteps
<1>2. UNCHANGED <<api, dbs, uids, clusters>>
  BY DEF create, Exec
<1>3. pc' = "status" /\ UNCHANGED <<key, seen>>
  BY <1>1 DEF create, Exec, Error, Blocked, Finish
<1>4. PathInv'
  BY <1>1, <1>3, GotoPath DEF SharedInv, DeletingSteps
<1>5. \A c \in Clusters, n \in Names :
        rows'[c][n] = rows[c][n] \/ (c = Home /\ n = Name /\ rows[c][n] = NoObj)
  <2>1. CASE UNCHANGED rows
    BY <2>1
  <2>2. CASE rows' = With([by |-> seen.uid]) /\ Row = NoObj
    BY <1>1, <2>2, SharedTypesOK, WithEffect DEF Row
  <2> QED
    BY <2>1, <2>2 DEF create, Exec, CreateDatabase
<1>6. Known(Home)
  BY <1>1 DEF SharedInv, KnownInv, SessionSteps
<1>7. \A c \in Clusters, n \in Names : rows'[c][n] # NoObj => rows[c][n] # NoObj \/ Known(c)
  BY <1>5, <1>6
<1>8. SharedInv' /\ CopiesKept /\ DbsKept
  BY <1>1, <1>2, <1>3, <1>4, <1>7, SharedTypesOK, WorkerKeeps DEF SessionSteps
<1> QED
  BY <1>2, <1>3, <1>5, <1>8

\* What a step can be: one that writes neither a row nor removes an object, CREATE
\* DATABASE, or the end of a deletion; and how a reconcile comes to that end.
LEMMA StepKinds ==
  ASSUME TypeOK, SharedInv, MaxClusters <= 1, [Next]_base
  PROVE  /\ SharedInv' /\ DbsKept
         /\ \/ Harmless
            \/ create
            \/ /\ removeFinalizer /\ HarmlessBut({key})
               /\ obj[key] = seen /\ obj'[key] = NoObj /\ pc' = "idle"
         /\ \/ UNCHANGED <<pc, key, seen>> /\ Harmless
            \/ pc' # "release"
            \/ finalize(seen.spec.reclaimPolicy = "Delete") \/ dropExists \/ drop
<1> DEFINE S == DatabaseStatus
<1>1. /\ StatusSet(S) /\ DependentTypeOK(S) /\ NewStatus \in S
      /\ rows \in [Clusters -> [Names -> Maybe(DatabaseRow)]]
  BY SharedTypesOK
<1> HIDE DEF S
<1>2. CASE (\E k \in Keys : Create(k, NewStatus)) \/ Surroundings \/ Hold \/ LetGo
  BY <1>1, <1>2, SurroundingsHarmless DEF Harmless, HarmlessBut
<1>3. CASE \E k \in Keys : Begin(k, "connect")
  BY <1>1, <1>3, BeginHarmless, BeginTypes DEF Harmless, HarmlessBut
<1>4. CASE Restart \/ UNCHANGED base
  BY <1>1, <1>4, RestartHarmless, RestartTypes, StutterHarmless
     DEF base, Harmless, HarmlessBut
<1>5. CASE removeFinalizer
  BY <1>1, <1>5, removeFinalizerHarmless, removeFinalizerTypes DEF Harmless, HarmlessBut
<1>6. CASE exists
  BY <1>6, existsHarmless DEF Harmless, HarmlessBut
<1>7. CASE create
  BY <1>7, createKeeps
<1>8. CASE GetFails({"finalize", "connect"})
  BY <1>1, <1>8, GetFailsHarmless, GetFailsTypes DEF Harmless, HarmlessBut
<1>9. CASE \/ ensureFinalizer \/ finalize(seen.spec.reclaimPolicy = "Delete") \/ dropExists \/ drop
           \/ openSession(IF seen.deleting THEN "dropExists" ELSE "exists")
           \/ PatchStatus
  <2>1. "exists" \in LiveSteps
    BY DEF LiveSteps
  <2>2. Harmless
    BY <1>1, <1>9, <2>1, SharedHarmless
  <2>3. ASSUME NEW step \in {"dropExists", "exists"}, openSession(step)
        PROVE  pc' # "release"
    BY <1>1, <2>3, openSessionTypes
  <2>4. \/ pc' # "release"
        \/ finalize(seen.spec.reclaimPolicy = "Delete") \/ dropExists \/ drop
    BY <1>1, <1>9, <2>3, ensureFinalizerTypes, PatchStatusTypes
  <2> QED
    BY <2>2, <2>4 DEF Harmless, HarmlessBut
<1> QED
  BY <1>2, <1>3, <1>4, <1>5, <1>6, <1>7, <1>8, <1>9 DEF Next, Worker, Reconcile, dropDatabase

\* A deletion with policy Delete has come to its end: the row is in the clear.
ReleaseInv == pc = "release" /\ seen.spec.reclaimPolicy = "Delete" => Clear(Home, Name)

\* Every step keeps it.
LEMMA NextRelease ==
  ASSUME TypeOK, SharedInv, ReleaseInv, MaxClusters <= 1, [Next]_base
  PROVE  ReleaseInv'
<1>1. CASE pc' # "release"
  BY <1>1 DEF ReleaseInv
<1>2. CASE UNCHANGED <<pc, key, seen>> /\ Harmless /\ pc' = "release"
  <2>1. Clear(Home, Name) => Clear(Home, Name)'
    BY <1>2, SharedTypesOK, RowClearKept DEF Harmless, HarmlessBut
  <2> QED
    BY <1>2, <2>1 DEF ReleaseInv
<1>3. CASE /\ finalize(seen.spec.reclaimPolicy = "Delete") \/ dropExists \/ drop
           /\ pc' = "release"
  <2>1. UNCHANGED seen
    BY <1>3 DEF finalize, Goto, dropExists, drop, Query, Exec, Refused, Error, Blocked, Again,
                Idle, Finish
  <2>2. seen.spec.reclaimPolicy = "Delete" => Clear(Home, Name)'
    BY <1>3, SharedTypesOK, ReleaseClear
  <2> QED
    BY <2>1, <2>2 DEF ReleaseInv
<1> QED
  BY <1>1, <1>2, <1>3, StepKinds

\* What CacheGone says of the cache is so in the API server.
LEMMA GoneIsGone ==
  ASSUME DbOK, NEW c \in Clusters, CacheGone(c)
  PROVE  db[c] = NoObj \/ db[c].deleting
BY DEF DbOK, CacheGone, Known

\* The invariants hold together.
LEMMA Invariants ==
  ASSUME MaxClusters <= 1
  PROVE  Spec => [](TypeOK /\ SharedInv /\ ReleaseInv)
<1>1. Init => TypeOK /\ SharedInv /\ ReleaseInv
  <2> SUFFICES ASSUME Init PROVE TypeOK /\ SharedInv /\ ReleaseInv
    OBVIOUS
  <2>1. DependentTypeOK(DatabaseStatus) /\ rows \in [Clusters -> [Names -> Maybe(DatabaseRow)]]
    BY InitTypes DEF Init
  <2>2. TypeOK /\ ReleaseInv
    BY <2>1 DEF Init, DependentInit, TypeOK, DatabaseRow, ReleaseInv
  <2> QED
    BY <2>2, InitCopies, InitKnown DEF Init, SharedInv
<1>2. TypeOK /\ SharedInv /\ ReleaseInv /\ [Next]_base => (TypeOK /\ SharedInv /\ ReleaseInv)'
  BY NextTypes, StepKinds, NextRelease
<1> QED
  BY <1>1, <1>2, PTL DEF Spec

\* An object with a finalizer and policy Delete goes only when its database is off
\* the server or the SereneDB goes too, for all objects, servers, specs, edits,
\* failures and lagging informers, if no SereneDB takes the name of an earlier one.
THEOREM DeletionDrops ==
  ASSUME MaxClusters <= 1
  PROVE  Spec => DeleteMeansDropped
<1>1. ASSUME TypeOK, SharedInv, ReleaseInv, [Next]_base, NEW k \in Keys,
             obj[k] # NoObj, obj[k].finalizer, obj'[k] = NoObj,
             obj[k].spec.reclaimPolicy = "Delete"
      PROVE  \/ db[obj[k].spec.cluster] = NoObj
             \/ db[obj[k].spec.cluster].deleting
             \/ rows[obj[k].spec.cluster][NameOf(k, obj[k].spec)] = NoObj
  <2>1. ~Harmless
    BY <1>1 DEF Harmless, HarmlessBut, CopiesKeptBut
  <2>2. ~create
    BY <1>1, createTypes DEF api
  <2>3. removeFinalizer /\ HarmlessBut({key}) /\ obj[key] = seen
    BY <1>1, <2>1, <2>2, StepKinds
  <2>4. k = key
    BY <1>1, <2>3 DEF HarmlessBut, CopiesKeptBut
  <2>5. Clear(Home, Name) /\ Home \in Clusters
    BY <1>1, <2>3, <2>4, SharedTypesOK, Halves, SeenTypes DEF ReleaseInv, removeFinalizer
  <2> QED
    BY <1>1, <2>3, <2>4, <2>5, GoneIsGone DEF Clear, Home, Name, SharedInv, KnownInv
<1>2. TypeOK /\ SharedInv /\ ReleaseInv /\ [Next]_base =>
      [\A k \in Keys :
       LET o == obj[k] IN
       o # NoObj /\ o.finalizer /\ obj'[k] = NoObj /\ o.spec.reclaimPolicy = "Delete"
         => LET c == o.spec.cluster IN
            \/ db[c] = NoObj
            \/ db[c].deleting
            \/ rows[c][NameOf(k, o.spec)] = NoObj]_base
  BY <1>1
<1> QED
  BY <1>2, Invariants, PTL DEF Spec, DeleteMeansDropped

(***************************************************************************)
(* What is dropped, when no two objects share a database.                  *)
(***************************************************************************)
\* A copy that asks for the drop; a copy of an object that is not o, or no longer.
Wanted(c)   == c.deleting /\ c.spec.reclaimPolicy = "Delete"
Stale(c, o) == o = NoObj \/ o.uid # c.uid

\* Copies of objects that are gone ask only for what is done: in the cache ...
CacheDropInv ==
  \A k \in Keys :
    cache[k] # NoObj /\ Wanted(cache[k]) /\ Stale(cache[k], obj[k])
      => Clear(cache[k].spec.cluster, NameOf(k, cache[k].spec))

\* ... and in the running reconcile, which goes on to the drop only if it is wanted.
HandDropInv ==
  /\ pc = "finalize" /\ Wanted(seen) /\ Stale(seen, obj[key]) => Clear(Home, Name)
  /\ pc \in {"connect", "dropExists", "drop"} /\ seen.deleting
       => Wanted(seen) /\ (Stale(seen, obj[key]) => Row = NoObj)

DropInv == CacheDropInv /\ HandDropInv

\* An object does not go stale behind a copy that says it is being deleted, but
\* when its finalizer is removed.
LEMMA NotStale ==
  ASSUME NEW gone, CopiesInv, CopiesKeptBut(gone), NEW k \in Keys \ gone, NEW c, NEW n,
         c # NoObj, Copy(c, obj[k], n), c.deleting, ~Stale(c, obj[k])
  PROVE  ~Stale(c, obj'[k])
<1>1. obj[k] # NoObj /\ obj[k].uid = c.uid /\ obj[k].deleting
  BY DEF Stale, Copy, Evolves
<1>2. obj[k].finalizer
  BY <1>1 DEF CopiesInv, Copy
<1> QED
  BY <1>1, <1>2 DEF CopiesKeptBut, Evolves, Stale

\* Steps that write no row keep the copies in the cache honest.
LEMMA HarmlessCache ==
  ASSUME TypeOK, SharedInv, CacheDropInv, NEW gone, HarmlessBut(gone),
         NEW k \in Keys \ gone, cache'[k] # NoObj, Wanted(cache'[k]), Stale(cache'[k], obj'[k])
  PROVE  Clear(cache[k].spec.cluster, NameOf(k, cache[k].spec))' /\ cache'[k] = cache[k]
<1>1. cache'[k] = cache[k]
  BY DEF HarmlessBut, CopiesKeptBut, Stale
<1>2. cache[k] \in Objects(DatabaseStatus) /\ Copy(cache[k], obj[k], uids) /\ CopiesInv
  BY <1>1 DEF TypeOK, DependentTypeOK, Maybe, SharedInv, CopiesInv
<1>3. Stale(cache[k], obj[k])
  BY <1>1, <1>2, NotStale DEF HarmlessBut, Wanted
<1>4. Clear(cache[k].spec.cluster, NameOf(k, cache[k].spec))
  BY <1>1, <1>3 DEF CacheDropInv
<1> DEFINE c == cache[k].spec.cluster
           n == NameOf(k, cache[k].spec)
<1>5. c \in Clusters /\ n \in Names
  BY <1>2, ObjectTypes
<1>6. rows'[c][n] = NoObj \/ (/\ dbCache'[c] # NoObj \/ (clusters'[c] = 1 /\ db'[c] = NoObj)
                              /\ dbCache'[c] = NoObj \/ dbCache'[c].deleting)
  BY <1>4, <1>5 DEF HarmlessBut, DbsKept, RowsLost, Clear, CacheGone, Known
<1> QED
  BY <1>1, <1>6 DEF Clear, CacheGone, Known, NameOf

\* Every step keeps the copies in the cache honest: a CREATE DATABASE is for an
\* object that exists, and the cache is not behind it.
LEMMA NextCacheDrop ==
  ASSUME MaxClusters <= 1, OwnRows, TypeOK, SharedInv, ReleaseInv, CacheDropInv, [Next]_base
  PROVE  CacheDropInv'
<1> SUFFICES ASSUME NEW k \in Keys, cache'[k] # NoObj, Wanted(cache'[k]), Stale(cache'[k], obj'[k])
    PROVE  /\ Clear(cache[k].spec.cluster, NameOf(k, cache[k].spec))'
           /\ cache'[k] = cache[k]
  BY DEF CacheDropInv, Wanted, Stale
<1>1. CASE Harmless
  BY <1>1, HarmlessCache DEF Harmless
<1>2. CASE removeFinalizer /\ HarmlessBut({key}) /\ obj[key] = seen /\ obj'[key] = NoObj
  <2>1. CASE k # key
    BY <1>2, <2>1, HarmlessCache
  <2>2. CASE k = key
    <3>1. cache'[k] = cache[k] /\ cache[k] # NoObj /\ UNCHANGED <<rows, dbs, clusters>>
      BY <1>2, <2>2 DEF HarmlessBut, CopiesKeptBut, removeFinalizer, Update, server
    <3>2. pc # "idle" /\ pc = "release"
      BY <1>2 DEF removeFinalizer
    <3>3. cache[k] \in Objects(DatabaseStatus) /\ seen \in Objects(DatabaseStatus) /\ seen # NoObj
      BY <3>1, <3>2, SharedTypesOK, Halves, SeenTypes DEF TypeOK, DependentTypeOK, Maybe, StatusSet
    <3>4. Copy(cache[k], seen, uids) /\ NotBehind(cache[k], seen)
      BY <1>2, <2>2, <3>2 DEF SharedInv, CopiesInv
    <3>5. /\ cache[k].uid \in Nat /\ seen.uid \in Nat
          /\ cache[k].gen \in Nat /\ seen.gen \in Nat
      BY <3>3 DEF Objects
    <3>6. cache[k].uid = seen.uid
      BY <3>1, <3>3, <3>4, <3>5 DEF Copy, NotBehind
    <3>7. Evolves(cache[k], seen) /\ seen.gen <= cache[k].gen
      BY <3>1, <3>3, <3>4, <3>6 DEF Copy, NotBehind
    <3>8. cache[k].spec = seen.spec
      BY <3>5, <3>7 DEF Evolves
    <3>9. Clear(cache[k].spec.cluster, NameOf(k, cache[k].spec))
      BY <2>2, <3>1, <3>2, <3>8 DEF ReleaseInv, Wanted, Home, Name
    <3> QED
      BY <3>1, <3>9 DEF Clear, CacheGone, Known, NameOf, dbs
  <2> QED
    BY <2>1, <2>2
<1>3. CASE create
  <2>1. /\ UNCHANGED api
        /\ \A c \in Clusters, n \in Names :
             rows'[c][n] = rows[c][n] \/ (c = Home /\ n = Name /\ rows[c][n] = NoObj)
    BY <1>3, createKeeps
  <2>2. UNCHANGED <<dbs, clusters>> /\ pc = "create"
    BY <1>3 DEF create, Exec
  <2>3. /\ cache'[k] = cache[k] /\ obj'[k] = obj[k]
        /\ cache[k] \in Objects(DatabaseStatus)
    BY <2>1 DEF api, TypeOK, DependentTypeOK, Maybe
  <2>4. key \in Keys /\ seen \in Objects(DatabaseStatus) /\ seen # NoObj
    BY <2>2, SharedTypesOK, Halves, SeenTypes DEF StatusSet
  <2>5. k # key
    <3>1. seen.finalizer /\ ~seen.deleting
      BY <2>2 DEF SharedInv, PathInv, LiveSteps
    <3>2. Copy(seen, obj[key], uids) /\ NotBehind(cache[key], seen) /\ Copy(cache[k], obj[k], uids)
      BY <2>2 DEF SharedInv, CopiesInv
    <3>3. obj[key] # NoObj /\ obj[key].uid = seen.uid
      BY <2>4, <3>1, <3>2 DEF Copy
    <3>4. cache[k].uid \in Nat /\ seen.uid \in Nat
      BY <2>3, <2>4 DEF Objects
    <3>5. k = key => cache[k].uid = obj[k].uid
      BY <2>3, <3>2, <3>3, <3>4 DEF Copy, NotBehind
    <3> QED
      BY <2>3, <3>3, <3>5 DEF Stale
  <2> DEFINE c == cache[k].spec.cluster
             n == NameOf(k, cache[k].spec)
  <2>6. c \in Clusters /\ n \in Names /\ cache[k].spec \in Specs /\ seen.spec \in Specs
    BY <2>3, <2>4, ObjectTypes
  <2>7. ~(c = Home /\ n = Name)
    BY <2>4, <2>5, <2>6 DEF OwnRows, Home, Name
  <2>8. rows'[c][n] = rows[c][n]
    BY <2>1, <2>6, <2>7
  <2>9. rows[c][n] = NoObj \/ CacheGone(c)
    BY <2>3 DEF CacheDropInv, Clear
  <2> QED
    BY <2>2, <2>3, <2>8, <2>9 DEF Clear, CacheGone, Known, NameOf, dbs
<1> QED
  BY <1>1, <1>2, <1>3, StepKinds

\* How a reconcile comes to the steps of a deletion.
LEMMA DeletingStepKinds ==
  ASSUME MaxClusters <= 1, TypeOK, SharedInv, [Next]_base, seen'.deleting,
         pc' \in {"finalize", "connect", "dropExists", "drop"}
  PROVE  \/ UNCHANGED <<pc, key, seen>> /\ Harmless
         \/ pc' = "finalize" /\ UNCHANGED <<api, dbs, server, budget>>
            /\ key' \in Keys /\ seen' = cache[key'] /\ cache[key'] # NoObj
         \/ pc' = "connect" /\ finalize(seen.spec.reclaimPolicy = "Delete")
         \/ /\ pc \in {"connect", "dropExists"} /\ pc' # "finalize"
            /\ UNCHANGED <<key, seen, obj, rows>>
<1> DEFINE S == DatabaseStatus
<1>1. /\ StatusSet(S) /\ DependentTypeOK(S) /\ NewStatus \in S
      /\ rows \in [Clusters -> [Names -> Maybe(DatabaseRow)]]
  BY SharedTypesOK
<1> HIDE DEF S
<1>2. CASE (\E k \in Keys : Create(k, NewStatus)) \/ Surroundings \/ Hold \/ LetGo \/ UNCHANGED base
  BY <1>1, <1>2, SurroundingsHarmless, StutterHarmless DEF base
<1>3. ASSUME NEW k \in Keys, Begin(k, "connect")
      PROVE  \/ UNCHANGED <<pc, key, seen>> /\ Harmless
             \/ pc' = "finalize" /\ UNCHANGED <<api, dbs, server, budget>>
                /\ key' \in Keys /\ seen' = cache[key'] /\ cache[key'] # NoObj
  <2>1. CASE UNCHANGED worker
    BY <1>1, <1>3, <2>1, BeginHarmless DEF worker
  <2>2. CASE ~UNCHANGED worker
    BY <1>3, <2>2 DEF Begin
  <2> QED
    BY <2>1, <2>2
<1>4. CASE ensureFinalizer \/ removeFinalizer \/ PatchStatus \/ Restart
  BY <1>1, <1>4, ensureFinalizerTypes, removeFinalizerTypes, PatchStatusTypes, RestartTypes
<1>5. CASE exists \/ create
  BY <1>5, existsHarmless, createKeeps
<1>6. CASE GetFails({"finalize", "connect"})
  BY <1>1, <1>6, GetFailsTypes
<1>7. CASE finalize(seen.spec.reclaimPolicy = "Delete")
  BY <1>1, <1>7, finalizeTypes
<1>8. CASE openSession(IF seen.deleting THEN "dropExists" ELSE "exists")
  BY <1>8 DEF openSession, Blocked, Again, Idle, Finish, api, server
<1>9. CASE dropExists
  BY <1>9 DEF dropExists, Query, Exec, Refused, Error, Blocked, Again, Idle, Finish, Goto, api
<1>10. CASE drop
  BY <1>1, <1>10, dropTypes
<1> QED
  BY <1>2, <1>3, <1>4, <1>5, <1>6, <1>7, <1>8, <1>9, <1>10 DEF Next, Worker, Reconcile, dropDatabase

\* Every step keeps the running reconcile honest.
LEMMA NextHandDrop ==
  ASSUME MaxClusters <= 1, TypeOK, SharedInv, DropInv, [Next]_base
  PROVE  HandDropInv'
<1>1. SUFFICES ASSUME seen'.deleting, pc' \in {"finalize", "connect", "dropExists", "drop"}
               PROVE  HandDropInv'
  BY DEF HandDropInv, Wanted
<1>2. CASE UNCHANGED <<pc, key, seen>> /\ Harmless
  <2>1. pc # "idle" /\ key \in Keys /\ seen # NoObj /\ Home \in Clusters /\ Name \in Names
    BY <1>1, <1>2, SharedTypesOK, Halves, SeenTypes DEF StatusSet
  <2>2. Stale(seen, obj'[key]) => Stale(seen, obj[key])
    BY <1>1, <1>2, <2>1, NotStale DEF Harmless, HarmlessBut, SharedInv, CopiesInv
  <2>3. Row = NoObj => Row' = NoObj
    BY <1>2, <2>1 DEF Harmless, HarmlessBut, RowsLost, Row, Home, Name
  <2>4. Clear(Home, Name) => Clear(Home, Name)'
    BY <1>2, <2>1, SharedTypesOK, RowClearKept DEF Harmless, HarmlessBut
  <2>5. UNCHANGED <<pc, key, seen>>
    BY <1>2
  <2>6. pc = "finalize" /\ Wanted(seen) /\ Stale(seen, obj'[key]) => Clear(Home, Name)'
    BY <2>2, <2>4 DEF DropInv, HandDropInv
  <2>7. pc \in {"connect", "dropExists", "drop"} /\ seen.deleting
          => Wanted(seen) /\ (Stale(seen, obj'[key]) => Row' = NoObj)
    BY <2>2, <2>3 DEF DropInv, HandDropInv
  <2> QED
    BY <2>5, <2>6, <2>7 DEF HandDropInv, Wanted, Stale
<1>3. CASE /\ pc' = "finalize" /\ UNCHANGED <<api, dbs, server, budget>>
           /\ key' \in Keys /\ seen' = cache[key'] /\ cache[key'] # NoObj
  <2> DEFINE k == key'
  <2>1. Wanted(cache[k]) /\ Stale(cache[k], obj[k])
          => Clear(cache[k].spec.cluster, NameOf(k, cache[k].spec))
    BY <1>3 DEF DropInv, CacheDropInv
  <2>2. UNCHANGED <<obj, cache, rows, db, dbCache, clusters>>
    BY <1>3 DEF api, dbs, server, budget
  <2> QED
    BY <1>3, <2>1, <2>2 DEF HandDropInv, Wanted, Stale, Clear, CacheGone, Known, Home, Name, NameOf
<1>4. CASE pc' = "connect" /\ finalize(seen.spec.reclaimPolicy = "Delete")
  <2>1. pc = "finalize" /\ seen.spec.reclaimPolicy = "Delete" /\ ~clusterGone
        /\ UNCHANGED <<key, seen, obj, rows>>
    BY <1>4 DEF finalize, Goto, api, server
  <2>2. Wanted(seen)
    BY <1>1, <2>1 DEF Wanted
  <2>3. Stale(seen, obj[key]) => Row = NoObj
    BY <2>1, <2>2 DEF DropInv, HandDropInv, Clear, CacheGone, clusterGone, Row
  <2> QED
    BY <1>4, <2>1, <2>2, <2>3 DEF HandDropInv, Wanted, Stale, Row, Home, Name
<1>5. CASE /\ pc \in {"connect", "dropExists"} /\ pc' # "finalize"
           /\ UNCHANGED <<key, seen, obj, rows>>
  BY <1>1, <1>5 DEF DropInv, HandDropInv, Wanted, Stale, Row, Home, Name
<1> QED
  BY <1>1, <1>2, <1>3, <1>4, <1>5, DeletingStepKinds

\* The worker drops a database only for an object that exists, is being deleted and
\* asked for it, for all objects, servers, specs, edits, failures and lagging
\* informers, if no two objects share a database and no SereneDB takes the name of
\* an earlier one.
THEOREM DropsAreAskedFor ==
  ASSUME MaxClusters <= 1, OwnRows
  PROVE  Spec => DropIsAskedFor
<1> DEFINE I == TypeOK /\ SharedInv /\ ReleaseInv
<1>1. Init => DropInv
  BY DEF Init, DependentInit, DropInv, CacheDropInv, HandDropInv
<1>2. I /\ DropInv /\ [Next]_base => DropInv'
  BY NextCacheDrop, NextHandDrop DEF DropInv
<1>3. ASSUME I, DropInv, [Next]_base, NEW c \in Clusters, NEW n \in Names,
             pc = "drop", pc' # pc, rows[c][n] # NoObj, rows'[c][n] = NoObj
      PROVE  /\ obj[key] # NoObj /\ obj[key].uid = seen.uid /\ obj[key].deleting
             /\ obj[key].gen = seen.gen => obj[key].spec.reclaimPolicy = "Delete"
  <2>1. key \in Keys /\ seen # NoObj /\ seen.deleting
    BY <1>3, SharedTypesOK, Halves, SeenTypes DEF StatusSet, SharedInv, PathInv, DeletingSteps
  <2>2. Row # NoObj
    <3>1. CASE drop
      BY <1>3, <3>1 DEF drop, Refused, Error, Blocked, Again, Idle, Finish, server
    <3>2. CASE Restart
      BY <1>3, <3>2 DEF Restart, server
    <3>3. CASE UNCHANGED base
      BY <1>3, <3>3 DEF base, worker
    <3>4. CASE (\E k \in Keys : Create(k, NewStatus)) \/ Surroundings \/ Hold \/ LetGo
      BY <1>3, <3>4, OthersTypes
    <3> QED
      BY <1>3, <3>1, <3>2, <3>3, <3>4
         DEF Next, Worker, Reconcile, dropDatabase, dropExists, ensureFinalizer, finalize,
             removeFinalizer, openSession, GetFails, exists, create, PatchStatus, Begin
  <2>3. Wanted(seen) /\ ~Stale(seen, obj[key])
    BY <1>3, <2>1, <2>2 DEF DropInv, HandDropInv
  <2>4. obj[key] # NoObj /\ obj[key].uid = seen.uid /\ Evolves(seen, obj[key])
    BY <1>3, <2>1, <2>3 DEF Stale, SharedInv, CopiesInv, Copy
  <2> QED
    BY <2>1, <2>3, <2>4 DEF Evolves, Wanted
<1>4. I /\ DropInv /\ [Next]_base =>
      [\A c \in Clusters, n \in Names :
       pc = "drop" /\ pc' # pc /\ rows[c][n] # NoObj /\ rows'[c][n] = NoObj
         => /\ obj[key] # NoObj /\ obj[key].uid = seen.uid /\ obj[key].deleting
            /\ obj[key].gen = seen.gen => obj[key].spec.reclaimPolicy = "Delete"]_base
  BY <1>3
<1>5. Spec => []I
  BY Invariants
<1> QED
  BY <1>1, <1>2, <1>4, <1>5, PTL DEF Spec, DropIsAskedFor
=============================================================================
