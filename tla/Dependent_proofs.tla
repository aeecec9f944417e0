---------------------------- MODULE Dependent_proofs ----------------------------
(***************************************************************************)
(* Lemmas about the shared code of the dependents, for every set of keys,  *)
(* SereneDBs, specs and lagging informers, every bound, and every set of   *)
(* statuses a kind may have.                                               *)
(***************************************************************************)
EXTENDS Dependent, TLAPS

(***************************************************************************)
(* Types.                                                                  *)
(***************************************************************************)
\* What the shared code needs of a kind's statuses: "not found" is no object, a
\* Ready condition can be set in them, and a merge patch of one into another is one
\* again.
StatusSet(S) ==
  /\ NoObj \notin Objects(S)
  /\ \A s \in S, c \in Condition : [s EXCEPT !.ready = c] \in S
  /\ \A n, s, o \in S : [f \in DOMAIN n |-> IF n[f] # s[f] THEN n[f] ELSE o[f]] \in S

\* DependentTypeOK in two halves: the objects and their surroundings ...
WorldOK(S) ==
  /\ obj \in [Keys -> Maybe(Objects(S))] /\ cache \in [Keys -> Maybe(Objects(S))]
  /\ db \in [Clusters -> Maybe(DbObj)] /\ dbCache \in [Clusters -> Maybe(DbObj)]
  /\ reach \in [Clusters -> Outages \cup {"ok", "ConnectionFailed"}]
  /\ held \in BOOLEAN
  /\ uids \in Nat /\ edits \in Nat /\ faults \in Nat
  /\ clusters \in [Clusters -> Nat] /\ drift \in Nat

\* ... and the worker with its queue.
WorkerOK(S) ==
  /\ queued \subseteq Keys
  /\ session \in BOOLEAN
  /\ pc = "idle" => key = NoObj /\ seen = NoObj /\ next = NoObj
  /\ pc # "idle" => key \in Keys /\ seen \in Objects(S) /\ next \in S

\* The two halves make up the whole.
LEMMA Halves ==
  ASSUME NEW S
  PROVE  DependentTypeOK(S) <=> WorldOK(S) /\ WorkerOK(S)
BY DEF DependentTypeOK, WorldOK, WorkerOK

\* They do after a step, too.
LEMMA Joined ==
  ASSUME NEW S, WorldOK(S)', WorkerOK(S)'
  PROVE  DependentTypeOK(S)'
BY DEF DependentTypeOK, WorldOK, WorkerOK

\* An object in hand has a spec, with the name of a SereneDB and a server-side name.
LEMMA SeenTypes ==
  ASSUME NEW S, WorkerOK(S), pc # "idle"
  PROVE  /\ key \in Keys /\ seen \in Objects(S) /\ next \in S
         /\ seen.spec \in Specs /\ Home \in Clusters /\ Name \in Names
         /\ seen.uid \in Nat \ {0} /\ seen.gen \in Nat
         /\ seen.deleting \in BOOLEAN /\ seen.finalizer \in BOOLEAN /\ seen.status \in S
<1>1. key \in Keys /\ seen \in Objects(S) /\ next \in S
  BY DEF WorkerOK
<1>2. seen.spec \in Specs /\ seen.uid \in Nat \ {0} /\ seen.gen \in Nat
      /\ seen.deleting \in BOOLEAN /\ seen.finalizer \in BOOLEAN /\ seen.status \in S
  BY <1>1 DEF Objects
<1>3. Home \in Clusters
  BY <1>2, DependentAssumption DEF Home
<1>4. Name \in Names
  BY <1>1, <1>2 DEF Name, NameOf, Names
<1> QED
  BY <1>1, <1>2, <1>3, <1>4

\* So has any object.
LEMMA ObjectTypes ==
  ASSUME NEW S, NEW o \in Objects(S), NEW k \in Keys
  PROVE  /\ o.spec \in Specs /\ o.spec.cluster \in Clusters /\ NameOf(k, o.spec) \in Names
         /\ o.uid \in Nat \ {0} /\ o.gen \in Nat
         /\ o.deleting \in BOOLEAN /\ o.finalizer \in BOOLEAN /\ o.status \in S
<1>1. /\ o.spec \in Specs /\ o.uid \in Nat \ {0} /\ o.gen \in Nat
      /\ o.deleting \in BOOLEAN /\ o.finalizer \in BOOLEAN /\ o.status \in S
  BY DEF Objects
<1> QED
  BY <1>1, DependentAssumption DEF NameOf, Names

\* Every reason is one of the condition's.
LEMMA OutcomeTypes ==
  ASSUME NEW S, WorkerOK(S), pc # "idle", NEW reason \in Reasons \cup {"Applied"}
  PROVE  outcome(reason) \in Condition
<1>1. seen.gen \in Nat
  BY SeenTypes
<1> QED
  BY <1>1 DEF outcome, Condition, Reasons

\* The ends of a step keep the worker's types: back to idle ...
LEMMA IdleTypes ==
  ASSUME NEW S, Idle, queued' \subseteq Keys
  PROVE  WorkerOK(S)'
BY DEF Idle, WorkerOK

\* ... with the key queued again ...
LEMMA AgainTypes ==
  ASSUME NEW S, WorkerOK(S), pc # "idle", Again
  PROVE  WorkerOK(S)'
BY IdleTypes DEF Again, WorkerOK

\* ... on to another step ...
LEMMA GotoTypes ==
  ASSUME NEW S, WorkerOK(S), pc # "idle", NEW step, step # "idle", Goto(step)
  PROVE  WorkerOK(S)'
BY DEF Goto, WorkerOK

\* ... or to the status, which the outcome goes into.
LEMMA FinishTypes ==
  ASSUME NEW S, StatusSet(S), WorkerOK(S), pc # "idle",
         NEW reason \in Reasons \cup {"Applied"}, Finish(reason)
  PROVE  WorkerOK(S)'
<1>1. next \in S /\ outcome(reason) \in Condition
  BY SeenTypes, OutcomeTypes
<1>2. next' \in S
  BY <1>1 DEF StatusSet, Finish
<1> QED
  BY <1>2 DEF Finish, WorkerOK

\* What stops a reconcile ends it in one of these ways.
LEMMA BlockedTypes ==
  ASSUME NEW S, StatusSet(S), WorkerOK(S), pc # "idle", NEW reason \in Reasons, Blocked(reason)
  PROVE  WorkerOK(S)' /\ (seen.deleting => pc' = "idle") /\ (~seen.deleting => pc' = "status")
BY AgainTypes, FinishTypes DEF Blocked, Again, Idle, Finish

\* So does an error.
LEMMA ErrorTypes ==
  ASSUME NEW S, StatusSet(S), WorkerOK(S), pc # "idle", Error
  PROVE  WorkerOK(S)' /\ (seen.deleting => pc' = "idle") /\ (~seen.deleting => pc' = "status")
BY BlockedTypes DEF Error, Reasons

\* A write keeps objects and copies well formed.
LEMMA PutTypes ==
  ASSUME NEW S, NEW k \in Keys, NEW o \in Maybe(Objects(S)), Put(k, o),
         obj \in [Keys -> Maybe(Objects(S))], cache \in [Keys -> Maybe(Objects(S))]
  PROVE  /\ obj' \in [Keys -> Maybe(Objects(S))]
         /\ cache' \in [Keys -> Maybe(Objects(S))]
BY DEF Put

\* A write enqueues nothing but the object's key.
LEMMA EventKeys ==
  ASSUME NEW k \in Keys, NEW o
  PROVE  Event(k, o) \subseteq Keys
BY DEF Event

\* The initial state.
LEMMA InitTypes ==
  ASSUME NEW S, NEW R, DependentInit
  PROVE  DependentTypeOK(S) /\ rows \in [Clusters -> [Names -> Maybe(R)]]
<1>1. WorldOK(S)
  BY DEF DependentInit, WorldOK, Maybe
<1>2. WorkerOK(S)
  BY DEF DependentInit, WorkerOK
<1>3. rows \in [Clusters -> [Names -> Maybe(R)]]
  BY DEF DependentInit, Maybe
<1> QED
  BY <1>1, <1>2, <1>3, Halves

\* Steps that leave objects and surroundings alone, but for a fault.
LEMMA WorldKept ==
  ASSUME NEW S, WorldOK(S), UNCHANGED <<api, dbs, held, uids, edits, clusters, drift>>,
         faults' \in Nat
  PROVE  WorldOK(S)'
BY DEF WorldOK, api, dbs

\* A fault is counted.
LEMMA FaultTypes ==
  ASSUME NEW S, WorldOK(S), Fault \/ UNCHANGED faults
  PROVE  faults' \in Nat
BY DEF WorldOK, Fault

\* Taking a key from the queue.
LEMMA BeginTypes ==
  ASSUME NEW S, DependentTypeOK(S), NEW k \in Keys, NEW apply, apply # "idle", Begin(k, apply)
  PROVE  /\ DependentTypeOK(S)'
         /\ pc' \in {"idle", "finalize", "guard", apply}
<1>1. WorldOK(S) /\ WorkerOK(S)
  BY Halves
<1>2. WorldOK(S)'
  BY <1>1, WorldKept DEF Begin, server, budget, WorldOK
<1>3. cache[k] \in Objects(S) \cup {NoObj}
  BY <1>1 DEF WorldOK, Maybe
<1>4. CASE UNCHANGED worker
  BY <1>1, <1>2, <1>4, Joined DEF Begin, WorkerOK, worker
<1>5. CASE ~UNCHANGED worker
  <2>1. cache[k] \in Objects(S)
    BY <1>3, <1>5 DEF Begin
  <2>2. cache[k].status \in S
    BY <2>1, ObjectTypes
  <2>3. /\ key' = k /\ seen' = cache[k] /\ next' = cache[k].status /\ session' = FALSE
        /\ pc' \in {"finalize", "guard", apply}
    BY <1>5 DEF Begin
  <2>4. WorkerOK(S)'
    BY <1>1, <2>1, <2>2, <2>3 DEF Begin, WorkerOK
  <2> QED
    BY <1>2, <2>3, <2>4, Joined
<1> QED
  BY <1>4, <1>5

\* An update of the object in hand, whatever becomes of it.
LEMMA UpdateTypes ==
  ASSUME NEW S, DependentTypeOK(S), pc # "idle", NEW o \in Maybe(Objects(S)),
         Update(o, Again) \/ Update(o, Idle /\ UNCHANGED queued)
  PROVE  DependentTypeOK(S)' /\ pc' = "idle"
<1>1. WorldOK(S) /\ WorkerOK(S) /\ key \in Keys
  BY Halves, SeenTypes
<1>2. UNCHANGED <<dbs, server, uids, edits, clusters, drift>> /\ (Put(key, o) \/ UNCHANGED api)
  BY DEF Update
<1>3. faults' \in Nat
  BY <1>1, FaultTypes DEF Update
<1>4. obj' \in [Keys -> Maybe(Objects(S))] /\ cache' \in [Keys -> Maybe(Objects(S))]
  BY <1>1, <1>2, PutTypes DEF WorldOK, api
<1>5. WorldOK(S)'
  BY <1>1, <1>2, <1>3, <1>4 DEF WorldOK, dbs, server
<1>6. Idle
  BY DEF Update, Again
<1>7. queued' \subseteq Keys
  BY <1>1, EventKeys DEF Update, Again, WorkerOK
<1> QED
  BY <1>5, <1>6, <1>7, IdleTypes, Joined DEF Idle

\* Adding the finalizer.
LEMMA ensureFinalizerTypes ==
  ASSUME NEW S, DependentTypeOK(S), ensureFinalizer
  PROVE  DependentTypeOK(S)' /\ pc' = "idle"
<1>1. seen \in Objects(S) /\ pc # "idle"
  BY Halves, SeenTypes DEF ensureFinalizer
<1>2. [seen EXCEPT !.finalizer = TRUE] \in Maybe(Objects(S))
  BY <1>1 DEF Objects, Maybe
<1> QED
  BY <1>1, <1>2, UpdateTypes DEF ensureFinalizer

\* Removing it, and the object with it.
LEMMA removeFinalizerTypes ==
  ASSUME NEW S, DependentTypeOK(S), removeFinalizer
  PROVE  DependentTypeOK(S)' /\ pc' = "idle"
BY UpdateTypes DEF removeFinalizer, Maybe

\* Deciding about the drop.
LEMMA finalizeTypes ==
  ASSUME NEW S, DependentTypeOK(S), NEW wanted, finalize(wanted)
  PROVE  DependentTypeOK(S)' /\ pc' \in {"connect", "release"}
<1>1. WorldOK(S) /\ WorkerOK(S)
  BY Halves
<1>2. WorldOK(S)'
  BY <1>1, WorldKept DEF finalize, server, budget, WorldOK
<1>3. PICK step \in {"connect", "release"} : Goto(step)
  BY DEF finalize
<1> QED
  BY <1>1, <1>2, <1>3, GotoTypes, Joined DEF finalize, Goto

\* Opening a session.
LEMMA openSessionTypes ==
  ASSUME NEW S, StatusSet(S), DependentTypeOK(S), NEW step, step # "idle", openSession(step)
  PROVE  DependentTypeOK(S)' /\ pc' \in {"idle", "status", step}
<1>1. WorldOK(S) /\ WorkerOK(S) /\ pc # "idle" /\ Home \in Clusters
  BY Halves, SeenTypes DEF openSession
<1>2. WorldOK(S)'
  BY <1>1, WorldKept DEF openSession, server, budget, WorldOK
<1>3. CASE pc' = step /\ session' = TRUE /\ UNCHANGED <<key, seen, next, queued>>
  BY <1>1, <1>2, <1>3, Joined DEF WorkerOK
<1>4. ASSUME NEW reason \in {"ClusterNotFound", "ClusterNotReady", reach[Home]},
             reason # "ok", Blocked(reason)
      PROVE  DependentTypeOK(S)' /\ pc' \in {"idle", "status"}
  <2>1. reason \in Reasons
    BY <1>1, <1>4, DependentAssumption DEF WorldOK, Reasons
  <2>2. seen.deleting \in BOOLEAN
    BY <1>1, SeenTypes
  <2> QED
    BY <1>1, <1>2, <1>4, <2>1, <2>2, BlockedTypes, Joined
<1> QED
  BY <1>3, <1>4 DEF openSession

\* A failing read.
LEMMA GetFailsTypes ==
  ASSUME NEW S, StatusSet(S), DependentTypeOK(S), NEW steps, "idle" \notin steps, GetFails(steps)
  PROVE  DependentTypeOK(S)' /\ pc' \in {"idle", "status"}
<1>1. WorldOK(S) /\ WorkerOK(S) /\ pc # "idle" /\ seen.deleting \in BOOLEAN
  BY Halves, SeenTypes DEF GetFails
<1>2. WorldOK(S)'
  BY <1>1, FaultTypes, WorldKept DEF GetFails, server
<1> QED
  BY <1>1, <1>2, ErrorTypes, Joined DEF GetFails

\* A refused statement.
LEMMA RefusedTypes ==
  ASSUME NEW S, StatusSet(S), DependentTypeOK(S), pc # "idle", Refused
  PROVE  DependentTypeOK(S)' /\ pc' \in {"idle", "status"} /\ UNCHANGED rows
<1>1. WorldOK(S) /\ WorkerOK(S) /\ seen.deleting \in BOOLEAN
  BY Halves, SeenTypes
<1>2. WorldOK(S)'
  BY <1>1, WorldKept DEF Refused, server, budget, WorldOK
<1> QED
  BY <1>1, <1>2, ErrorTypes, Joined DEF Refused, server

\* The query before a DROP.
LEMMA dropExistsTypes ==
  ASSUME NEW S, StatusSet(S), DependentTypeOK(S), dropExists
  PROVE  /\ DependentTypeOK(S)' /\ UNCHANGED rows
         /\ pc' \in {"idle", "status", "release", "drop"}
<1>1. WorldOK(S) /\ WorkerOK(S) /\ pc # "idle" /\ seen.deleting \in BOOLEAN
  BY Halves, SeenTypes DEF dropExists
<1>2. CASE Refused
  BY <1>1, <1>2, RefusedTypes
<1>3. CASE Query(Goto(IF Row = NoObj THEN "release" ELSE "drop"))
  <2>1. WorldOK(S)'
    BY <1>1, <1>3, FaultTypes, WorldKept DEF Query, Exec
  <2>2. UNCHANGED rows
    BY <1>3 DEF Query, Exec
  <2>3. CASE Error
    BY <1>1, <2>1, <2>2, <2>3, ErrorTypes, Joined
  <2>4. ASSUME NEW step \in {"release", "drop"}, Goto(step)
        PROVE  DependentTypeOK(S)' /\ pc' \in {"release", "drop"}
    BY <1>1, <2>1, <2>4, GotoTypes, Joined DEF Goto
  <2> QED
    BY <1>3, <2>2, <2>3, <2>4 DEF Query, Exec
<1> QED
  BY <1>2, <1>3 DEF dropExists

\* The DROP.
LEMMA dropTypes ==
  ASSUME NEW S, StatusSet(S), DependentTypeOK(S), drop
  PROVE  /\ DependentTypeOK(S)' /\ rows' \in {rows, With(NoObj)}
         /\ pc' \in {"idle", "status", "release"}
<1>1. WorldOK(S) /\ WorkerOK(S) /\ pc # "idle" /\ seen.deleting \in BOOLEAN
  BY Halves, SeenTypes DEF drop
<1>2. CASE Refused
  BY <1>1, <1>2, RefusedTypes
<1>3. CASE Exec(With(NoObj), Goto("release"))
  <2>1. WorldOK(S)'
    BY <1>1, <1>3, FaultTypes, WorldKept DEF Exec
  <2>2. rows' \in {rows, With(NoObj)}
    BY <1>3 DEF Exec
  <2>3. CASE Error
    BY <1>1, <2>1, <2>2, <2>3, ErrorTypes, Joined
  <2>4. CASE Goto("release")
    BY <1>1, <2>1, <2>2, <2>4, GotoTypes, Joined DEF Goto
  <2> QED
    BY <1>3, <2>3, <2>4 DEF Exec
<1> QED
  BY <1>2, <1>3 DEF drop

\* A merge patch of a status gives an object again.
LEMMA PatchedTypes ==
  ASSUME NEW S, StatusSet(S), WorkerOK(S), pc # "idle", NEW o \in Objects(S)
  PROVE  Patched(o) \in Objects(S)
<1> DEFINE st == [f \in DOMAIN next |-> IF next[f] # seen.status[f] THEN next[f] ELSE o.status[f]]
<1>1. next \in S /\ seen.status \in S /\ o.status \in S
  BY SeenTypes DEF Objects
<1>2. st \in S
  BY <1>1 DEF StatusSet
<1>3. Patched(o) = [o EXCEPT !.status = st]
  BY DEF Patched
<1> HIDE DEF st
<1> QED
  BY <1>2, <1>3 DEF Objects

\* Writing the status.
LEMMA PatchStatusTypes ==
  ASSUME NEW S, StatusSet(S), DependentTypeOK(S), PatchStatus
  PROVE  DependentTypeOK(S)' /\ pc' = "idle"
<1>1. WorldOK(S) /\ WorkerOK(S) /\ pc # "idle" /\ key \in Keys
  BY Halves, SeenTypes DEF PatchStatus
<1>2. UNCHANGED <<dbs, server, uids, edits, clusters, drift>>
      /\ ((obj[key] # NoObj /\ Put(key, Patched(obj[key]))) \/ UNCHANGED api)
  BY DEF PatchStatus
<1>3. obj[key] # NoObj => Patched(obj[key]) \in Objects(S)
  BY <1>1, PatchedTypes DEF WorldOK, Maybe
<1>4. obj' \in [Keys -> Maybe(Objects(S))] /\ cache' \in [Keys -> Maybe(Objects(S))]
  BY <1>1, <1>2, <1>3, PutTypes DEF WorldOK, api, Maybe
<1>5. WorldOK(S)'
  BY <1>1, <1>2, <1>4, FaultTypes DEF WorldOK, dbs, server, PatchStatus
<1>6. Idle
  BY DEF PatchStatus, Again
<1>7. queued' \subseteq Keys
  BY <1>1, EventKeys DEF PatchStatus, Again, WorkerOK
<1> QED
  BY <1>5, <1>6, <1>7, IdleTypes, Joined DEF Idle

\* A new operator process.
LEMMA RestartTypes ==
  ASSUME NEW S, DependentTypeOK(S), Restart
  PROVE  DependentTypeOK(S)' /\ pc' = "idle"
<1>1. WorldOK(S)
  BY Halves
<1>2. WorldOK(S)'
  BY <1>1, FaultTypes DEF WorldOK, Restart, server
<1>3. Idle /\ queued' \subseteq Keys
  BY DEF Restart
<1> QED
  BY <1>2, <1>3, IdleTypes, Joined DEF Idle

\* Steps of others leave a worker in the middle of a reconcile where it is.
LEMMA WorkerKept ==
  ASSUME NEW S, WorkerOK(S), queued' \subseteq Keys, session' \in BOOLEAN,
         UNCHANGED <<pc, key, seen, next>>
  PROVE  WorkerOK(S)'
BY DEF WorkerOK

\* Informers.
LEMMA DeliverTypes ==
  ASSUME NEW S, DependentTypeOK(S), NEW k \in Keys, Deliver(k)
  PROVE  DependentTypeOK(S)' /\ UNCHANGED <<pc, rows>>
<1>1. WorldOK(S) /\ WorkerOK(S)
  BY Halves
<1>2. WorldOK(S)'
  BY <1>1 DEF WorldOK, Deliver, dbs, server, budget
<1>3. WorkerOK(S)'
  BY <1>1 DEF WorkerOK, Deliver, worker
<1> QED
  BY <1>2, <1>3, Joined DEF Deliver, server, worker

\* The keys that refer to a SereneDB are keys.
LEMMA DeliverDbTypes ==
  ASSUME NEW S, DependentTypeOK(S), NEW c \in Clusters, DeliverDb(c)
  PROVE  DependentTypeOK(S)' /\ UNCHANGED <<pc, rows>>
<1>1. WorldOK(S) /\ WorkerOK(S)
  BY Halves
<1>2. WorldOK(S)'
  BY <1>1 DEF WorldOK, DeliverDb, api, server, budget
<1>3. WorkerOK(S)'
  BY <1>1 DEF WorkerOK, DeliverDb, worker, Of
<1> QED
  BY <1>2, <1>3, Joined DEF DeliverDb, server, worker

\* Writes of a SereneDB.
LEMMA PutDbTypes ==
  ASSUME NEW S, DependentTypeOK(S), NEW c \in Clusters, NEW d \in Maybe(DbObj), PutDb(c, d)
  PROVE  /\ db' \in [Clusters -> Maybe(DbObj)] /\ dbCache' \in [Clusters -> Maybe(DbObj)]
         /\ queued' \subseteq Keys
BY DEF DependentTypeOK, PutDb, Of

\* A SereneDB with other flags is one.
LEMMA DbFields ==
  ASSUME NEW S, DependentTypeOK(S), NEW c \in Clusters, db[c] # NoObj, NEW b \in BOOLEAN
  PROVE  /\ [db[c] EXCEPT !.ready = b] \in DbObj
         /\ [db[c] EXCEPT !.deleting = b] \in DbObj
         /\ db[c].ready \in BOOLEAN /\ db[c].deleting \in BOOLEAN
BY DEF DependentTypeOK, Maybe, DbObj

\* SereneDBs and servers come, fail and go.
LEMMA DbStepTypes ==
  ASSUME NEW S, DependentTypeOK(S), NEW c \in Clusters,
         CreateDb(c) \/ Serve(c) \/ Outage(c) \/ DeleteDb(c) \/ RemoveDb(c)
  PROVE  DependentTypeOK(S)' /\ UNCHANGED pc
<1>1. WorldOK(S) /\ WorkerOK(S)
  BY Halves
<1>2. CASE CreateDb(c)
  <2>1. [ready |-> FALSE, deleting |-> FALSE] \in Maybe(DbObj)
    BY DEF Maybe, DbObj
  <2>2. /\ db' \in [Clusters -> Maybe(DbObj)] /\ dbCache' \in [Clusters -> Maybe(DbObj)]
        /\ queued' \subseteq Keys
    BY <1>2, <2>1, PutDbTypes DEF CreateDb
  <2>5. clusters' \in [Clusters -> Nat]
    BY <1>1, <1>2 DEF WorldOK, CreateDb
  <2>3. WorldOK(S)'
    BY <1>1, <1>2, <2>2, <2>5 DEF WorldOK, CreateDb, api, server
  <2>4. WorkerOK(S)'
    BY <1>1, <1>2, <2>2 DEF WorkerOK, CreateDb, worker
  <2> QED
    BY <1>2, <2>3, <2>4, Joined DEF CreateDb, worker
<1>3. CASE Serve(c)
  <2>1. [db[c] EXCEPT !.ready = TRUE] \in Maybe(DbObj)
    BY <1>3, DbFields DEF Serve, Maybe
  <2>2. /\ db' \in [Clusters -> Maybe(DbObj)] /\ dbCache' \in [Clusters -> Maybe(DbObj)]
        /\ queued' \subseteq Keys
    BY <1>3, <2>1, PutDbTypes DEF Serve
  <2>3. WorldOK(S)'
    BY <1>1, <1>3, <2>2 DEF WorldOK, Serve, api, server, budget
  <2>4. WorkerOK(S)'
    BY <1>1, <1>3, <2>2 DEF WorkerOK, Serve, worker
  <2> QED
    BY <1>3, <2>3, <2>4, Joined DEF Serve, worker
<1>4. CASE Outage(c)
  <2>1. PICK r \in Outages, ready \in BOOLEAN :
          /\ reach' = [reach EXCEPT ![c] = r]
          /\ PutDb(c, [db[c] EXCEPT !.ready = ready])
          /\ IF r = "ConnectionFailed" THEN Broken(c) ELSE UNCHANGED worker
    BY <1>4 DEF Outage
  <2>2. [db[c] EXCEPT !.ready = ready] \in Maybe(DbObj)
    BY <1>4, DbFields DEF Outage, Maybe
  <2>3. /\ db' \in [Clusters -> Maybe(DbObj)] /\ dbCache' \in [Clusters -> Maybe(DbObj)]
        /\ queued' \subseteq Keys
    BY <2>1, <2>2, PutDbTypes
  <2>4. WorldOK(S)'
    BY <1>1, <1>4, <2>1, <2>3, FaultTypes DEF WorldOK, Outage, api, server
  <2>5. UNCHANGED <<pc, key, seen, next>> /\ session' \in BOOLEAN
    BY <1>1, <2>1 DEF WorkerOK, Broken, worker
  <2> QED
    BY <1>1, <2>3, <2>4, <2>5, WorkerKept, Joined
<1>5. CASE DeleteDb(c)
  <2>1. PICK d \in Maybe(DbObj) : PutDb(c, d)
    BY <1>5, DbFields DEF DeleteDb, Maybe
  <2>2. /\ db' \in [Clusters -> Maybe(DbObj)] /\ dbCache' \in [Clusters -> Maybe(DbObj)]
        /\ queued' \subseteq Keys
    BY <2>1, PutDbTypes
  <2>3. WorldOK(S)'
    BY <1>1, <1>5, <2>2 DEF WorldOK, DeleteDb, api, server, budget
  <2>4. WorkerOK(S)'
    BY <1>1, <1>5, <2>2 DEF WorkerOK, DeleteDb, worker
  <2> QED
    BY <1>5, <2>3, <2>4, Joined DEF DeleteDb, worker
<1>6. CASE RemoveDb(c)
  <2>1. /\ db' \in [Clusters -> Maybe(DbObj)] /\ dbCache' \in [Clusters -> Maybe(DbObj)]
        /\ queued' \subseteq Keys
    BY <1>6, PutDbTypes DEF RemoveDb, Maybe
  <2>2. WorldOK(S)'
    BY <1>1, <1>6, <2>1 DEF WorldOK, RemoveDb, api, budget
  <2>3. UNCHANGED <<pc, key, seen, next>> /\ session' \in BOOLEAN
    BY <1>1, <1>6 DEF WorkerOK, RemoveDb, Broken
  <2> QED
    BY <1>1, <2>1, <2>2, <2>3, WorkerKept, Joined
<1> QED
  BY <1>2, <1>3, <1>4, <1>5, <1>6

\* An object with another spec, or marked for deletion, is an object.
LEMMA ObjectFields ==
  ASSUME NEW S, NEW o \in Objects(S), NEW s \in Specs
  PROVE  /\ [o EXCEPT !.spec = s, !.gen = @ + 1] \in Objects(S)
         /\ [o EXCEPT !.deleting = TRUE, !.gen = @ + 1] \in Objects(S)
<1> DEFINE g == o.gen + 1
<1>1. g \in Nat
  BY DEF Objects
<1> HIDE DEF g
<1>2. /\ [o EXCEPT !.spec = s, !.gen = g] \in Objects(S)
      /\ [o EXCEPT !.deleting = TRUE, !.gen = g] \in Objects(S)
  BY <1>1 DEF Objects
<1> QED
  BY <1>2 DEF g

\* Users create, edit and delete objects.
LEMMA UserStepTypes ==
  ASSUME NEW S, DependentTypeOK(S), NEW k \in Keys, NEW status \in S,
         Create(k, status) \/ Edit(k) \/ Delete(k)
  PROVE  DependentTypeOK(S)' /\ UNCHANGED <<worker, rows>>
<1>1. WorldOK(S) /\ WorkerOK(S)
  BY Halves
<1>2. PICK o : Put(k, o) /\ o \in Maybe(Objects(S)) /\ queued' = queued \cup Event(k, o)
  <2>1. CASE Create(k, status)
    <3>1. PICK s \in Specs :
            LET o == [uid |-> uids + 1, gen |-> 1, spec |-> s, finalizer |-> FALSE,
                      deleting |-> FALSE, status |-> status]
            IN Put(k, o) /\ queued' = queued \cup Event(k, o)
      BY <2>1 DEF Create
    <3>2. [uid |-> uids + 1, gen |-> 1, spec |-> s, finalizer |-> FALSE,
           deleting |-> FALSE, status |-> status] \in Objects(S)
      BY <1>1 DEF WorldOK, Objects
    <3> QED
      BY <3>1, <3>2 DEF Maybe
  <2>2. CASE Edit(k)
    <3>1. PICK s \in Specs :
            LET o == [obj[k] EXCEPT !.spec = s, !.gen = @ + 1]
            IN Put(k, o) /\ queued' = queued \cup Event(k, o)
      BY <2>2 DEF Edit
    <3>2. [obj[k] EXCEPT !.spec = s, !.gen = @ + 1] \in Objects(S)
      BY <1>1, <2>2, ObjectFields DEF WorldOK, Maybe, Edit
    <3> QED
      BY <3>1, <3>2 DEF Maybe
  <2>3. CASE Delete(k)
    <3>0. obj[k] \in Objects(S)
      BY <1>1, <2>3 DEF WorldOK, Maybe, Delete
    <3>1. [obj[k] EXCEPT !.deleting = TRUE, !.gen = @ + 1] \in Objects(S)
      BY <3>0, ObjectFields, ObjectTypes
    <3> QED
      BY <2>3, <3>1 DEF Delete, Maybe
  <2> QED
    BY <2>1, <2>2, <2>3
<1>3. obj' \in [Keys -> Maybe(Objects(S))] /\ cache' \in [Keys -> Maybe(Objects(S))]
  BY <1>1, <1>2, PutTypes DEF WorldOK
<1>4. UNCHANGED <<dbs, server, worker, faults, clusters, drift>> /\ uids' \in Nat /\ edits' \in Nat
  <2>1. CASE Create(k, status)
    BY <1>1, <2>1 DEF WorldOK, Create
  <2>2. CASE Edit(k)
    <3>1. edits' = edits + 1 /\ UNCHANGED <<dbs, server, worker, uids, faults, clusters, drift>>
      BY <2>2 DEF Edit
    <3>2. edits \in Nat /\ uids \in Nat
      BY <1>1 DEF WorldOK
    <3> QED
      BY <3>1, <3>2
  <2>3. CASE Delete(k)
    BY <1>1, <2>3 DEF WorldOK, Delete, budget
  <2> QED
    BY <2>1, <2>2, <2>3
<1>5. WorldOK(S)'
  BY <1>1, <1>3, <1>4 DEF WorldOK, dbs, server
<1>6. WorkerOK(S)'
  BY <1>1, <1>2, <1>4, EventKeys DEF WorkerOK, worker
<1> QED
  BY <1>4, <1>5, <1>6, Joined DEF server

\* Changes by hand on a server.
LEMMA HandStepTypes ==
  ASSUME NEW S, DependentTypeOK(S),
         (\E c \in Clusters, n \in Names : HandDrop(c, n)) \/ Hold \/ LetGo
  PROVE  DependentTypeOK(S)' /\ UNCHANGED <<worker, api, dbs>>
<1>1. WorldOK(S) /\ WorkerOK(S)
  BY Halves
<1>2. UNCHANGED <<api, dbs, queued, worker, uids, edits, faults, clusters>>
      /\ held' \in BOOLEAN /\ drift' \in Nat
  <2>1. CASE \E c \in Clusters, n \in Names : HandDrop(c, n)
    BY <1>1, <2>1 DEF WorldOK, HandDrop
  <2>2. CASE Hold
    BY <1>1, <2>2 DEF WorldOK, Hold
  <2>3. CASE LetGo
    BY <1>1, <2>3 DEF WorldOK, LetGo, budget
  <2> QED
    BY <2>1, <2>2, <2>3
<1>3. WorldOK(S)'
  BY <1>1, <1>2 DEF WorldOK, api, dbs
<1>4. WorkerOK(S)'
  BY <1>1, <1>2 DEF WorkerOK, worker
<1> QED
  BY <1>2, <1>3, <1>4, Joined

\* Everything around a kind.
LEMMA SurroundingsTypes ==
  ASSUME NEW S, DependentTypeOK(S), S # {}, Surroundings
  PROVE  DependentTypeOK(S)' /\ UNCHANGED pc
<1>1. PICK status \in S : TRUE
  OBVIOUS
<1>2. ASSUME NEW k \in Keys, Deliver(k) \/ Edit(k) \/ Delete(k)
      PROVE  DependentTypeOK(S)' /\ UNCHANGED pc
  BY <1>1, <1>2, DeliverTypes, UserStepTypes DEF worker
<1>3. ASSUME NEW c \in Clusters,
             DeliverDb(c) \/ CreateDb(c) \/ Serve(c) \/ Outage(c) \/ DeleteDb(c) \/ RemoveDb(c)
      PROVE  DependentTypeOK(S)' /\ UNCHANGED pc
  BY <1>3, DeliverDbTypes, DbStepTypes
<1>4. ASSUME NEW c \in Clusters, NEW n \in Names, HandDrop(c, n)
      PROVE  DependentTypeOK(S)' /\ UNCHANGED pc
  BY <1>4, HandStepTypes DEF worker
<1> QED
  BY <1>2, <1>3, <1>4 DEF Surroundings

\* What is on the servers is of the kind's making, or gone.
LEMMA SurroundingRows ==
  ASSUME NEW R, rows \in [Clusters -> [Names -> Maybe(R)]], Surroundings
  PROVE  rows' \in [Clusters -> [Names -> Maybe(R)]]
<1>1. CASE UNCHANGED rows
  BY <1>1
<1>2. ASSUME NEW c \in Clusters, RemoveDb(c)
      PROVE  rows' \in [Clusters -> [Names -> Maybe(R)]]
  BY <1>2 DEF RemoveDb, Maybe
<1>3. ASSUME NEW c \in Clusters, NEW n \in Names, HandDrop(c, n)
      PROVE  rows' \in [Clusters -> [Names -> Maybe(R)]]
  <2>1. rows' = [rows EXCEPT ![c][n] = NoObj]
    BY <1>3 DEF HandDrop
  <2> QED
    BY <2>1 DEF Maybe
<1> QED
  BY <1>1, <1>2, <1>3
     DEF Surroundings, Deliver, Edit, Delete, DeliverDb, CreateDb, Serve, Outage, DeleteDb, server

\* So is what a statement writes.
LEMMA WithRows ==
  ASSUME NEW S, WorkerOK(S), pc # "idle", NEW R, NEW row \in Maybe(R),
         rows \in [Clusters -> [Names -> Maybe(R)]]
  PROVE  With(row) \in [Clusters -> [Names -> Maybe(R)]]
<1>1. Home \in Clusters /\ Name \in Names
  BY SeenTypes
<1> QED
  BY <1>1 DEF With

(***************************************************************************)
(* Copies.  The cache and the reconcile hold copies of objects that may be *)
(* out of date, or of objects that are gone.                               *)
(***************************************************************************)
\* No edit changes where the row of an object is.
EditsKeepHome ==
  MaxEdits = 0 \/ \A s, t \in Specs : MayEdit(s, t) => s.cluster = t.cluster /\ s.name = t.name

\* No edit changes whether an object needs a Secret, for the kinds that may.
EditsKeepSecret == MaxEdits = 0 \/ \A s, t \in Specs : MayEdit(s, t) => s.secret = t.secret

\* Objects of different names have different rows.
OwnRows ==
  \A k, j \in Keys, s, t \in Specs :
    s.cluster = t.cluster /\ NameOf(k, s) = NameOf(j, t) => k = j

\* o is the object that c was a version of.
Evolves(c, o) ==
  /\ c.uid = o.uid
  /\ c.gen <= o.gen
  /\ c.gen = o.gen => c.spec = o.spec /\ c.deleting = o.deleting
  /\ c.deleting => o.deleting
  /\ c.finalizer => o.finalizer
  /\ EditsKeepHome => c.spec.cluster = o.spec.cluster /\ c.spec.name = o.spec.name
  /\ EditsKeepSecret => c.spec.secret = o.spec.secret

\* c is a copy of an object that had the key of o: of o, or of one before it, when
\* n objects have been created.  A live object with a finalizer cannot have gone
\* unnoticed.
Copy(c, o, n) ==
  c # NoObj =>
    /\ c.uid <= n
    /\ c.deleting => c.finalizer
    /\ o # NoObj => c.uid <= o.uid
    /\ o # NoObj /\ o.uid = c.uid => Evolves(c, o)
    /\ c.finalizer /\ ~c.deleting => o # NoObj /\ o.uid = c.uid

\* The cache is not behind the copy in hand.
NotBehind(c, s) ==
  c # NoObj => /\ s.uid <= c.uid
               /\ s.uid = c.uid => s.gen <= c.gen /\ (s.deleting => c.deleting)

\* Every copy is one; a uid stands for one object; and the cache is never behind
\* the running reconcile.
CopiesInv ==
  /\ \A k \in Keys : Copy(obj[k], obj[k], uids) /\ Copy(cache[k], obj[k], uids)
  /\ \A k, j \in Keys : obj[k] # NoObj /\ obj[j] # NoObj /\ obj[k].uid = obj[j].uid => k = j
  /\ pc # "idle" => Copy(seen, obj[key], uids) /\ NotBehind(cache[key], seen)

\* A step that keeps the objects with a finalizer but those of `gone`, and in which
\* the cache only follows the API server.
CopiesKeptBut(gone) ==
  /\ CopiesInv'
  /\ \A k \in Keys \ gone : obj[k] # NoObj /\ obj[k].finalizer
                              => obj'[k] # NoObj /\ Evolves(obj[k], obj'[k])
  /\ \A k \in Keys : cache'[k] \in {cache[k], obj'[k]}

\* Every step but the removal of a finalizer.
CopiesKept == CopiesKeptBut({})

\* An object is a version of itself.
LEMMA EvolvesSelf ==
  ASSUME NEW S, NEW o \in Objects(S)
  PROVE  Evolves(o, o)
BY DEF Evolves, Objects

\* Versions of versions are versions.
LEMMA EvolvesTransitive ==
  ASSUME NEW S, NEW a \in Objects(S), NEW b \in Objects(S), NEW c \in Objects(S),
         Evolves(a, b), Evolves(b, c)
  PROVE  Evolves(a, c)
<1>1. a.gen \in Nat /\ b.gen \in Nat /\ c.gen \in Nat
  BY DEF Objects
<1> QED
  BY <1>1 DEF Evolves

\* A copy remains one while its object evolves ...
LEMMA CopyEvolves ==
  ASSUME NEW S, NEW c \in Maybe(Objects(S)), NEW o \in Objects(S), NEW new \in Objects(S),
         NEW n, o # NoObj, new # NoObj, Copy(c, o, n), Evolves(o, new)
  PROVE  Copy(c, new, n)
<1>1. CASE c = NoObj
  BY <1>1 DEF Copy
<1>2. CASE c \in Objects(S)
  BY <1>2, EvolvesTransitive DEF Copy, Evolves
<1> QED
  BY <1>1, <1>2 DEF Maybe

\* ... when the object is followed by a new one ...
LEMMA CopyFollowed ==
  ASSUME NEW S, NEW c \in Maybe(Objects(S)), NEW new \in Objects(S), NEW n \in Nat,
         Copy(c, NoObj, n), new.uid = n + 1
  PROVE  Copy(c, new, n + 1)
<1>1. CASE c = NoObj
  BY <1>1 DEF Copy
<1>2. CASE c \in Objects(S) /\ c # NoObj
  <2>1. c.uid \in Nat /\ c.uid <= n
    BY <1>2 DEF Copy, Objects
  <2> QED
    BY <1>2, <2>1 DEF Copy
<1> QED
  BY <1>1, <1>2 DEF Maybe

\* ... and when it is removed, unless the copy is of a live one with a finalizer.
LEMMA CopyRemoved ==
  ASSUME NEW c, NEW o, NEW n, Copy(c, o, n), c # NoObj /\ c.finalizer => c.deleting
  PROVE  Copy(c, NoObj, n)
BY DEF Copy

\* An object is a copy of itself.
LEMMA CopySelf ==
  ASSUME NEW S, NEW o \in Objects(S), NEW n, o.uid <= n, o.deleting => o.finalizer
  PROVE  Copy(o, o, n)
<1>1. Evolves(o, o) /\ o.uid <= o.uid
  BY EvolvesSelf DEF Objects
<1> QED
  BY <1>1 DEF Copy

\* What a copy is a copy of is not behind it.
LEMMA CopyNotBehind ==
  ASSUME NEW s, NEW o, NEW n, s # NoObj, Copy(s, o, n)
  PROVE  NotBehind(o, s)
BY DEF Copy, Evolves, NotBehind

\* Initially there are none.
LEMMA InitCopies ==
  ASSUME DependentInit
  PROVE  CopiesInv
BY DEF DependentInit, CopiesInv, Copy

\* Steps that write no object, and end or go on with the reconcile.
LEMMA QuietCopies ==
  ASSUME NEW S, DependentTypeOK(S), CopiesInv, UNCHANGED <<api, uids>>,
         pc' = "idle" \/ (pc # "idle" /\ UNCHANGED <<key, seen>>) \/ UNCHANGED <<pc, key, seen>>
  PROVE  CopiesKept
<1>1. /\ \A k \in Keys : Copy(obj'[k], obj'[k], uids') /\ Copy(cache'[k], obj'[k], uids')
      /\ \A k, j \in Keys : obj'[k] # NoObj /\ obj'[j] # NoObj /\ obj'[k].uid = obj'[j].uid => k = j
  BY DEF CopiesInv, api
<1>2. pc' # "idle" => Copy(seen', obj'[key'], uids') /\ NotBehind(cache'[key'], seen')
  BY DEF CopiesInv, api
<1>3. CopiesInv'
  BY <1>1, <1>2 DEF CopiesInv
<1>4. ASSUME NEW k \in Keys, obj[k] # NoObj
      PROVE  Evolves(obj[k], obj'[k])
  BY <1>4, EvolvesSelf DEF DependentTypeOK, Maybe, api
<1> QED
  BY <1>3, <1>4 DEF CopiesKept, CopiesKeptBut, api

\* Reading a copy from the cache.
LEMMA BeginCopies ==
  ASSUME NEW S, DependentTypeOK(S), CopiesInv, NEW k \in Keys, NEW apply, Begin(k, apply)
  PROVE  CopiesKept
<1>1. UNCHANGED <<api, uids>>
  BY DEF Begin, api, budget
<1>2. CASE UNCHANGED worker
  BY <1>1, <1>2, QuietCopies DEF worker
<1>3. CASE ~UNCHANGED worker
  <2>1. key' = k /\ seen' = cache[k] /\ cache[k] # NoObj
    BY <1>3 DEF Begin
  <2>2. cache[k] \in Objects(S)
    BY <2>1 DEF DependentTypeOK, Maybe
  <2>3. NotBehind(cache[k], cache[k])
    BY <2>2 DEF NotBehind, Objects
  <2>4. CopiesInv'
    BY <1>1, <2>1, <2>3 DEF CopiesInv, api
  <2>5. ASSUME NEW j \in Keys, obj[j] # NoObj
        PROVE  Evolves(obj[j], obj'[j])
    BY <1>1, <2>5, EvolvesSelf DEF DependentTypeOK, Maybe, api
  <2> QED
    BY <1>1, <2>4, <2>5 DEF CopiesKept, CopiesKeptBut, api
<1> QED
  BY <1>2, <1>3

\* A write that makes o of obj[k] keeps all copies, if it keeps those of obj[k].
LEMMA PutCopies ==
  ASSUME NEW S, StatusSet(S), DependentTypeOK(S), CopiesInv,
         NEW k \in Keys, NEW o \in Maybe(Objects(S)),
         Put(k, o), uids <= uids', uids' \in Nat,
         Copy(o, o, uids'), Copy(cache[k], o, uids'),
         o # NoObj => \A j \in Keys \ {k} : obj[j] # NoObj => obj[j].uid # o.uid,
         \/ pc' = "idle"
         \/ /\ UNCHANGED <<pc, key, seen>>
            /\ pc # "idle" /\ key = k => Copy(seen, o, uids')
  PROVE  /\ CopiesInv'
         /\ \A j \in Keys : cache'[j] \in {cache[j], obj'[j]}
         /\ \A j \in Keys \ {k} : obj[j] # NoObj => obj'[j] # NoObj /\ Evolves(obj[j], obj'[j])
         /\ obj'[k] = o
<1>1. /\ obj' = [obj EXCEPT ![k] = o] /\ cache' \in {cache, [cache EXCEPT ![k] = o]}
      /\ obj \in [Keys -> Maybe(Objects(S))] /\ cache \in [Keys -> Maybe(Objects(S))]
      /\ uids \in Nat
  BY DEF Put, DependentTypeOK
<1>2. ASSUME NEW c \in Maybe(Objects(S)), NEW p, Copy(c, p, uids)
      PROVE  Copy(c, p, uids')
  <2>1. CASE c = NoObj
    BY <2>1 DEF Copy
  <2>2. CASE c \in Objects(S)
    <3>1. c.uid \in Nat
      BY <2>2 DEF Objects
    <3> QED
      BY <1>1, <1>2, <3>1 DEF Copy
  <2> QED
    BY <2>1, <2>2 DEF Maybe
<1>3. ASSUME NEW j \in Keys
      PROVE  Copy(obj'[j], obj'[j], uids') /\ Copy(cache'[j], obj'[j], uids')
  <2>1. CASE j = k
    BY <1>1, <2>1
  <2>2. CASE j # k
    <3>1. obj'[j] = obj[j] /\ cache'[j] = cache[j]
      BY <1>1, <2>2
    <3>2. Copy(obj[j], obj[j], uids) /\ Copy(cache[j], obj[j], uids)
      BY DEF CopiesInv
    <3> QED
      BY <1>1, <1>2, <3>1, <3>2
  <2> QED
    BY <2>1, <2>2
<1>4. ASSUME NEW i \in Keys, NEW j \in Keys, obj'[i] # NoObj, obj'[j] # NoObj,
             obj'[i].uid = obj'[j].uid
      PROVE  i = j
  <2>1. \A m \in Keys : obj'[m] = IF m = k THEN o ELSE obj[m]
    BY <1>1
  <2> QED
    BY <1>4, <2>1 DEF CopiesInv
<1>5. ASSUME pc' # "idle"
      PROVE  Copy(seen', obj'[key'], uids') /\ NotBehind(cache'[key'], seen')
  <2>1. UNCHANGED <<pc, key, seen>> /\ pc # "idle"
    BY <1>5
  <2>2. key \in Keys /\ seen \in Objects(S)
    BY <2>1, Halves, SeenTypes
  <2>3. Copy(seen, obj[key], uids) /\ NotBehind(cache[key], seen)
    BY <2>1 DEF CopiesInv
  <2>4. CASE key # k
    <3>1. obj'[key] = obj[key] /\ cache'[key] = cache[key]
      BY <1>1, <2>2, <2>4
    <3> QED
      BY <1>2, <2>1, <2>2, <2>3, <3>1 DEF Maybe
  <2>5. CASE key = k
    <3>1. obj'[key] = o /\ cache'[key] \in {cache[key], o}
      BY <1>1, <2>2, <2>5
    <3>2. Copy(seen, o, uids')
      BY <1>5, <2>1, <2>5
    <3>3. NotBehind(o, seen)
      <4>1. seen # NoObj
        BY <2>2 DEF StatusSet
      <4> QED
        BY <3>2, <4>1, CopyNotBehind
    <3> QED
      BY <2>1, <2>3, <3>1, <3>2, <3>3
  <2> QED
    BY <2>4, <2>5
<1>6. CopiesInv'
  BY <1>3, <1>4, <1>5 DEF CopiesInv
<1>7. ASSUME NEW j \in Keys \ {k}, obj[j] # NoObj
      PROVE  obj'[j] # NoObj /\ Evolves(obj[j], obj'[j])
  BY <1>1, <1>7, EvolvesSelf DEF Maybe
<1> QED
  BY <1>1, <1>6, <1>7

\* A write that makes a new version of obj[k].
LEMMA VersionCopies ==
  ASSUME NEW S, StatusSet(S), DependentTypeOK(S), CopiesInv, NEW k \in Keys, NEW o \in Objects(S),
         obj[k] # NoObj, Evolves(obj[k], o), o.deleting => o.finalizer,
         Put(k, o), UNCHANGED uids, pc' = "idle" \/ UNCHANGED <<pc, key, seen>>
  PROVE  CopiesKept
<1>1. obj[k] \in Objects(S) /\ uids \in Nat /\ o # NoObj /\ cache[k] \in Maybe(Objects(S))
  BY DEF DependentTypeOK, StatusSet, Maybe
<1>2. obj[k].uid = o.uid /\ o.uid <= uids
  BY <1>1 DEF Evolves, CopiesInv, Copy
<1>3. Copy(o, o, uids)
  BY <1>2, CopySelf
<1>4. Copy(cache[k], o, uids)
  BY <1>1, CopyEvolves DEF CopiesInv
<1>5. \A j \in Keys \ {k} : obj[j] # NoObj => obj[j].uid # o.uid
  BY <1>2 DEF CopiesInv
<1>6. pc # "idle" /\ key = k => Copy(seen, o, uids)
  BY <1>1, CopyEvolves, Halves, SeenTypes DEF CopiesInv, Maybe
<1>7. uids <= uids' /\ uids' \in Nat /\ uids' = uids
  BY <1>1
<1>8. /\ CopiesInv' /\ obj'[k] = o
      /\ \A j \in Keys : cache'[j] \in {cache[j], obj'[j]}
      /\ \A j \in Keys \ {k} : obj[j] # NoObj => obj'[j] # NoObj /\ Evolves(obj[j], obj'[j])
  BY <1>3, <1>4, <1>5, <1>6, <1>7, PutCopies DEF Maybe
<1> QED
  BY <1>1, <1>8 DEF CopiesKept, CopiesKeptBut

\* A write that removes obj[k].
LEMMA RemovedCopies ==
  ASSUME NEW S, StatusSet(S), DependentTypeOK(S), CopiesInv, NEW k \in Keys,
         cache[k] # NoObj /\ cache[k].finalizer => cache[k].deleting,
         Put(k, NoObj), UNCHANGED uids,
         \/ pc' = "idle"
         \/ /\ UNCHANGED <<pc, key, seen>>
            /\ pc # "idle" /\ key = k /\ seen.finalizer => seen.deleting
  PROVE  /\ CopiesKeptBut({k}) /\ obj'[k] = NoObj
         /\ (obj[k] # NoObj /\ obj[k].finalizer) \/ CopiesKept
<1>1. uids <= uids' /\ uids' \in Nat /\ uids' = uids
  BY DEF DependentTypeOK
<1>2. Copy(NoObj, NoObj, uids)
  BY DEF Copy
<1>3. Copy(cache[k], NoObj, uids)
  BY CopyRemoved DEF CopiesInv
<1>4. \/ pc' = "idle"
      \/ UNCHANGED <<pc, key, seen>> /\ (pc # "idle" /\ key = k => Copy(seen, NoObj, uids))
  BY CopyRemoved DEF CopiesInv
<1>5. /\ CopiesInv' /\ obj'[k] = NoObj
      /\ \A j \in Keys : cache'[j] \in {cache[j], obj'[j]}
      /\ \A j \in Keys \ {k} : obj[j] # NoObj => obj'[j] # NoObj /\ Evolves(obj[j], obj'[j])
  BY <1>1, <1>2, <1>3, <1>4, PutCopies DEF Maybe
<1> QED
  BY <1>5 DEF CopiesKept, CopiesKeptBut

\* The finalizer goes on an object that is the one in hand.
LEMMA ensureFinalizerCopies ==
  ASSUME NEW S, StatusSet(S), DependentTypeOK(S), CopiesInv, ensureFinalizer
  PROVE  CopiesKept
<1> DEFINE o == [seen EXCEPT !.finalizer = TRUE]
<1>1. pc # "idle" /\ key \in Keys /\ seen \in Objects(S) /\ seen # NoObj
  BY Halves, SeenTypes DEF ensureFinalizer, StatusSet
<1>2. o \in Objects(S) /\ o.finalizer /\ seen.gen \in Nat
      /\ o.uid = seen.uid /\ o.gen = seen.gen /\ o.spec = seen.spec /\ o.deleting = seen.deleting
  BY <1>1 DEF Objects
<1>3. UNCHANGED uids /\ pc' = "idle"
      /\ (UNCHANGED api \/ (obj[key] = seen /\ Put(key, o)))
  BY ensureFinalizerTypes DEF ensureFinalizer, Update
<1> HIDE DEF o
<1>4. Evolves(seen, o)
  BY <1>2 DEF Evolves
<1>5. CASE UNCHANGED api
  BY <1>3, <1>5, QuietCopies
<1>6. CASE obj[key] = seen /\ Put(key, o)
  BY <1>1, <1>2, <1>3, <1>4, <1>6, VersionCopies
<1> QED
  BY <1>3, <1>5, <1>6

\* The finalizer goes off an object that is the one in hand, which is being deleted.
LEMMA removeFinalizerCopies ==
  ASSUME NEW S, StatusSet(S), DependentTypeOK(S), CopiesInv, seen.deleting, removeFinalizer
  PROVE  \/ CopiesKept
         \/ CopiesKeptBut({key}) /\ obj[key] = seen /\ obj'[key] = NoObj
<1>1. pc # "idle" /\ key \in Keys /\ seen \in Objects(S) /\ seen # NoObj
  BY Halves, SeenTypes DEF removeFinalizer, StatusSet
<1>2. UNCHANGED uids /\ pc' = "idle"
      /\ (UNCHANGED api \/ (obj[key] = seen /\ Put(key, NoObj)))
  BY removeFinalizerTypes DEF removeFinalizer, Update
<1>3. CASE UNCHANGED api
  BY <1>2, <1>3, QuietCopies
<1>4. CASE obj[key] = seen /\ Put(key, NoObj)
  <2>1. cache[key] # NoObj /\ cache[key].finalizer => cache[key].deleting
    BY <1>1, <1>4 DEF CopiesInv, Copy, NotBehind
  <2> QED
    BY <1>1, <1>2, <1>4, <2>1, RemovedCopies
<1> QED
  BY <1>2, <1>3, <1>4

\* A status patch leaves everything else of an object alone.
LEMMA PatchedEvolves ==
  ASSUME NEW S, NEW o \in Objects(S)
  PROVE  /\ Evolves(o, Patched(o)) /\ Patched(o).deleting = o.deleting
         /\ Patched(o).finalizer = o.finalizer /\ Patched(o).spec = o.spec
         /\ Patched(o).gen = o.gen /\ Patched(o).uid = o.uid
<1> DEFINE st == [f \in DOMAIN next |-> IF next[f] # seen.status[f] THEN next[f] ELSE o.status[f]]
<1>1. Patched(o) = [o EXCEPT !.status = st]
  BY DEF Patched
<1> HIDE DEF st
<1>2. o.gen \in Nat
  BY DEF Objects
<1> QED
  BY <1>1, <1>2 DEF Objects, Evolves

\* The status goes to whatever object has the key.
LEMMA PatchStatusCopies ==
  ASSUME NEW S, StatusSet(S), DependentTypeOK(S), CopiesInv, PatchStatus
  PROVE  CopiesKept
<1>1. pc # "idle" /\ key \in Keys
  BY Halves, SeenTypes DEF PatchStatus
<1>2. UNCHANGED uids /\ pc' = "idle"
      /\ (UNCHANGED api \/ (obj[key] # NoObj /\ Put(key, Patched(obj[key]))))
  BY PatchStatusTypes DEF PatchStatus
<1>3. CASE UNCHANGED api
  BY <1>2, <1>3, QuietCopies
<1>4. CASE obj[key] # NoObj /\ Put(key, Patched(obj[key]))
  <2>1. obj[key] \in Objects(S)
    BY <1>1, <1>4 DEF DependentTypeOK, Maybe
  <2>2. Patched(obj[key]) \in Objects(S)
    BY <1>1, <2>1, PatchedTypes, Halves
  <2>3. /\ Evolves(obj[key], Patched(obj[key]))
        /\ Patched(obj[key]).deleting => Patched(obj[key]).finalizer
    BY <1>1, <1>4, <2>1, PatchedEvolves DEF CopiesInv, Copy
  <2> QED
    BY <1>1, <1>2, <1>4, <2>2, <2>3, VersionCopies
<1> QED
  BY <1>2, <1>3, <1>4

\* A restart takes fresh copies.
LEMMA RestartCopies ==
  ASSUME NEW S, DependentTypeOK(S), CopiesInv, Restart
  PROVE  CopiesKept
<1>1. UNCHANGED <<obj, uids>> /\ cache' = obj /\ pc' = "idle"
  BY DEF Restart, Idle
<1>2. ASSUME NEW k \in Keys, obj[k] # NoObj
      PROVE  Evolves(obj[k], obj'[k])
  BY <1>1, <1>2, EvolvesSelf DEF DependentTypeOK, Maybe
<1> QED
  BY <1>1, <1>2 DEF CopiesInv, CopiesKept, CopiesKeptBut

\* So does an informer, and it never takes the cache behind the reconcile.
LEMMA DeliverCopies ==
  ASSUME NEW S, StatusSet(S), DependentTypeOK(S), CopiesInv, NEW k \in Keys, Deliver(k)
  PROVE  CopiesKept
<1>1. UNCHANGED <<obj, uids, pc, key, seen>> /\ cache' = [cache EXCEPT ![k] = obj[k]]
  BY DEF Deliver, worker, budget
<1>2. ASSUME NEW j \in Keys
      PROVE  cache'[j] = cache[j] \/ cache'[j] = obj[j]
  BY <1>1 DEF DependentTypeOK
<1>3. ASSUME pc # "idle"
      PROVE  NotBehind(cache'[key], seen)
  <2>1. key \in Keys /\ seen # NoObj /\ Copy(seen, obj[key], uids) /\ NotBehind(cache[key], seen)
    BY <1>3, Halves, SeenTypes DEF StatusSet, CopiesInv
  <2> QED
    BY <1>2, <2>1, CopyNotBehind
<1>4. ASSUME NEW j \in Keys, obj[j] # NoObj
      PROVE  Evolves(obj[j], obj'[j])
  BY <1>1, <1>4, EvolvesSelf DEF DependentTypeOK, Maybe
<1>5. CopiesInv'
  BY <1>1, <1>2, <1>3 DEF CopiesInv
<1> QED
  BY <1>1, <1>2, <1>4, <1>5 DEF CopiesKept, CopiesKeptBut

\* Users: a new object has a new uid, an edit keeps the finalizer, and only the
\* operator removes an object that has one.
LEMMA UserStepCopies ==
  ASSUME NEW S, StatusSet(S), DependentTypeOK(S), CopiesInv, NEW k \in Keys, NEW status \in S,
         Create(k, status) \/ Edit(k) \/ Delete(k)
  PROVE  CopiesKept
<1>1. UNCHANGED <<pc, key, seen>> /\ uids \in Nat /\ obj[k] \in Maybe(Objects(S))
      /\ cache[k] \in Maybe(Objects(S))
  BY UserStepTypes DEF worker, DependentTypeOK
<1>2. CASE Create(k, status)
  <2>1. PICK s \in Specs :
          Put(k, [uid |-> uids + 1, gen |-> 1, spec |-> s, finalizer |-> FALSE,
                  deleting |-> FALSE, status |-> status])
    BY <1>2 DEF Create
  <2> DEFINE o == [uid |-> uids + 1, gen |-> 1, spec |-> s, finalizer |-> FALSE,
                   deleting |-> FALSE, status |-> status]
  <2>2. obj[k] = NoObj /\ uids' = uids + 1
    BY <1>2 DEF Create
  <2>3. o \in Objects(S) /\ o.uid = uids + 1 /\ ~o.deleting
    BY <1>1 DEF Objects
  <2>4. Put(k, o)
    BY <2>1
  <2> HIDE DEF o
  <2>5. Copy(o, o, uids')
    BY <1>1, <2>2, <2>3, CopySelf
  <2>6. Copy(cache[k], o, uids')
    BY <1>1, <2>2, <2>3, CopyFollowed DEF CopiesInv
  <2>7. ASSUME NEW j \in Keys \ {k}, obj[j] # NoObj
        PROVE  obj[j].uid # o.uid
    <3>1. obj[j] \in Objects(S)
      BY <2>7 DEF DependentTypeOK, Maybe
    <3>2. obj[j].uid \in Nat /\ obj[j].uid <= uids
      BY <2>7, <3>1, ObjectTypes DEF CopiesInv, Copy
    <3> QED
      BY <1>1, <2>3, <3>2
  <2>8. pc # "idle" /\ key = k => Copy(seen, o, uids')
    BY <1>1, <2>2, <2>3, CopyFollowed, Halves, SeenTypes DEF CopiesInv, Maybe
  <2>9. uids <= uids' /\ uids' \in Nat
    BY <1>1, <2>2
  <2>10. /\ CopiesInv'
         /\ \A j \in Keys : cache'[j] \in {cache[j], obj'[j]}
         /\ \A j \in Keys \ {k} : obj[j] # NoObj => obj'[j] # NoObj /\ Evolves(obj[j], obj'[j])
    BY <1>1, <2>3, <2>4, <2>5, <2>6, <2>7, <2>8, <2>9, PutCopies DEF Maybe
  <2> QED
    BY <2>2, <2>10 DEF CopiesKept, CopiesKeptBut
<1>3. CASE Edit(k)
  <2>1. PICK s \in Specs :
          MayEdit(obj[k].spec, s) /\ Put(k, [obj[k] EXCEPT !.spec = s, !.gen = @ + 1])
    BY <1>3 DEF Edit
  <2> DEFINE o == [obj[k] EXCEPT !.spec = s, !.gen = @ + 1]
  <2>2. obj[k] # NoObj /\ obj[k] \in Objects(S) /\ UNCHANGED uids /\ MaxEdits # 0
    <3>1. obj[k] # NoObj /\ UNCHANGED uids /\ edits < MaxEdits
      BY <1>3 DEF Edit
    <3>2. edits \in Nat /\ MaxEdits \in Nat
      BY DependentAssumption DEF DependentTypeOK
    <3> QED
      BY <1>1, <3>1, <3>2 DEF Maybe
  <2>3. o \in Objects(S)
    BY <2>2, ObjectFields
  <2>4. /\ o.uid = obj[k].uid /\ o.gen = obj[k].gen + 1 /\ o.deleting = obj[k].deleting
        /\ o.finalizer = obj[k].finalizer /\ o.spec = s /\ obj[k].gen \in Nat
        /\ obj[k].spec \in Specs
    BY <2>2 DEF Objects
  <2>5. Put(k, o)
    BY <2>1
  <2> HIDE DEF o
  <2>6. Evolves(obj[k], o)
    BY <2>1, <2>2, <2>4 DEF Evolves, EditsKeepHome, EditsKeepSecret
  <2>7. o.deleting => o.finalizer
    BY <2>2, <2>4 DEF CopiesInv, Copy
  <2> QED
    BY <1>1, <2>2, <2>3, <2>5, <2>6, <2>7, VersionCopies
<1>4. CASE Delete(k)
  <2>1. obj[k] # NoObj /\ obj[k] \in Objects(S) /\ UNCHANGED uids /\ ~obj[k].deleting
    BY <1>1, <1>4 DEF Delete, Maybe, budget
  <2>2. CASE obj[k].finalizer
    <3> DEFINE o == [obj[k] EXCEPT !.deleting = TRUE, !.gen = @ + 1]
    <3>1. Put(k, o)
      BY <1>4, <2>2 DEF Delete
    <3>2. o \in Objects(S)
      BY <2>1, ObjectFields, ObjectTypes
    <3>3. /\ o.uid = obj[k].uid /\ o.gen = obj[k].gen + 1 /\ o.deleting
          /\ o.finalizer = obj[k].finalizer /\ o.spec = obj[k].spec /\ obj[k].gen \in Nat
      BY <2>1 DEF Objects
    <3> HIDE DEF o
    <3>4. obj[k].gen <= o.gen /\ obj[k].gen # o.gen
      BY <3>3
    <3>5. Evolves(obj[k], o)
      BY <2>1, <3>3, <3>4, Zenon DEF Evolves
    <3> QED
      BY <1>1, <2>1, <2>2, <3>1, <3>2, <3>3, <3>5, VersionCopies
  <2>3. CASE ~obj[k].finalizer
    <3>1. Put(k, NoObj)
      BY <1>4, <2>3 DEF Delete
    <3>2. cache[k] # NoObj /\ cache[k].finalizer => cache[k].deleting
      BY <2>1, <2>3 DEF CopiesInv, Copy, Evolves
    <3>3. pc # "idle" /\ key = k /\ seen.finalizer => seen.deleting
      BY <2>1, <2>3, Halves, SeenTypes DEF CopiesInv, Copy, Evolves, StatusSet
    <3> QED
      BY <1>1, <2>1, <2>3, <3>1, <3>2, <3>3, RemovedCopies, Zenon
  <2> QED
    BY <2>2, <2>3
<1> QED
  BY <1>2, <1>3, <1>4

(***************************************************************************)
(* Steps.  Which of them a reconcile takes depends on the copy it read.    *)
(***************************************************************************)
\* Steps of a deletion, of an apply, and those that need a SQL session.
DeletingSteps == {"finalize", "dropExists", "drop", "release"}
LiveSteps     == {"guard", "secret", "exists", "create", "alter", "members", "grant", "revoke",
                  "replace", "status"}
SessionSteps  == {"exists", "create", "alter", "members", "grant", "revoke", "replace",
                  "dropExists", "drop"}

\* A deletion is of an object that is being deleted, an apply is not, and neither
\* begins before the finalizer is on the object.
PathInv ==
  /\ pc \in DeletingSteps => seen.deleting
  /\ pc \in LiveSteps => ~seen.deleting
  /\ pc \notin {"idle", "guard"} => seen.finalizer

\* A reconcile that ends, or one that others do not disturb.
LEMMA KeptPath ==
  ASSUME PathInv, pc' = "idle" \/ UNCHANGED <<pc, seen>>
  PROVE  PathInv'
BY DEF PathInv, DeletingSteps, LiveSteps

\* A reconcile that begins.
LEMMA BeginPath ==
  ASSUME NEW S, DependentTypeOK(S), CopiesInv, PathInv, NEW k \in Keys,
         NEW apply \in {"connect", "secret"}, Begin(k, apply)
  PROVE  PathInv'
<1>1. CASE UNCHANGED worker
  BY <1>1, KeptPath DEF worker
<1>2. CASE ~UNCHANGED worker
  <2>1. /\ seen' = cache[k] /\ cache[k] # NoObj
        /\ pc' = IF cache[k].deleting THEN "finalize"
                 ELSE IF cache[k].finalizer THEN apply ELSE "guard"
    BY <1>2 DEF Begin
  <2>2. cache[k].deleting => cache[k].finalizer
    BY <2>1 DEF CopiesInv, Copy
  <2> QED
    BY <2>1, <2>2 DEF PathInv, DeletingSteps, LiveSteps
<1> QED
  BY <1>1, <1>2

\* A reconcile that goes on to another step.
LEMMA GotoPath ==
  ASSUME PathInv, pc \notin {"idle", "guard"}, UNCHANGED seen,
         pc' \in DeletingSteps => seen.deleting, pc' \in LiveSteps => ~seen.deleting
  PROVE  PathInv'
BY DEF PathInv

\* A reconcile that something stops.
LEMMA BlockedPath ==
  ASSUME NEW S, StatusSet(S), DependentTypeOK(S), PathInv, pc \notin {"idle", "guard"},
         NEW reason, Blocked(reason)
  PROVE  PathInv'
<1>1. seen.deleting \in BOOLEAN
  BY Halves, SeenTypes
<1>2. CASE seen.deleting
  BY <1>2, KeptPath DEF Blocked, Again, Idle
<1>3. CASE ~seen.deleting
  BY <1>3, GotoPath DEF Blocked, Finish, DeletingSteps
<1> QED
  BY <1>1, <1>2, <1>3

\* A statement that succeeds or fails.
LEMMA ExecPath ==
  ASSUME NEW S, StatusSet(S), DependentTypeOK(S), PathInv, pc \notin {"idle", "guard"},
         NEW new, NEW step, Exec(new, Goto(step)),
         step \in DeletingSteps => seen.deleting, step \in LiveSteps => ~seen.deleting
  PROVE  PathInv'
<1>1. CASE Goto(step)
  BY <1>1, GotoPath DEF Goto
<1>2. CASE Error
  BY <1>2, BlockedPath DEF Error
<1> QED
  BY <1>1, <1>2 DEF Exec

\* The steps the kinds share.
LEMMA SharedPath ==
  ASSUME NEW S, StatusSet(S), DependentTypeOK(S), PathInv,
         NEW wanted, NEW apply \in LiveSteps,
         \/ ensureFinalizer \/ finalize(wanted) \/ dropExists \/ drop \/ removeFinalizer
         \/ openSession(IF seen.deleting THEN "dropExists" ELSE apply)
         \/ PatchStatus \/ Restart
  PROVE  PathInv'
<1>1. CASE ensureFinalizer \/ removeFinalizer \/ PatchStatus \/ Restart
  BY <1>1, ensureFinalizerTypes, removeFinalizerTypes, PatchStatusTypes, RestartTypes, KeptPath
<1>2. CASE finalize(wanted)
  BY <1>2, GotoPath DEF finalize, Goto, PathInv, DeletingSteps, LiveSteps
<1>3. CASE openSession(IF seen.deleting THEN "dropExists" ELSE apply)
  <2>1. pc = "connect"
    BY <1>3 DEF openSession
  <2>2. CASE UNCHANGED seen /\ pc' = IF seen.deleting THEN "dropExists" ELSE apply
    BY <2>1, <2>2, GotoPath DEF DeletingSteps, LiveSteps
  <2>3. ASSUME NEW reason, Blocked(reason)
        PROVE  PathInv'
    BY <2>1, <2>3, BlockedPath
  <2> QED
    BY <1>3, <2>2, <2>3 DEF openSession
<1>4. CASE dropExists
  <2>1. pc = "dropExists" /\ seen.deleting
    BY <1>4 DEF dropExists, PathInv, DeletingSteps
  <2>2. CASE Refused
    BY <2>1, <2>2, BlockedPath DEF Refused, Error
  <2>3. ASSUME NEW step \in {"release", "drop"}, Exec(rows, Goto(step))
        PROVE  PathInv'
    BY <2>1, <2>3, ExecPath DEF LiveSteps
  <2> QED
    BY <1>4, <2>2, <2>3 DEF dropExists, Query
<1>5. CASE drop
  <2>1. pc = "drop" /\ seen.deleting
    BY <1>5 DEF drop, PathInv, DeletingSteps
  <2>2. CASE Refused
    BY <2>1, <2>2, BlockedPath DEF Refused, Error
  <2>3. CASE Exec(With(NoObj), Goto("release"))
    BY <2>1, <2>3, ExecPath DEF LiveSteps
  <2> QED
    BY <1>5, <2>2, <2>3 DEF drop
<1> QED
  BY <1>1, <1>2, <1>3, <1>4, <1>5

\* Failing reads.
LEMMA GetFailsPath ==
  ASSUME NEW S, StatusSet(S), DependentTypeOK(S), PathInv, NEW steps,
         steps \cap {"idle", "guard"} = {}, GetFails(steps)
  PROVE  PathInv'
BY BlockedPath DEF GetFails, Error

(***************************************************************************)
(* SereneDBs, when the name of a SereneDB is used once.  A second SereneDB *)
(* of the name may have the volume of the first, whose rows it then keeps. *)
(***************************************************************************)
\* The operator has seen the SereneDB c, or it has been and gone.
Known(c) == dbCache[c] # NoObj \/ (clusters[c] = 1 /\ db[c] = NoObj)

\* What clusterGone sees is so, and for good.
CacheGone(c) == Known(c) /\ (dbCache[c] = NoObj \/ dbCache[c].deleting)

\* No name is used twice, and a deletion in the cache is one.
DbOK ==
  \A c \in Clusters :
    /\ clusters[c] <= 1
    /\ clusters[c] = 0 => db[c] = NoObj /\ dbCache[c] = NoObj
    /\ dbCache[c] # NoObj /\ dbCache[c].deleting => db[c] = NoObj \/ db[c].deleting

\* The operator knows the SereneDBs whose servers it has written to or talks to.
KnownInv ==
  /\ DbOK
  /\ \A c \in Clusters, n \in Names : rows[c][n] # NoObj => Known(c)
  /\ pc \in SessionSteps => Known(Home)

\* A step that loses nothing that is known.
DbsKept ==
  /\ DbOK'
  /\ \A c \in Clusters : (Known(c) => Known(c)') /\ (CacheGone(c) => CacheGone(c)')

\* Steps that leave the SereneDBs alone.
LEMMA QuietDbs ==
  ASSUME DbOK, UNCHANGED <<dbs, clusters>>
  PROVE  DbsKept
BY DEF DbOK, DbsKept, Known, CacheGone, dbs

\* A cache that follows the API server, for the SereneDB c.
LEMMA FollowDbs ==
  ASSUME NEW S, DependentTypeOK(S), DbOK, NEW c \in Clusters, UNCHANGED <<db, clusters>>,
         dbCache'[c] = db[c]
  PROVE  /\ clusters'[c] <= 1
         /\ clusters'[c] = 0 => db'[c] = NoObj /\ dbCache'[c] = NoObj
         /\ dbCache'[c] # NoObj /\ dbCache'[c].deleting => db'[c] = NoObj \/ db'[c].deleting
         /\ Known(c) => Known(c)'
         /\ CacheGone(c) => CacheGone(c)'
<1>1. clusters[c] \in Nat
  BY DEF DependentTypeOK
<1> QED
  BY <1>1 DEF DbOK, Known, CacheGone

\* Steps of the SereneDBs and their informer.
LEMMA DbStepDbs ==
  ASSUME NEW S, DependentTypeOK(S), MaxClusters <= 1, DbOK, NEW c \in Clusters,
         DeliverDb(c) \/ CreateDb(c) \/ Serve(c) \/ Outage(c) \/ DeleteDb(c) \/ RemoveDb(c)
  PROVE  DbsKept
<1>1. /\ db \in [Clusters -> Maybe(DbObj)] /\ dbCache \in [Clusters -> Maybe(DbObj)]
      /\ clusters \in [Clusters -> Nat] /\ clusters[c] \in Nat /\ MaxClusters \in Nat
  BY DependentAssumption DEF DependentTypeOK
<1>2. SUFFICES ASSUME NEW d \in Clusters
      PROVE  /\ clusters'[d] <= 1
             /\ clusters'[d] = 0 => db'[d] = NoObj /\ dbCache'[d] = NoObj
             /\ dbCache'[d] # NoObj /\ dbCache'[d].deleting => db'[d] = NoObj \/ db'[d].deleting
             /\ Known(d) => Known(d)'
             /\ CacheGone(d) => CacheGone(d)'
  BY DEF DbOK, DbsKept
<1>3. CASE d # c
  <2>1. db'[d] = db[d] /\ dbCache'[d] = dbCache[d] /\ clusters'[d] = clusters[d]
    BY <1>1, <1>3 DEF DeliverDb, CreateDb, Serve, Outage, DeleteDb, RemoveDb, PutDb, budget
  <2> QED
    BY <2>1 DEF DbOK, Known, CacheGone
<1>4. CASE d = c /\ DeliverDb(c)
  <2>1. UNCHANGED <<db, clusters>> /\ dbCache'[c] = db[c]
    BY <1>1, <1>4 DEF DeliverDb, budget
  <2> QED
    BY <1>4, <2>1, FollowDbs
<1>5. CASE d = c /\ CreateDb(c)
  <2>1. clusters[c] = 0 /\ clusters'[c] = 1
    BY <1>1, <1>5 DEF CreateDb
  <2>2. /\ db'[c] = [ready |-> FALSE, deleting |-> FALSE]
        /\ dbCache'[c] \in {dbCache[c], db'[c]}
    BY <1>1, <1>5 DEF CreateDb, PutDb
  <2>3. db[c] = NoObj /\ dbCache[c] = NoObj
    BY <2>1 DEF DbOK
  <2> QED
    BY <1>5, <2>1, <2>2, <2>3 DEF Known, CacheGone
<1>6. ASSUME NEW new \in DbObj, d = c, PutDb(c, new), db[c] # NoObj, UNCHANGED clusters,
             db[c].deleting => new.deleting
      PROVE  /\ clusters'[d] <= 1
             /\ clusters'[d] = 0 => db'[d] = NoObj /\ dbCache'[d] = NoObj
             /\ dbCache'[d] # NoObj /\ dbCache'[d].deleting => db'[d] = NoObj \/ db'[d].deleting
             /\ Known(d) => Known(d)'
             /\ CacheGone(d) => CacheGone(d)'
  <2>1. db'[c] = new /\ dbCache'[c] \in {dbCache[c], new}
    BY <1>1, <1>6 DEF PutDb
  <2>2. new # NoObj
    BY <1>6, NoDbAssumption
  <2> QED
    BY <1>1, <1>6, <2>1, <2>2 DEF DbOK, Known, CacheGone
<1>7. CASE d = c /\ (Serve(c) \/ Outage(c) \/ (DeleteDb(c) /\ db'[c] # NoObj))
  <2>1. db[c] # NoObj /\ UNCHANGED clusters
    BY <1>7 DEF Serve, Outage, DeleteDb, budget
  <2>2. db[c] \in DbObj
    BY <1>1, <2>1 DEF Maybe
  <2>3. PICK new \in DbObj : PutDb(c, new) /\ (db[c].deleting => new.deleting)
    <3>1. CASE Serve(c)
      <4>1. PutDb(c, [db[c] EXCEPT !.ready = TRUE])
        BY <3>1 DEF Serve
      <4>2. [db[c] EXCEPT !.ready = TRUE] \in DbObj
            /\ [db[c] EXCEPT !.ready = TRUE].deleting = db[c].deleting
        BY <2>2 DEF DbObj
      <4> QED
        BY <4>1, <4>2
    <3>2. CASE Outage(c)
      <4>1. PICK ready \in BOOLEAN : PutDb(c, [db[c] EXCEPT !.ready = ready])
        BY <3>2 DEF Outage
      <4>2. [db[c] EXCEPT !.ready = ready] \in DbObj
            /\ [db[c] EXCEPT !.ready = ready].deleting = db[c].deleting
        BY <2>2 DEF DbObj
      <4> QED
        BY <4>1, <4>2
    <3>3. CASE DeleteDb(c) /\ db'[c] # NoObj
      <4>1. PutDb(c, [db[c] EXCEPT !.deleting = TRUE])
        BY <1>1, <3>3 DEF DeleteDb, PutDb
      <4>2. [db[c] EXCEPT !.deleting = TRUE] \in DbObj
            /\ [db[c] EXCEPT !.deleting = TRUE].deleting
        BY <2>2 DEF DbObj
      <4> QED
        BY <4>1, <4>2
    <3> QED
      BY <1>7, <3>1, <3>2, <3>3
  <2> QED
    BY <1>6, <1>7, <2>1, <2>3
<1>8. CASE d = c /\ (RemoveDb(c) \/ (DeleteDb(c) /\ db'[c] = NoObj))
  <2>1. db'[c] = NoObj /\ dbCache'[c] \in {dbCache[c], NoObj} /\ UNCHANGED clusters
    BY <1>1, <1>8 DEF RemoveDb, DeleteDb, PutDb, budget
  <2> QED
    BY <1>1, <1>8, <2>1 DEF DbOK, Known, CacheGone
<1> QED
  BY <1>3, <1>4, <1>5, <1>7, <1>8

\* A restart lists all SereneDBs.
LEMMA RestartDbs ==
  ASSUME NEW S, DependentTypeOK(S), DbOK, Restart
  PROVE  DbsKept
<1>1. UNCHANGED <<db, clusters>> /\ dbCache' = db
  BY DEF Restart
<1> QED
  BY <1>1, FollowDbs DEF DbOK, DbsKept

\* Initially there is nothing to know.
LEMMA InitKnown ==
  ASSUME DependentInit
  PROVE  KnownInv /\ PathInv
BY DEF DependentInit, KnownInv, DbOK, SessionSteps, PathInv, DeletingSteps, LiveSteps

\* A step keeps what is known if it adds no row and opens no session to a SereneDB
\* that the operator has not seen.
LEMMA KnownKept ==
  ASSUME KnownInv, DbsKept,
         \A c \in Clusters, n \in Names :
            rows'[c][n] # NoObj => rows[c][n] # NoObj \/ Known(c),
         pc' \in SessionSteps => pc \in SessionSteps \/ Known(Home),
         pc' \in SessionSteps => UNCHANGED seen /\ Home \in Clusters
  PROVE  KnownInv'
<1>1. \A c \in Clusters, n \in Names : rows'[c][n] # NoObj => Known(c)'
  BY DEF KnownInv, DbsKept
<1>2. ASSUME pc' \in SessionSteps
      PROVE  Known(Home)'
  <2>1. Home' = Home
    BY <1>2 DEF Home
  <2>2. Home \in Clusters /\ Known(Home)
    BY <1>2 DEF KnownInv
  <2>3. dbCache'[Home] # NoObj \/ (clusters'[Home] = 1 /\ db'[Home] = NoObj)
    BY <2>2 DEF DbsKept, Known
  <2> QED
    BY <2>1, <2>3 DEF Known
<1> QED
  BY <1>1, <1>2 DEF KnownInv, DbsKept

(***************************************************************************)
(* All together: what the shared steps and the surroundings leave alone.   *)
(***************************************************************************)
\* The invariant of the shared code.
SharedInv == CopiesInv /\ PathInv /\ KnownInv

\* A step that writes no row.
RowsLost == \A c \in Clusters, n \in Names : rows'[c][n] # NoObj => rows'[c][n] = rows[c][n]

\* A step that keeps the invariant, the objects with a finalizer but those of
\* `gone`, what is known of SereneDBs, and writes no row.
HarmlessBut(gone) == SharedInv' /\ CopiesKeptBut(gone) /\ DbsKept /\ RowsLost
Harmless          == HarmlessBut({})

\* The parts of a harmless step.
LEMMA HarmlessParts ==
  ASSUME CopiesKept, PathInv', KnownInv', DbsKept, RowsLost
  PROVE  Harmless
BY DEF Harmless, HarmlessBut, SharedInv, CopiesKept, CopiesKeptBut

\* A statement that loses or writes one row.
LEMMA WithEffect ==
  ASSUME NEW S, NEW R, DependentTypeOK(S), pc # "idle", NEW row,
         rows \in [Clusters -> [Names -> Maybe(R)]], rows' = With(row)
  PROVE  \A c \in Clusters, n \in Names :
           rows'[c][n] = IF c = Home /\ n = Name THEN row ELSE rows[c][n]
<1>1. Home \in Clusters /\ Name \in Names
  BY Halves, SeenTypes
<1> QED
  BY <1>1 DEF With

\* The surroundings and the users.
LEMMA SurroundingsHarmless ==
  ASSUME NEW S, NEW R, StatusSet(S), DependentTypeOK(S), MaxClusters <= 1, SharedInv,
         rows \in [Clusters -> [Names -> Maybe(R)]], NEW status \in S,
         Surroundings \/ (\E k \in Keys : Create(k, status)) \/ Hold \/ LetGo
  PROVE  Harmless /\ UNCHANGED <<pc, key, seen>>
<1>1. ASSUME CopiesKept, DbsKept, RowsLost, UNCHANGED <<pc, key, seen>>
      PROVE  Harmless
  <2>1. PathInv'
    BY <1>1, KeptPath DEF SharedInv
  <2>2. pc \in SessionSteps => Home \in Clusters
    BY Halves, SeenTypes DEF SessionSteps
  <2>3. KnownInv'
    BY <1>1, <2>2, KnownKept DEF SharedInv, RowsLost
  <2> QED
    BY <1>1, <2>1, <2>3, HarmlessParts
<1>2. ASSUME NEW k \in Keys, Create(k, status) \/ Edit(k) \/ Delete(k)
      PROVE  Harmless /\ UNCHANGED <<pc, key, seen>>
  <2>1. UNCHANGED <<worker, rows>> /\ CopiesKept
    BY <1>2, UserStepTypes, UserStepCopies DEF SharedInv
  <2>2. UNCHANGED <<dbs, clusters>>
    BY <1>2 DEF Create, Edit, Delete, budget
  <2> QED
    BY <1>1, <2>1, <2>2, QuietDbs DEF SharedInv, KnownInv, RowsLost, worker
<1>3. ASSUME NEW k \in Keys, Deliver(k)
      PROVE  Harmless /\ UNCHANGED <<pc, key, seen>>
  <2>1. UNCHANGED <<worker, rows, dbs, clusters>>
    BY <1>3 DEF Deliver, server, budget
  <2> QED
    BY <1>1, <1>3, <2>1, DeliverCopies, QuietDbs DEF SharedInv, KnownInv, RowsLost, worker
<1>4. ASSUME NEW c \in Clusters,
             DeliverDb(c) \/ CreateDb(c) \/ Serve(c) \/ Outage(c) \/ DeleteDb(c) \/ RemoveDb(c)
      PROVE  Harmless /\ UNCHANGED <<pc, key, seen>>
  <2>1. UNCHANGED <<api, uids, pc, key, seen>>
    BY <1>4 DEF DeliverDb, CreateDb, Serve, Outage, DeleteDb, RemoveDb, Broken, worker, budget
  <2>2. CopiesKept
    BY <2>1, QuietCopies DEF SharedInv
  <2>3. RowsLost
    <3>1. CASE UNCHANGED rows
      BY <3>1 DEF RowsLost
    <3>2. CASE rows' = [rows EXCEPT ![c] = [n \in Names |-> NoObj]]
      BY <3>2 DEF RowsLost
    <3> QED
      BY <1>4, <3>1, <3>2 DEF DeliverDb, CreateDb, Serve, Outage, DeleteDb, RemoveDb, server
  <2> QED
    BY <1>1, <1>4, <2>1, <2>2, <2>3, DbStepDbs DEF SharedInv, KnownInv
<1>5. ASSUME (\E c \in Clusters, n \in Names : HandDrop(c, n)) \/ Hold \/ LetGo
      PROVE  Harmless /\ UNCHANGED <<pc, key, seen>>
  <2>1. UNCHANGED <<worker, api, dbs, clusters, uids>>
    BY <1>5 DEF HandDrop, Hold, LetGo, budget
  <2>2. CopiesKept
    BY <2>1, QuietCopies DEF SharedInv, worker
  <2>3. RowsLost
    BY <1>5 DEF HandDrop, Hold, LetGo, RowsLost
  <2> QED
    BY <1>1, <2>1, <2>2, <2>3, QuietDbs DEF SharedInv, KnownInv, worker
<1> QED
  BY <1>2, <1>3, <1>4, <1>5 DEF Surroundings

\* A step of the worker that writes no object, and no row but on a known server.
LEMMA WorkerKeeps ==
  ASSUME NEW S, StatusSet(S), DependentTypeOK(S), SharedInv,
         UNCHANGED <<api, dbs, uids, clusters>>, PathInv',
         \A c \in Clusters, n \in Names :
            rows'[c][n] # NoObj => rows[c][n] # NoObj \/ Known(c),
         pc' = "idle" \/ (pc # "idle" /\ UNCHANGED <<key, seen>>),
         pc' \in SessionSteps => pc \in SessionSteps \/ dbCache[Home] # NoObj
  PROVE  SharedInv' /\ CopiesKept /\ DbsKept
<1>1. CopiesKept
  BY QuietCopies DEF SharedInv
<1>2. DbsKept
  BY QuietDbs DEF SharedInv, KnownInv
<1>3. pc' \in SessionSteps => UNCHANGED seen /\ Home \in Clusters
  BY Halves, SeenTypes DEF SessionSteps
<1>4. KnownInv'
  BY <1>2, <1>3, KnownKept DEF SharedInv, Known
<1> QED
  BY <1>1, <1>2, <1>4 DEF SharedInv, CopiesKept, CopiesKeptBut

\* A step of the worker that writes no object and no row.
LEMMA WorkerHarmless ==
  ASSUME NEW S, StatusSet(S), DependentTypeOK(S), SharedInv,
         UNCHANGED <<api, dbs, uids, clusters>>, PathInv', RowsLost,
         pc' = "idle" \/ (pc # "idle" /\ UNCHANGED <<key, seen>>),
         pc' \in SessionSteps => pc \in SessionSteps \/ dbCache[Home] # NoObj
  PROVE  Harmless
<1>1. \A c \in Clusters, n \in Names : rows'[c][n] # NoObj => rows[c][n] # NoObj \/ Known(c)
  BY DEF RowsLost
<1>2. SharedInv' /\ CopiesKept /\ DbsKept
  BY <1>1, WorkerKeeps
<1> QED
  BY <1>2 DEF Harmless, HarmlessBut, CopiesKept

\* A reconcile that begins.
LEMMA BeginHarmless ==
  ASSUME NEW S, StatusSet(S), DependentTypeOK(S), SharedInv, NEW k \in Keys,
         NEW apply \in {"connect", "secret"}, Begin(k, apply)
  PROVE  Harmless
<1>1. CopiesKept /\ PathInv'
  BY BeginCopies, BeginPath DEF SharedInv
<1>2. UNCHANGED <<dbs, clusters, rows>>
  BY DEF Begin, server, budget
<1>3. pc' \notin SessionSteps
  BY BeginTypes DEF SessionSteps
<1>4. DbsKept
  BY <1>2, QuietDbs DEF SharedInv, KnownInv
<1>5. KnownInv'
  BY <1>2, <1>3, <1>4, KnownKept DEF SharedInv
<1> QED
  BY <1>1, <1>2, <1>4, <1>5, HarmlessParts DEF RowsLost

\* The operator's restart.
LEMMA RestartHarmless ==
  ASSUME NEW S, DependentTypeOK(S), SharedInv, Restart
  PROVE  Harmless
<1>1. CopiesKept /\ DbsKept /\ pc' = "idle" /\ UNCHANGED rows
  BY RestartCopies, RestartDbs DEF SharedInv, KnownInv, Restart, Idle, server
<1>2. KnownInv'
  BY <1>1, KnownKept DEF SharedInv, SessionSteps
<1> QED
  BY <1>1, <1>2, KeptPath, HarmlessParts DEF SharedInv, RowsLost

\* Nothing happens, or a key is queued.
LEMMA StutterHarmless ==
  ASSUME NEW S, DependentTypeOK(S), SharedInv, UNCHANGED <<api, dbs, server, worker, budget>>
  PROVE  Harmless /\ UNCHANGED <<pc, key, seen>>
<1>1. UNCHANGED <<api, uids, dbs, clusters, rows, pc, key, seen>>
  BY DEF worker, server, budget
<1>2. CopiesKept /\ DbsKept
  BY <1>1, QuietCopies, QuietDbs DEF SharedInv, KnownInv
<1>3. pc' \in SessionSteps => Home \in Clusters
  BY <1>1, Halves, SeenTypes DEF SessionSteps
<1>4. KnownInv'
  BY <1>1, <1>2, <1>3, KnownKept DEF SharedInv
<1> QED
  BY <1>1, <1>2, <1>4, KeptPath, HarmlessParts DEF SharedInv, RowsLost

\* The steps of a reconcile that the kinds share, but for the end of a deletion.
LEMMA SharedHarmless ==
  ASSUME NEW S, NEW R, StatusSet(S), DependentTypeOK(S), SharedInv,
         rows \in [Clusters -> [Names -> Maybe(R)]], NEW wanted, NEW apply \in LiveSteps,
         \/ ensureFinalizer \/ finalize(wanted) \/ dropExists \/ drop
         \/ openSession(IF seen.deleting THEN "dropExists" ELSE apply)
         \/ PatchStatus
  PROVE  Harmless
<1>1. PathInv'
  BY SharedPath DEF SharedInv
<1>2. CASE ensureFinalizer \/ PatchStatus
  <2>1. UNCHANGED <<dbs, clusters, rows>> /\ pc' = "idle"
    BY <1>2, ensureFinalizerTypes, PatchStatusTypes DEF ensureFinalizer, Update, PatchStatus, server
  <2>2. CopiesKept /\ DbsKept
    BY <1>2, <2>1, ensureFinalizerCopies, PatchStatusCopies, QuietDbs DEF SharedInv, KnownInv
  <2>3. KnownInv'
    BY <2>1, <2>2, KnownKept DEF SharedInv, SessionSteps
  <2> QED
    BY <1>1, <2>1, <2>2, <2>3, HarmlessParts DEF RowsLost
<1>3. CASE finalize(wanted)
  <2>1. UNCHANGED <<api, dbs, uids, clusters, key, seen, rows>> /\ pc # "idle"
    BY <1>3 DEF finalize, Goto, server, budget
  <2>2. pc' \notin SessionSteps
    BY <1>3, finalizeTypes DEF SessionSteps
  <2> QED
    BY <1>1, <2>1, <2>2, WorkerHarmless DEF RowsLost
<1>4. CASE openSession(IF seen.deleting THEN "dropExists" ELSE apply)
  <2>1. UNCHANGED <<api, dbs, uids, clusters, rows>> /\ pc = "connect"
    BY <1>4 DEF openSession, server, budget
  <2>2. \/ pc' = "idle"
        \/ /\ UNCHANGED <<key, seen>>
           /\ pc' = "status" \/ dbCache[Home] # NoObj
    BY <1>4 DEF openSession, Blocked, Again, Idle, Finish
  <2> QED
    BY <1>1, <2>1, <2>2, WorkerHarmless DEF RowsLost, SessionSteps
<1>5. CASE dropExists \/ drop
  <2>1. UNCHANGED <<api, dbs, uids, clusters>> /\ pc \in {"dropExists", "drop"}
    BY <1>5 DEF dropExists, drop, Query, Exec, Refused, budget
  <2>2. pc' = "idle" \/ UNCHANGED <<key, seen>>
    BY <1>5 DEF dropExists, drop, Query, Exec, Refused, Error, Blocked, Again, Idle, Finish, Goto
  <2>3. rows' = rows \/ rows' = With(NoObj)
    BY <1>5, dropExistsTypes, dropTypes
  <2>4. RowsLost
    BY <2>1, <2>3, WithEffect DEF RowsLost
  <2> QED
    BY <1>1, <2>1, <2>2, <2>4, WorkerHarmless DEF SessionSteps
<1> QED
  BY <1>2, <1>3, <1>4, <1>5

\* Failing reads.
LEMMA GetFailsHarmless ==
  ASSUME NEW S, StatusSet(S), DependentTypeOK(S), SharedInv, NEW steps,
         steps \cap {"idle", "guard"} = {}, GetFails(steps)
  PROVE  Harmless
<1>1. UNCHANGED <<api, dbs, uids, clusters, rows>> /\ pc # "idle"
  BY DEF GetFails, server
<1>2. PathInv'
  BY GetFailsPath DEF SharedInv
<1>3. pc' = "idle" \/ UNCHANGED <<key, seen>>
  BY DEF GetFails, Error, Blocked, Again, Idle, Finish
<1>4. pc' \notin SessionSteps
  BY GetFailsTypes DEF SessionSteps
<1> QED
  BY <1>1, <1>2, <1>3, <1>4, WorkerHarmless DEF RowsLost

\* The end of a deletion: nothing happens, or the object in hand goes.
LEMMA removeFinalizerHarmless ==
  ASSUME NEW S, StatusSet(S), DependentTypeOK(S), SharedInv, removeFinalizer
  PROVE  /\ UNCHANGED rows
         /\ \/ Harmless
            \/ HarmlessBut({key}) /\ obj[key] = seen /\ obj'[key] = NoObj
<1>1. UNCHANGED <<dbs, clusters, rows>> /\ pc' = "idle" /\ pc = "release"
  BY removeFinalizerTypes DEF removeFinalizer, Update, server
<1>2. seen.deleting
  BY <1>1 DEF SharedInv, PathInv, DeletingSteps
<1>3. PathInv' /\ DbsKept
  BY <1>1, KeptPath, QuietDbs DEF SharedInv, KnownInv
<1>4. KnownInv'
  BY <1>1, <1>3, KnownKept DEF SharedInv, SessionSteps
<1>5. CopiesKept \/ (CopiesKeptBut({key}) /\ obj[key] = seen /\ obj'[key] = NoObj)
  BY <1>2, removeFinalizerCopies DEF SharedInv
<1> QED
  BY <1>1, <1>3, <1>4, <1>5
     DEF Harmless, HarmlessBut, SharedInv, CopiesKept, CopiesKeptBut, RowsLost

(***************************************************************************)
(* The drop.                                                               *)
(***************************************************************************)
\* There is no row, or its server goes with its SereneDB.
Clear(c, n) == rows[c][n] = NoObj \/ CacheGone(c)

\* What is clear stays clear while no row is written.
LEMMA ClearKept ==
  ASSUME DbsKept, RowsLost, NEW c \in Clusters, NEW n \in Names, Clear(c, n)
  PROVE  Clear(c, n)'
BY DEF Clear, DbsKept, RowsLost

\* The same of the row in hand.
LEMMA RowClearKept ==
  ASSUME NEW S, DependentTypeOK(S), pc # "idle", UNCHANGED <<key, seen>>, DbsKept, RowsLost,
         Clear(Home, Name)
  PROVE  Clear(Home, Name)'
<1>1. Home \in Clusters /\ Name \in Names
  BY Halves, SeenTypes
<1>2. Home' = Home /\ Name' = Name
  BY DEF Home, Name
<1>3. \/ rows'[Home][Name] = NoObj
      \/ /\ dbCache'[Home] # NoObj \/ (clusters'[Home] = 1 /\ db'[Home] = NoObj)
         /\ dbCache'[Home] = NoObj \/ dbCache'[Home].deleting
  BY <1>1 DEF Clear, DbsKept, RowsLost, CacheGone, Known
<1> QED
  BY <1>2, <1>3 DEF Clear, CacheGone, Known

\* A deletion that wants the drop comes to its end with the row in the clear: the
\* DROP went through, or there was nothing to drop, or the SereneDB goes.
LEMMA ReleaseClear ==
  ASSUME NEW S, NEW R, StatusSet(S), DependentTypeOK(S), SharedInv,
         rows \in [Clusters -> [Names -> Maybe(R)]], NEW wanted,
         (wanted /\ finalize(wanted)) \/ dropExists \/ drop, pc' = "release"
  PROVE  Clear(Home, Name)'
<1>1. Home \in Clusters /\ Name \in Names /\ pc # "idle" /\ pc # "release"
  BY Halves, SeenTypes DEF finalize, dropExists, drop
<1>2. UNCHANGED <<dbs, clusters, key, seen>>
  BY DEF finalize, Goto, dropExists, drop, Query, Exec, Refused, Error, Blocked, Again, Idle,
         Finish, budget
<1>3. rows'[Home][Name] = NoObj \/ CacheGone(Home)
  <2>1. CASE wanted /\ finalize(wanted)
    <3>1. clusterGone /\ UNCHANGED rows
      BY <2>1 DEF finalize, Goto, server
    <3>2. rows[Home][Name] # NoObj => Known(Home)
      BY <1>1 DEF SharedInv, KnownInv
    <3> QED
      BY <3>1, <3>2 DEF clusterGone, CacheGone
  <2>2. CASE dropExists
    <3>1. Row = NoObj
      BY <2>2 DEF dropExists, Query, Exec, Refused, Error, Blocked, Again, Idle, Finish, Goto
    <3> QED
      BY <2>2, <3>1, dropExistsTypes DEF Row
  <2>3. CASE drop
    <3>1. rows' = With(NoObj)
      BY <2>3 DEF drop, Exec, Refused, Error, Blocked, Again, Idle, Finish, Goto
    <3> QED
      BY <1>1, <3>1, WithEffect
  <2> QED
    BY <2>1, <2>2, <2>3
<1> QED
  BY <1>2, <1>3 DEF Clear, CacheGone, Known, Home, Name, dbs
=============================================================================
