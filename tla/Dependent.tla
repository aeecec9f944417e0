------------------------------- MODULE Dependent -------------------------------
(***************************************************************************)
(* What the Database, DatabaseRole and ServerSecret reconcilers share      *)
(* (internal/controller/dependent.go): objects of one kind in the API      *)
(* server, the finalizer that guards the cleanup on the server, the way to *)
(* a SQL session, and the Ready condition.  The rows these objects manage  *)
(* live on the volume of a SereneDB.  A kind has one worker; each of its   *)
(* calls to the API server and each SQL statement is a step of its own.    *)
(* SereneDBs, servers and users are external.                              *)
(***************************************************************************)
EXTENDS Integers

CONSTANTS Keys,         \* names the objects of the kind can have
          Clusters,     \* names SereneDBs can have
          Specs,        \* specs users may write: fields cluster, name and the kind's own
          Lagging,      \* informers that may lag: "objects", "clusters", "secrets"
          Outages,      \* why openSession fails although the SereneDB is Ready
          NoObj,        \* "not found", and a row that is not on the server
          MaxUid,       \* objects users create
          MaxEdits,     \* edits of specs
          MaxFaults,    \* failed calls, operator restarts and outages of servers
          MaxClusters,  \* times users create a SereneDB of one name
          MaxDrift      \* changes by hand on a server

ASSUME DependentAssumption ==
  /\ \A s \in Specs : s.cluster \in Clusters
  /\ Lagging \subseteq {"objects", "clusters", "secrets"}
  /\ Outages \subseteq {"SecretMissing", "SecretKeyMissing", "ConnectionFailed"}
  /\ {MaxUid, MaxEdits, MaxFaults, MaxClusters, MaxDrift} \subseteq Nat

VARIABLES obj,      \* the objects in the API server
          cache,    \* the operator's copies of them
          db,       \* the SereneDBs in the API server
          dbCache,  \* the operator's copies of them
          reach,    \* "ok", or why a session with a Ready server fails
          rows,     \* what is on each server's volume, by server-side name
          held,     \* does something on the servers make them refuse a DROP?
          queued,   \* keys in the work queue
          pc,       \* next step of the running reconcile, or "idle"
          key,      \* the object it reconciles
          seen,     \* the copy it read from the cache
          next,     \* the status it computed
          session,  \* is its SQL session open and alive?
          uids, edits, faults, clusters, drift   \* what the bounds count

api    == <<obj, cache>>
dbs    == <<db, dbCache, reach>>
server == <<rows, held>>
worker == <<pc, key, seen, next, session>>
budget == <<uids, edits, faults, clusters, drift>>
base   == <<api, dbs, server, queued, worker, budget>>

Nul == "nul"   \* a name with a NUL byte: the API accepts it, SQL text cannot hold it

\* nameOrDefault: the server-side name is spec.name, or the object's name.
NameOf(k, s) == IF s.name = "" THEN k ELSE s.name
Names == Keys \cup ({s.name : s \in Specs} \ {""})

Reasons == {"ClusterNotFound", "ClusterNotReady", "SecretMissing", "SecretKeyMissing",
            "ConnectionFailed", "SQLError", "InvalidSpec", "PasswordSecretMissing",
            "ValuesSecretMissing"}

\* The Ready condition: absent, true once applied, false for a reason.
Condition == [status : {"Unknown"}, reason : {"None"}, gen : {0}]
             \cup [status : {"True"}, reason : {"Applied"}, gen : Nat]
             \cup [status : {"False"}, reason : Reasons, gen : Nat]

\* Objects of a kind whose statuses are in S.
Objects(S) == [uid : Nat \ {0}, gen : Nat, spec : Specs, finalizer : BOOLEAN,
               deleting : BOOLEAN, status : S]
DbObj      == [ready : BOOLEAN, deleting : BOOLEAN]
Maybe(S)   == S \cup {NoObj}

ASSUME NoDbAssumption == NoObj \notin DbObj

DependentTypeOK(S) ==
  /\ obj \in [Keys -> Maybe(Objects(S))] /\ cache \in [Keys -> Maybe(Objects(S))]
  /\ db \in [Clusters -> Maybe(DbObj)] /\ dbCache \in [Clusters -> Maybe(DbObj)]
  /\ reach \in [Clusters -> Outages \cup {"ok", "ConnectionFailed"}]
  /\ held \in BOOLEAN
  /\ queued \subseteq Keys
  /\ session \in BOOLEAN
  /\ pc = "idle" => key = NoObj /\ seen = NoObj /\ next = NoObj
  /\ pc # "idle" => key \in Keys /\ seen \in Objects(S) /\ next \in S
  /\ uids \in Nat /\ edits \in Nat /\ faults \in Nat
  /\ clusters \in [Clusters -> Nat] /\ drift \in Nat

DependentInit ==
  /\ obj = [k \in Keys |-> NoObj] /\ cache = [k \in Keys |-> NoObj]
  /\ db = [c \in Clusters |-> NoObj] /\ dbCache = [c \in Clusters |-> NoObj]
  /\ reach = [c \in Clusters |-> "ConnectionFailed"]
  /\ rows = [c \in Clusters |-> [n \in Names |-> NoObj]]
  /\ held = FALSE
  /\ queued = {}
  /\ pc = "idle" /\ key = NoObj /\ seen = NoObj /\ next = NoObj /\ session = FALSE
  /\ uids = 0 /\ edits = 0 /\ faults = 0 /\ drift = 0
  /\ clusters = [c \in Clusters |-> 0]

(***************************************************************************)
(* API server, informers, work queue.                                      *)
(***************************************************************************)
\* A plausible slip: a GenerationChangedPredicate, which hides the finalizer.
WatchedGenerations(old, new) == old = NoObj \/ new = NoObj \/ old.gen # new.gen

\* For(&Database{}) and its siblings: every event of an object enqueues it.
Watched(old, new) == old # new

Put(k, o) ==
  /\ obj' = [obj EXCEPT ![k] = o]
  /\ cache' = IF "objects" \in Lagging THEN cache ELSE [cache EXCEPT ![k] = o]

\* The keys the operator enqueues as it sees the write.
Event(k, o) == IF "objects" \notin Lagging /\ Watched(obj[k], o) THEN {k} ELSE {}

Deliver(k) ==
  /\ cache[k] # obj[k]
  /\ cache' = [cache EXCEPT ![k] = obj[k]]
  /\ queued' = IF Watched(cache[k], obj[k]) THEN queued \cup {k} ELSE queued
  /\ UNCHANGED <<obj, dbs, server, worker, budget>>

\* requestsByIndex on spec.cluster.name, over the cached objects.
Of(c) == {k \in Keys : cache[k] # NoObj /\ cache[k].spec.cluster = c}

PutDb(c, d) ==
  /\ db' = [db EXCEPT ![c] = d]
  /\ dbCache' = IF "clusters" \in Lagging THEN dbCache ELSE [dbCache EXCEPT ![c] = d]
  /\ queued' = IF "clusters" \in Lagging \/ d = db[c] THEN queued ELSE queued \cup Of(c)

DeliverDb(c) ==
  /\ dbCache[c] # db[c]
  /\ dbCache' = [dbCache EXCEPT ![c] = db[c]]
  /\ queued' = queued \cup Of(c)
  /\ UNCHANGED <<api, db, reach, server, worker, budget>>

(***************************************************************************)
(* How steps of a reconcile end.                                           *)
(***************************************************************************)
Fault ==
  /\ faults < MaxFaults
  /\ faults' = faults + 1

Idle == pc' = "idle" /\ key' = NoObj /\ seen' = NoObj /\ next' = NoObj /\ session' = FALSE

Goto(step) == pc' = step /\ UNCHANGED <<key, seen, next, session, queued>>

\* The reconcile returns an error or a delay: the key comes back.
Again == Idle /\ queued' = queued \cup {key}

\* A plausible slip: only errors are reported, not what the object waits for.
outcomeOfErrors(reason) ==
  [status |-> IF reason \in {"SQLError", "InvalidSpec"} THEN "False" ELSE "True",
   reason |-> reason, gen |-> seen.gen]

\* outcome: what applying the object came to, as its Ready condition.
outcome(reason) ==
  [status |-> IF reason = "Applied" THEN "True" ELSE "False", reason |-> reason, gen |-> seen.gen]

\* apply returns: the session is closed and the status goes out.
Finish(reason) ==
  /\ pc' = "status"
  /\ next' = [next EXCEPT !.ready = outcome(reason)]
  /\ session' = FALSE
  /\ UNCHANGED <<key, seen, queued>>

\* A plausible slip: finalize returns without a requeue when it is blocked.
BlockedForGood(reason) == IF seen.deleting THEN Idle /\ UNCHANGED queued ELSE Finish(reason)

\* finalize has no status to report to, apply has.
Blocked(reason) == IF seen.deleting THEN Again ELSE Finish(reason)
Error           == Blocked("SQLError")

\* A read from the API server or the cache fails.
GetFails(steps) ==
  /\ pc \in steps
  /\ Fault
  /\ Error
  /\ UNCHANGED <<api, dbs, server, uids, edits, clusters, drift>>

\* An UPDATE of the object based on the copy that was read: refused if the object
\* changed since.  gone is what the reconcile makes of NotFound.
Update(o, gone) ==
  /\ \/ /\ obj[key] = seen
        /\ Put(key, o)
        /\ Idle /\ queued' = queued \cup Event(key, o)
        /\ UNCHANGED faults
     \/ /\ obj[key] = NoObj
        /\ gone
        /\ UNCHANGED <<api, faults>>
     \/ /\ obj[key] \notin {seen, NoObj}
        /\ Again /\ UNCHANGED <<api, faults>>
     \/ /\ Fault
        /\ Again
        /\ UNCHANGED api \/ (obj[key] = seen /\ Put(key, o))
  /\ UNCHANGED <<dbs, server, uids, edits, clusters, drift>>

(***************************************************************************)
(* SQL.                                                                    *)
(***************************************************************************)
Home == seen.spec.cluster
Name == NameOf(key, seen.spec)
Row  == rows[Home][Name]

\* openSession: the SereneDB and its Ready condition from the cache, the password
\* Secret, the connection.
openSession(step) ==
  LET d == dbCache[Home]
      reason == CASE d = NoObj             -> "ClusterNotFound"
                  [] d # NoObj /\ ~d.ready -> "ClusterNotReady"
                  [] OTHER                 -> reach[Home]
  IN /\ pc = "connect"
     /\ IF reason = "ok"
        THEN pc' = step /\ session' = TRUE /\ UNCHANGED <<key, seen, next, queued>>
        ELSE Blocked(reason)
     /\ UNCHANGED <<api, dbs, server, budget>>

\* A statement that leaves the server with the rows `new`, after which the
\* reconcile goes on as `then` says.  It fails when the session is dead; it may
\* fail otherwise, without effect or with its answer lost.
Exec(new, then) ==
  /\ \/ /\ session
        /\ rows' = new
        /\ then /\ UNCHANGED faults
     \/ /\ ~session
        /\ Error /\ UNCHANGED <<rows, faults>>
     \/ /\ session /\ Fault
        /\ Error
        /\ rows' = new \/ UNCHANGED rows
  /\ UNCHANGED <<api, dbs, held, uids, edits, clusters, drift>>

\* exists, and every other query.
Query(then) == Exec(rows, then)

\* A statement the server or the renderer refuses.
Refused == Error /\ UNCHANGED <<api, dbs, server, budget>>

With(row) == [rows EXCEPT ![Home][Name] = row]

(***************************************************************************)
(* Reconcile, as far as the kinds have it in common.                       *)
(***************************************************************************)
\* A plausible slip: the object is applied before the finalizer is on it.
BeginUnguarded(k, apply) ==
  /\ pc = "idle" /\ k \in queued
  /\ queued' = queued \ {k}
  /\ IF cache[k] = NoObj THEN UNCHANGED worker
     ELSE /\ key' = k /\ seen' = cache[k] /\ next' = cache[k].status /\ session' = FALSE
          /\ pc' = IF cache[k].deleting THEN "finalize"
                   ELSE IF cache[k].finalizer \/ cache[k].status.ready.gen = 0 THEN apply
                   ELSE "guard"
  /\ UNCHANGED <<api, dbs, server, budget>>

\* Take a key from the queue and get the object: on to the finalizer's removal,
\* its addition, or the first step of apply.
Begin(k, apply) ==
  /\ pc = "idle" /\ k \in queued
  /\ queued' = queued \ {k}
  /\ IF cache[k] = NoObj \/ (cache[k] # NoObj /\ cache[k].deleting /\ ~cache[k].finalizer)
     THEN UNCHANGED worker
     ELSE /\ key' = k /\ seen' = cache[k] /\ next' = cache[k].status /\ session' = FALSE
          /\ pc' = IF cache[k].deleting THEN "finalize"
                   ELSE IF cache[k].finalizer THEN apply ELSE "guard"
  /\ UNCHANGED <<api, dbs, server, budget>>

ensureFinalizer ==
  /\ pc = "guard"
  /\ Update([seen EXCEPT !.finalizer = TRUE], Again)

\* A plausible slip: a server that is down counts as gone.
clusterGoneOrDown == dbCache[Home] = NoObj \/ (dbCache[Home] # NoObj /\ ~dbCache[Home].ready)

clusterGone == dbCache[Home] = NoObj \/ (dbCache[Home] # NoObj /\ dbCache[Home].deleting)

\* A plausible slip: the policy is not looked at.
finalizeAlways(wanted) ==
  /\ pc = "finalize"
  /\ Goto(IF ~clusterGone THEN "connect" ELSE "release")
  /\ UNCHANGED <<api, dbs, server, budget>>

\* finalize up to the session: is there a drop to run?
finalize(wanted) ==
  /\ pc = "finalize"
  /\ Goto(IF wanted /\ ~clusterGone THEN "connect" ELSE "release")
  /\ UNCHANGED <<api, dbs, server, budget>>

\* The drop (dropDatabase, dropRole, dropServerSecret): is the row there?
dropExists ==
  /\ pc = "dropExists"
  /\ IF Name = Nul THEN Refused
     ELSE Query(Goto(IF Row = NoObj THEN "release" ELSE "drop"))

drop ==
  /\ pc = "drop"
  /\ IF held \/ Row = NoObj THEN Refused ELSE Exec(With(NoObj), Goto("release"))

\* The rest of finalize: remove the finalizer, and with it the object.
removeFinalizer ==
  /\ pc = "release"
  /\ Update(NoObj, Idle /\ UNCHANGED queued)

\* A JSON merge patch of the fields that differ from the copy that was read,
\* applied to whatever object of that name now exists.
Patched(o) ==
  [o EXCEPT !.status =
     [f \in DOMAIN next |-> IF next[f] # seen.status[f] THEN next[f] ELSE o.status[f]]]

\* A plausible slip: no resync once the object is applied.
RetryOnly(reason) == IF reason = "Applied" THEN 0 ELSE 30

\* Another: nothing while something is missing, as if it always announced itself.
ResyncOnly(reason) == IF reason = "Applied" THEN 600 ELSE 0

\* Seconds until the key comes back: resyncInterval or missingDependencyRequeue.
RequeueAfter(reason) == IF reason = "Applied" THEN 600 ELSE 30

PatchStatus ==
  /\ pc = "status"
  /\ \/ /\ obj[key] # NoObj
        /\ Put(key, Patched(obj[key]))
        /\ Idle
        /\ queued' = queued \cup Event(key, Patched(obj[key]))
                            \cup (IF RequeueAfter(next.ready.reason) > 0 THEN {key} ELSE {})
        /\ UNCHANGED faults
     \/ /\ obj[key] = NoObj
        /\ Again /\ UNCHANGED <<api, faults>>
     \/ /\ Fault
        /\ Again
        /\ UNCHANGED api \/ (obj[key] # NoObj /\ Put(key, Patched(obj[key])))
  /\ UNCHANGED <<dbs, server, uids, edits, clusters, drift>>

\* The operator process is replaced and lists everything afresh.
Restart ==
  /\ Fault
  /\ Idle
  /\ cache' = obj /\ dbCache' = db
  /\ queued' = {k \in Keys : obj[k] # NoObj}
  /\ UNCHANGED <<obj, db, reach, server, uids, edits, clusters, drift>>

(***************************************************************************)
(* SereneDBs and their servers.                                            *)
(***************************************************************************)
\* A name is used again once the server of the SereneDB before is gone.
CreateDb(c) ==
  /\ db[c] = NoObj /\ reach[c] = "ConnectionFailed"
  /\ clusters[c] < MaxClusters
  /\ clusters' = [clusters EXCEPT ![c] = @ + 1]
  /\ PutDb(c, [ready |-> FALSE, deleting |-> FALSE])
  /\ UNCHANGED <<api, reach, server, worker, uids, edits, faults, drift>>

\* The server takes sessions and its SereneDB is Ready, for the first time or again.
Serve(c) ==
  /\ db[c] # NoObj /\ ~db[c].deleting /\ (reach[c] # "ok" \/ ~db[c].ready)
  /\ reach' = [reach EXCEPT ![c] = "ok"]
  /\ PutDb(c, [db[c] EXCEPT !.ready = TRUE])
  /\ UNCHANGED <<api, server, worker, budget>>

\* Sessions with the server break when it goes down, whether or not the SereneDB
\* is seen to be not Ready.
Broken(c) == session' = (session /\ Home # c) /\ UNCHANGED <<pc, key, seen, next>>

Outage(c) ==
  /\ db[c] # NoObj /\ reach[c] = "ok"
  /\ Fault
  /\ \E r \in Outages, ready \in BOOLEAN :
       /\ reach' = [reach EXCEPT ![c] = r]
       /\ r # "ConnectionFailed" => ready
       /\ PutDb(c, [db[c] EXCEPT !.ready = ready])
       /\ IF r = "ConnectionFailed" THEN Broken(c) ELSE UNCHANGED worker
  /\ UNCHANGED <<api, server, uids, edits, clusters, drift>>

\* Foreground deletion: the SereneDB is there, deleting, until its pod is gone.
\* Background deletion: it goes at once, and its server goes on for a while.
DeleteDb(c) ==
  /\ db[c] # NoObj /\ ~db[c].deleting
  /\ \E d \in {NoObj, [db[c] EXCEPT !.deleting = TRUE]} : PutDb(c, d)
  /\ UNCHANGED <<api, reach, server, worker, budget>>

\* The server of a deleted SereneDB goes, and its volume stays or goes with it.
RemoveDb(c) ==
  /\ IF db[c] = NoObj THEN reach[c] # "ConnectionFailed" ELSE db[c].deleting
  /\ PutDb(c, NoObj)
  /\ reach' = [reach EXCEPT ![c] = "ConnectionFailed"]
  /\ Broken(c)
  /\ \E kept \in BOOLEAN :
       rows' = IF kept THEN rows ELSE [rows EXCEPT ![c] = [n \in Names |-> NoObj]]
  /\ UNCHANGED <<api, held, budget>>

\* Somebody drops a row by hand.
HandDrop(c, n) ==
  /\ reach[c] = "ok" /\ rows[c][n] # NoObj
  /\ drift < MaxDrift
  /\ drift' = drift + 1
  /\ rows' = [rows EXCEPT ![c][n] = NoObj]
  /\ UNCHANGED <<api, dbs, held, queued, worker, uids, edits, faults, clusters>>

\* Sessions on a database, or objects a role owns, make the server refuse to drop.
Hold ==
  /\ ~held
  /\ drift < MaxDrift
  /\ drift' = drift + 1
  /\ held' = TRUE
  /\ UNCHANGED <<api, dbs, rows, queued, worker, uids, edits, faults, clusters>>

LetGo ==
  /\ held
  /\ held' = FALSE
  /\ UNCHANGED <<api, dbs, rows, queued, worker, budget>>

(***************************************************************************)
(* Users.                                                                  *)
(***************************************************************************)
Create(k, status) ==
  /\ obj[k] = NoObj
  /\ uids < MaxUid
  /\ uids' = uids + 1
  /\ \E s \in Specs :
       LET o == [uid |-> uids + 1, gen |-> 1, spec |-> s, finalizer |-> FALSE,
                 deleting |-> FALSE, status |-> status]
       IN Put(k, o) /\ queued' = queued \cup Event(k, o)
  /\ UNCHANGED <<dbs, server, worker, edits, faults, clusters, drift>>

\* The rule "name is immutable" compares two names that are set: a name may be
\* added or removed.
MayEdit(old, new) == old.name # "" /\ new.name # "" => old.name = new.name

Edit(k) ==
  /\ obj[k] # NoObj
  /\ edits < MaxEdits
  /\ edits' = edits + 1
  /\ \E s \in Specs :
       /\ s # obj[k].spec /\ MayEdit(obj[k].spec, s)
       /\ LET o == [obj[k] EXCEPT !.spec = s, !.gen = @ + 1]
          IN Put(k, o) /\ queued' = queued \cup Event(k, o)
  /\ UNCHANGED <<dbs, server, worker, uids, faults, clusters, drift>>

\* An object with a finalizer stays until the operator removes it.
Delete(k) ==
  /\ obj[k] # NoObj /\ ~obj[k].deleting
  /\ LET o == IF obj[k].finalizer THEN [obj[k] EXCEPT !.deleting = TRUE, !.gen = @ + 1] ELSE NoObj
     IN Put(k, o) /\ queued' = queued \cup Event(k, o)
  /\ UNCHANGED <<dbs, server, worker, budget>>

Surroundings ==
  \/ \E k \in Keys : Deliver(k) \/ Edit(k) \/ Delete(k)
  \/ \E c \in Clusters :
       DeliverDb(c) \/ CreateDb(c) \/ Serve(c) \/ Outage(c) \/ DeleteDb(c) \/ RemoveDb(c)
  \/ \E c \in Clusters, n \in Names : HandDrop(c, n)
=============================================================================
