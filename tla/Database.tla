------------------------------- MODULE Database -------------------------------
(***************************************************************************)
(* DatabaseReconciler (internal/controller/database_controller.go): the    *)
(* databases of a server.  A row says which Database had it created.       *)
(***************************************************************************)
EXTENDS Dependent

SpecType == [cluster : Clusters, name : STRING, reclaimPolicy : {"Retain", "Delete"}]

ASSUME DatabaseAssumption == Specs \subseteq SpecType

DatabaseStatus == [ready : Condition]
NewStatus      == [ready |-> [status |-> "Unknown", reason |-> "None", gen |-> 0]]

ASSUME NoDatabaseAssumption == NoObj \notin Objects(DatabaseStatus)

Steps == {"guard", "connect", "exists", "create", "status",
          "finalize", "dropExists", "drop", "release"}

TypeOK ==
  /\ DependentTypeOK(DatabaseStatus)
  /\ rows \in [Clusters -> [Names -> Maybe([by : Nat \ {0}])]]
  /\ pc \in Steps \cup {"idle"}

Init == DependentInit

\* apply after openSession: look for the database, create it if it is not there.
exists ==
  /\ pc = "exists"
  /\ IF Name = Nul
     THEN Finish("InvalidSpec") /\ UNCHANGED <<api, dbs, server, budget>>
     ELSE Query(IF Row = NoObj THEN Goto("create") ELSE Finish("Applied"))

\* CREATE DATABASE IF NOT EXISTS.
CreateDatabase == IF Row = NoObj THEN With([by |-> seen.uid]) ELSE rows

create ==
  /\ pc = "create"
  /\ Exec(CreateDatabase, Finish("Applied"))

dropDatabase == dropExists \/ drop

\* Reconcile: drop is nil unless the policy is Delete.
Reconcile ==
  \/ ensureFinalizer
  \/ finalize(seen.spec.reclaimPolicy = "Delete") \/ dropDatabase \/ removeFinalizer
  \/ openSession(IF seen.deleting THEN "dropExists" ELSE "exists")
  \/ GetFails({"finalize", "connect"})
  \/ exists \/ create
  \/ PatchStatus

Worker == (\E k \in Keys : Begin(k, "connect")) \/ Reconcile

Next == Worker \/ (\E k \in Keys : Create(k, NewStatus)) \/ Surroundings \/ Hold \/ LetGo \/ Restart

Spec == Init /\ [][Next]_base

\* The worker and its queue, the informers, and a server that comes (back) up or goes.
Fairness ==
  /\ WF_base(Worker)
  /\ \A k \in Keys : WF_base(Deliver(k))
  /\ \A c \in Clusters : WF_base(DeliverDb(c)) /\ WF_base(Serve(c)) /\ WF_base(RemoveDb(c))

FairSpec == Spec /\ Fairness

(***************************************************************************)
(* Properties.                                                             *)
(***************************************************************************)
\* The worker drops a database only for an object that still exists, is being
\* deleted, and asked for it: a copy that is out of date, of an object long gone
\* or edited before it was deleted, never costs a database.
DropIsAskedFor ==
  [][\A c \in Clusters, n \in Names :
       pc = "drop" /\ pc' # pc /\ rows[c][n] # NoObj /\ rows'[c][n] = NoObj
         => /\ obj[key] # NoObj /\ obj[key].uid = seen.uid /\ obj[key].deleting
            /\ obj[key].gen = seen.gen => obj[key].spec.reclaimPolicy = "Delete"]_base

\* An object with policy Delete is let go only once its database is off the
\* server, unless the SereneDB goes too: not when the server is down, the answer
\* to the DROP is lost, or the policy is edited meanwhile.
DeleteMeansDropped ==
  [][\A k \in Keys :
       LET o == obj[k] IN
       o # NoObj /\ o.finalizer /\ obj'[k] = NoObj /\ o.spec.reclaimPolicy = "Delete"
         => LET c == o.spec.cluster IN
            \/ db[c] = NoObj
            \/ db[c].deleting
            \/ rows[c][NameOf(k, o.spec)] = NoObj]_base

Live(k) == obj[k] # NoObj /\ ~obj[k].deleting /\ NameOf(k, obj[k].spec) # Nul

Applied(k) ==
  /\ rows[obj[k].spec.cluster][NameOf(k, obj[k].spec)] # NoObj
  /\ obj[k].status.ready = [status |-> "True", reason |-> "Applied", gen |-> obj[k].gen]

\* Once users, failures and outages are done, the database of every live object
\* whose SereneDB is there exists and the status says so, also when the database
\* was dropped by hand, which wakes nobody up.
EventuallyApplied ==
  \A k \in Keys :
    <>[](Live(k) /\ db[obj[k].spec.cluster] # NoObj /\ ~db[obj[k].spec.cluster].deleting
           => Applied(k))

\* A deletion ends once nothing on the server holds the database, whatever the
\* order of outages, restarts, conflicts and the deletion of the SereneDB.
DeletionEnds ==
  \A k \in Keys :
    <>[]~held => []<>~(obj[k] # NoObj /\ obj[k].deleting /\ NameOf(k, obj[k].spec) # Nul)
=============================================================================
