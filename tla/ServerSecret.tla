----------------------------- MODULE ServerSecret -----------------------------
(***************************************************************************)
(* ServerSecretReconciler (internal/controller/serversecret_controller.go):*)
(* the secrets in a server's secrets manager.  A row says for which object *)
(* it was written and from which options and version of the values Secret. *)
(***************************************************************************)
EXTENDS SecretSource

SpecType == [cluster : Clusters, name : STRING, secret : BOOLEAN, options : STRING]

ASSUME ServerSecretAssumption == Specs \subseteq SpecType

\* Every key of the values Secret is an option, so none is missing.
ValuesForms == Forms \ {"keyless"}

Bad == "bad"   \* inline options CreateSecret refuses: a key that is no option name, a NUL

Rows == [by : Nat \ {0}, options : STRING, version : Nat]

Steps == {"guard", "secret", "connect", "replace", "status",
          "finalize", "dropExists", "drop", "release"}

TypeOK ==
  /\ DependentTypeOK(VersionedStatus)
  /\ SecretSourceTypeOK
  /\ rows \in [Clusters -> [Names -> Maybe(Rows)]]
  /\ pc \in Steps \cup {"idle"}

Init == DependentInit /\ SecretSourceInit

\* options and CreateSecret: the statement is rendered before there is a session.
options ==
  readSecret("ValuesSecretMissing",
             seen.spec.options # Bad /\ (seen.spec.secret => secretCache.form = "usable"),
             "InvalidSpec")

\* CREATE OR REPLACE PERSISTENT SECRET.
CreateSecret == With([by |-> seen.uid, options |-> seen.spec.options, version |-> Version])

\* A plausible slip: no statement while the noted version is the current one.
replaceIfNew ==
  /\ pc = "replace"
  /\ Exec(IF seen.status.version = Version /\ seen.status.ready.status = "True"
          THEN rows ELSE CreateSecret,
          FinishApplied)

\* apply after openSession.
replace ==
  /\ pc = "replace"
  /\ Exec(CreateSecret, FinishApplied)

dropServerSecret == dropExists \/ drop

\* Reconcile: the drop is wanted whatever the spec says.
Reconcile ==
  \/ options
  \/ Plain(\/ ensureFinalizer
           \/ finalize(TRUE) \/ dropServerSecret \/ removeFinalizer
           \/ openSession(IF seen.deleting THEN "dropExists" ELSE "replace")
           \/ GetFails({"finalize", "connect"}) \/ readFails
           \/ replace
           \/ PatchStatus)

Worker == Plain(\E k \in Keys : Begin(k, "secret")) \/ Reconcile

Next ==
  \/ Worker
  \/ Plain((\E k \in Keys : Create(k, NewStatus)) \/ Surroundings)
  \/ WriteSecret(ValuesForms) \/ DeleteSecret \/ DeliverSecret
  \/ RestartAll

Spec == Init /\ [][Next]_vars

\* The worker and its queue, the informers, and a server that comes (back) up or goes.
Fairness ==
  /\ WF_vars(Worker) /\ WF_vars(DeliverSecret)
  /\ \A k \in Keys : WF_vars(Plain(Deliver(k)))
  /\ \A c \in Clusters : /\ WF_vars(Plain(DeliverDb(c))) /\ WF_vars(Plain(Serve(c)))
                         /\ WF_vars(Plain(RemoveDb(c)))

FairSpec == Spec /\ Fairness

(***************************************************************************)
(* Properties.                                                             *)
(***************************************************************************)
\* "Always drops it on deletion": no credential stays on the server of a live
\* SereneDB without the object that asked for it, whatever failed in between.  It
\* holds for objects whose server-side name and SereneDB do not change.
NoOrphan ==
  \A c \in Clusters, n \in Names :
    rows[c][n] # NoObj /\ db[c] # NoObj /\ ~db[c].deleting
      => \E k \in Keys : obj[k] # NoObj /\ obj[k].uid = rows[c][n].by

\* A row counts while its server's SereneDB is to stay.
storedBy ==
  {u \in 1..MaxUid : \E c \in Clusters, n \in Names :
     rows[c][n] # NoObj /\ db[c] # NoObj /\ ~db[c].deleting /\ rows[c][n].by = u}

Promise == INSTANCE Guarded WITH Uids   <- 1..MaxUid,
                                 there  <- {obj[k].uid : k \in {k \in Keys : obj[k] # NoObj}},
                                 stored <- storedBy

\* The objects and their rows do what a finalizer promises: step by step, a row is
\* written only for an object that exists, and the object goes after its row.
GuardsRows == Promise!Spec

Live(k) ==
  /\ obj[k] # NoObj /\ ~obj[k].deleting
  /\ db[obj[k].spec.cluster] # NoObj /\ ~db[obj[k].spec.cluster].deleting

Applicable(k) ==
  /\ obj[k].spec.options # Bad
  /\ obj[k].spec.secret => secret # NoObj /\ secret.form = "usable"

\* Once everything around it is quiet, the server holds what the spec and the
\* Kubernetes Secret now say, also after it was dropped by hand, and the status
\* says so; a spec that cannot be applied is reported.
EventuallyReplaced ==
  \A k \in Keys :
    <>[](Live(k) =>
           LET o == obj[k]
               v == IF o.spec.secret THEN secret.rv ELSE 0
           IN IF Applicable(k)
              THEN /\ rows[o.spec.cluster][NameOf(k, o.spec)]
                        = [by |-> o.uid, options |-> o.spec.options, version |-> v]
                   /\ o.status = [ready |-> [status |-> "True", reason |-> "Applied", gen |-> o.gen],
                                  version |-> v]
              ELSE /\ o.status.ready.status = "False" /\ o.status.ready.gen = o.gen
                   /\ o.status.ready.reason \in {"ValuesSecretMissing", "InvalidSpec"})

\* Every deletion ends, also when the values Secret or the SereneDB is deleted
\* first or the server is down for a while.
DeletionEnds == \A k \in Keys : []<>~(obj[k] # NoObj /\ obj[k].deleting)
=============================================================================
