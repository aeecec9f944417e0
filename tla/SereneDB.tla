------------------------------- MODULE SereneDB -------------------------------
(***************************************************************************)
(* SereneDBReconciler (internal/controller/serenedb_controller.go): one    *)
(* work-queue key, reconciled by one worker, in the cluster of module      *)
(* Cluster.  Every call the reconciler makes to the API server is a step   *)
(* of its own, so users, the garbage collector, the StatefulSet controller *)
(* and a crash of the operator interleave with it; the reads of one step   *)
(* are reads of the informer cache.                                        *)
(***************************************************************************)
EXTENDS Cluster

CONSTANTS Deletions,      \* how the user may delete: background, foreground
          MaxUid,         \* SereneDB objects the user creates in a row
          MaxEdits,       \* spec edits
          MaxFaults,      \* failed API calls and operator restarts
          MaxPodFailures, \* container failures
          MaxDrift        \* objects other actors delete or put in the way

ASSUME BoundsAssumption ==
  /\ Deletions \subseteq {"background", "foreground"}
  /\ {MaxUid, MaxEdits, MaxFaults, MaxPodFailures, MaxDrift} \subseteq Nat

VARIABLES pc,    \* next step of the running reconcile, or "idle"
          seen,  \* the SereneDB the reconcile read from the cache
          err,   \* outcome so far: "none", "error", or the reason it is blocked
          got,   \* what reconcileStatefulSet returned, as describe reads it
          uids, edits, faults, podFailures, drift   \* what the bounds count

worker == <<pc, seen, err, got>>
budget == <<uids, edits, faults, podFailures, drift>>
vars   == <<cluster, worker, budget>>

Steps == {"secret", "tls", "configmap", "service", "headless", "statefulset",
          "networkpolicy", "status"}

TypeOK ==
  /\ ClusterTypeOK
  /\ pc \in Steps \cup {"idle"}
  /\ seen \in Maybe(DbObj)
  /\ pc # "idle" => seen # NoObj
  /\ err \in Reasons \cup {"none", "error"}
  /\ got \in [ready : 0..1, complete : BOOLEAN]
  /\ uids \in Nat /\ edits \in Nat /\ faults \in Nat
  /\ podFailures \in Nat /\ drift \in Nat

NoSts == [ready |-> 0, complete |-> FALSE]

Init ==
  /\ ClusterInit
  /\ pc = "idle" /\ seen = NoObj /\ err = "none" /\ got = NoSts
  /\ uids = 0 /\ edits = 0 /\ faults = 0 /\ podFailures = 0 /\ drift = 0

(***************************************************************************)
(* Steps of a reconcile and how they end.                                  *)
(***************************************************************************)
\* A plausible slip: the StatefulSet, with its hash, before the ConfigMap.
StatefulSetFirst ==
  [secret |-> "tls", tls |-> "service", service |-> "headless",
   headless |-> "statefulset", statefulset |-> "configmap",
   configmap |-> "networkpolicy", networkpolicy |-> "status"]

\* The order of reconcileResources, then the status patch.
NextStep ==
  [secret |-> "tls", tls |-> "configmap", configmap |-> "service",
   service |-> "headless", headless |-> "statefulset",
   statefulset |-> "networkpolicy", networkpolicy |-> "status"]

Continue  == pc' = NextStep[pc] /\ UNCHANGED err
Return(e) == pc' = "status" /\ err' = e      \* e: "error" or a blocked reason

\* A step that makes no call to the API server.
NoCall == UNCHANGED <<cluster, budget>>

\* A call that writes `new`.  It may fail, without effect or with its answer
\* lost after the write.
Call(k, new) ==
  /\ UNCHANGED <<pod, vol, served, uids, edits, podFailures, drift>>
  /\ \/ Put(k, new) /\ Continue /\ UNCHANGED faults
     \/ /\ faults < MaxFaults
        /\ faults' = faults + 1
        /\ Put(k, new) \/ UNCHANGED <<obj, cache, queued>>
        /\ Return("error")

\* A call the API server refuses: AlreadyExists, NotFound, Conflict or Invalid.
Refused == NoCall /\ Return("error")

\* controllerutil.CreateOrUpdate with SetControllerReference in its mutate
\* function.  fresh is what is created, changed the mutated cached object;
\* always says that the builder leaves server-defaulted fields unset, so that
\* the update is sent even when nothing else changed.
CreateOrUpdate(k, fresh, changed, always) ==
  LET cached == cache[k] IN
  \/ /\ cached = NoObj
     /\ IF obj[k] = NoObj THEN Call(k, fresh) ELSE Refused
  \/ /\ cached # NoObj /\ cached.owner = Other
     /\ Refused                                   \* AlreadyOwnedError
  \/ /\ cached # NoObj /\ cached.owner # Other
     /\ ~always /\ changed = cached
     /\ NoCall /\ Continue
  \/ /\ cached # NoObj /\ cached.owner # Other
     /\ always \/ changed # cached
     /\ IF obj[k] = cached /\ ~Rejected(k, changed) THEN Call(k, changed) ELSE Refused

(***************************************************************************)
(* The reconciler.                                                         *)
(***************************************************************************)
\* controllerutil.SetControllerReference(db, o)
Own(o) == [o EXCEPT !.owner = seen.uid]

\* Plausible slips: NotFound is not looked at, or the deletion timestamp is not.
DeletingOnly(db) == db # NoObj /\ db.deleting
NotFoundOnly(db) == db = NoObj

\* Reconcile returns at once: the SereneDB is gone or being deleted.
NothingToDo(db) == db = NoObj \/ db.deleting

\* Reconcile takes the key from the queue and gets the SereneDB.
Reconcile ==
  /\ pc = "idle" /\ queued
  /\ queued' = FALSE
  /\ IF NothingToDo(cache.db)
     THEN UNCHANGED <<pc, seen, err, got>>
     ELSE pc' = "secret" /\ seen' = cache.db /\ err' = "none" /\ got' = NoSts
  /\ UNCHANGED <<obj, cache, pod, vol, served, budget>>

checkExistingSecret ==
  /\ seen.spec.auth = "existing"
  /\ NoCall
  /\ CASE cache.auth = NoObj                  -> Return("SecretMissing")
       [] cache.auth # NoObj /\ cache.auth.key # seen.spec.key -> Return("SecretKeyMissing")
       [] OTHER                               -> Continue

createGeneratedSecret ==
  /\ seen.spec.auth = "generated"
  /\ cache.secret = NoObj
  /\ IF obj.secret # NoObj
     THEN NoCall /\ Continue                      \* AlreadyExists is ignored
     ELSE \E p \in Passwords :
            LET secret == GeneratedSecret(seen.spec, p)
            IN Call("secret", IF SecretOwnedByDatabase(seen.spec) THEN Own(secret) ELSE secret)

syncSecretOwnership ==
  LET wantOwned == SecretOwnedByDatabase(seen.spec)
      isOwned   == cache.secret.owner = seen.uid
      owner     == IF wantOwned THEN seen.uid ELSE Unowned
  IN /\ seen.spec.auth = "generated"
     /\ cache.secret # NoObj
     /\ CASE cache.secret.key # seen.spec.key -> NoCall /\ Return("SecretKeyMissing")
          [] cache.secret.key = seen.spec.key /\ wantOwned = isOwned -> NoCall /\ Continue
          [] cache.secret.key = seen.spec.key /\ wantOwned # isOwned ->
               IF obj.secret = NoObj \/ (wantOwned /\ cache.secret.owner = Other)
               THEN Refused
               ELSE Call("secret", [obj.secret EXCEPT !.owner = owner])

reconcileSecret ==
  /\ pc = "secret"
  /\ checkExistingSecret \/ createGeneratedSecret \/ syncSecretOwnership
  /\ UNCHANGED <<seen, got>>

\* TLS is off, or names a Secret that exists.
TLSUsable(s) == s.tls = "off" \/ (s.tls = "on" /\ cache.tls # NoObj)

checkTLSSecret ==
  /\ pc = "tls"
  /\ NoCall
  /\ IF TLSUsable(seen.spec) THEN Continue
     ELSE Return(IF seen.spec.tls = "unnamed" THEN "TLSSecretNameRequired" ELSE "TLSSecretMissing")
  /\ UNCHANGED <<seen, got>>

reconcileConfigMap ==
  /\ pc = "configmap"
  /\ LET cm == Own(ConfigMap(seen.spec))
     IN CreateOrUpdate("configmap", cm, cm, FALSE)
  /\ UNCHANGED <<seen, got>>

\* The headless Service has no type in the builder, so its update is always sent.
applyService(k) ==
  /\ k \in {"service", "headless"}
  /\ pc = k
  /\ LET svc == Own(Service(seen.spec))
     IN CreateOrUpdate(k, svc, svc, k = "headless")
  /\ UNCHANGED <<seen, got>>

\* A plausible slip: the status of an older generation is taken at face value.
RolloutIgnoringGeneration(sts) ==
  /\ sts.status.ready = 1 /\ sts.status.updated = 1
  /\ sts.status.current = sts.status.update

rolloutComplete(sts) ==
  /\ sts.status.observed = sts.gen
  /\ sts.status.ready = 1 /\ sts.status.updated = 1
  /\ sts.status.current = sts.status.update

NewSts ==
  [owner |-> seen.uid, gen |-> 1, template |-> Template(seen.spec),
   policy |-> RetentionPolicy(seen.spec), claim |-> seen.spec.claim,
   status |-> [observed |-> 0, ready |-> 0, updated |-> 0,
               current |-> NoObj, update |-> NoObj]]

\* The mutable fields; the API server counts generations of the spec.
ChangedSts(sts) ==
  LET template == Template(seen.spec)
      policy   == RetentionPolicy(seen.spec)
      gen      == IF template = sts.template /\ policy = sts.policy
                  THEN sts.gen ELSE sts.gen + 1
  IN [sts EXCEPT !.owner = seen.uid, !.template = template, !.policy = policy, !.gen = gen]

reconcileStatefulSet ==
  /\ pc = "statefulset"
  /\ LET cached  == cache.statefulset
         changed == IF cached = NoObj THEN NewSts ELSE ChangedSts(cached)
     IN /\ CreateOrUpdate("statefulset", NewSts, changed, TRUE)
        /\ got' = [ready |-> changed.status.ready, complete |-> rolloutComplete(changed)]
  /\ UNCHANGED seen

\* metav1.IsControlledBy(existing, db), on the cached policy.
OwnedNetworkPolicy(np) == np # NoObj /\ np.owner = seen.uid

\* The Get reads the cached copy and the Delete goes by name, without a
\* precondition.  The time between the two is the age of the copy: what a later
\* Delete would meet, an informer that lags gives this step too.
deleteOwnedNetworkPolicy ==
  IF OwnedNetworkPolicy(cache.networkpolicy) /\ obj.networkpolicy # NoObj
  THEN Call("networkpolicy", NoObj)
  ELSE NoCall /\ Continue

reconcileNetworkPolicy ==
  /\ pc = "networkpolicy"
  /\ LET np == Own(NetworkPolicy(seen.spec))
     IN IF seen.spec.netpol THEN CreateOrUpdate("networkpolicy", np, np, FALSE)
                            ELSE deleteOwnedNetworkPolicy
  /\ UNCHANGED <<seen, got>>

Blocked(e) == e \in Reasons

NothingServing(status, cond) == [status EXCEPT !.readyReplicas = 0, !.conditions = cond]

\* The status the reconcile computes on its copy of the SereneDB.
describe(db, e, sts) ==
  LET cond(ready, reason) == [ready |-> ready, reason |-> reason, gen |-> db.gen]
      named == [db.status EXCEPT !.observed = db.gen, !.secretName = SecretName(db.spec)]
  IN CASE Blocked(e)  -> NothingServing(named, cond("False", e))
       [] e = "error" -> [named EXCEPT !.conditions = cond("False", "ReconcileError")]
       [] e = "none" /\ sts.complete ->
            [named EXCEPT !.readyReplicas = sts.ready, !.version = db.spec.tag,
                          !.conditions = cond("True", "PodReady")]
       [] e = "none" /\ ~sts.complete ->
            [named EXCEPT !.readyReplicas = sts.ready,
                          !.conditions = cond("False", "PodNotReady")]

\* A JSON merge patch of the fields that differ from the copy that was read,
\* applied to whatever SereneDB of that name now exists.
Patched(db, status) ==
  [db EXCEPT !.status =
     [f \in DOMAIN status |-> IF status[f] # seen.status[f] THEN status[f] ELSE db.status[f]]]

\* A plausible slip: a blocked reconcile waits for an event instead of polling.
RequeueErrors(e) == e = "error"

\* RequeueAfter for a blocked reconcile, rate-limited retry for an error: the
\* key comes back after some delay.
Requeue(e) == e # "none"

PatchStatus ==
  /\ pc = "status"
  /\ pc' = "idle" /\ seen' = NoObj /\ err' = "none" /\ got' = NoSts
  /\ UNCHANGED <<pod, vol, served, uids, edits, podFailures, drift>>
  /\ LET new == Patched(obj.db, describe(seen, err, got)) IN
     \/ /\ obj.db # NoObj
        /\ Write("db", new)
        /\ queued' = (queued \/ Event("db", new) \/ Requeue(err))
        /\ UNCHANGED faults
     \/ /\ obj.db = NoObj                               \* NotFound
        /\ queued' = TRUE
        /\ UNCHANGED <<obj, cache, faults>>
     \/ /\ faults < MaxFaults
        /\ faults' = faults + 1
        /\ queued' = TRUE
        /\ UNCHANGED <<obj, cache>> \/ (obj.db # NoObj /\ Write("db", new))

\* A read fails: reconcileResources returns the error from whatever step it is at.
GetFails ==
  /\ pc \in Steps \ {"status"}
  /\ faults < MaxFaults
  /\ faults' = faults + 1
  /\ Return("error")
  /\ UNCHANGED <<cluster, seen, got, uids, edits, podFailures, drift>>

\* The operator process is replaced: its caches are listed afresh and every
\* listed object that is watched enqueues the key.
Restart ==
  /\ faults < MaxFaults
  /\ faults' = faults + 1
  /\ pc' = "idle" /\ seen' = NoObj /\ err' = "none" /\ got' = NoSts
  /\ cache' = obj
  /\ queued' = \E k \in Kinds : obj[k] # NoObj /\ Watched(k, NoObj, obj[k])
  /\ UNCHANGED <<obj, pod, vol, served, uids, edits, podFailures, drift>>

Worker ==
  \/ Reconcile \/ reconcileSecret \/ checkTLSSecret \/ reconcileConfigMap
  \/ applyService("service") \/ applyService("headless")
  \/ reconcileStatefulSet \/ reconcileNetworkPolicy \/ GetFails \/ PatchStatus

(***************************************************************************)
(* Users and other actors.                                                 *)
(***************************************************************************)
NoStatus ==
  [observed |-> 0, secretName |-> "none", readyReplicas |-> 0, version |-> "none",
   conditions |-> [ready |-> "Unknown", reason |-> "None", gen |-> 0]]

CreateDb ==
  /\ obj.db = NoObj
  /\ uids < MaxUid
  /\ uids' = uids + 1
  /\ \E s \in Specs :
       Put("db", [uid |-> uids + 1, gen |-> 1, spec |-> s, deleting |-> FALSE,
                  status |-> NoStatus])
  /\ UNCHANGED <<pod, vol, served, worker, edits, faults, podFailures, drift>>

\* persistence.existingClaim is immutable.
EditDb ==
  /\ obj.db # NoObj
  /\ edits < MaxEdits
  /\ edits' = edits + 1
  /\ \E s \in Specs :
       /\ s # obj.db.spec
       /\ s.claim = obj.db.spec.claim
       /\ Put("db", [obj.db EXCEPT !.spec = s, !.gen = @ + 1])
  /\ UNCHANGED <<pod, vol, served, worker, uids, faults, podFailures, drift>>

\* kubectl delete, with background or with foreground cascading deletion.
DeleteDb ==
  /\ obj.db # NoObj /\ ~obj.db.deleting
  /\ \/ "background" \in Deletions /\ Remove("db")
     \/ /\ "foreground" \in Deletions
        /\ Put("db", [obj.db EXCEPT !.deleting = TRUE])
        /\ UNCHANGED <<pod, vol, served>>
  /\ UNCHANGED <<worker, budget>>

\* The user provides the Secret spec.auth.existingSecret names, with the key the
\* spec asks for or with another ...
CreateAuthSecret ==
  /\ obj.auth = NoObj
  /\ \E s \in Specs : s.auth = "existing"
  /\ \E s \in Specs, p \in Passwords :
       Put("auth", [owner |-> Unowned, pw |-> p, key |-> s.key])
  /\ UNCHANGED <<pod, vol, served, worker, budget>>

\* ... and the one spec.tls.secretName names.
CreateTLSSecret ==
  /\ obj.tls = NoObj
  /\ \E s \in Specs : s.tls = "on"
  /\ Put("tls", [owner |-> Unowned])
  /\ UNCHANGED <<pod, vol, served, worker, budget>>

\* Somebody deletes an object the operator needs; the generated password is not
\* one of them, nothing could bring it back.
Delete(k) ==
  /\ obj[k] # NoObj
  /\ drift < MaxDrift
  /\ drift' = drift + 1
  /\ Remove(k)
  /\ UNCHANGED <<worker, uids, edits, faults, podFailures>>

\* Somebody creates a NetworkPolicy of the same name.
CreateForeignNetworkPolicy ==
  /\ obj.networkpolicy = NoObj
  /\ drift < MaxDrift
  /\ drift' = drift + 1
  /\ \E o \in {Unowned, Other} : Put("networkpolicy", [owner |-> o, port |-> "foreign"])
  /\ UNCHANGED <<pod, vol, served, worker, uids, edits, faults, podFailures>>

ContainerFails ==
  /\ podFailures < MaxPodFailures
  /\ podFailures' = podFailures + 1
  /\ PodFails
  /\ UNCHANGED <<worker, uids, edits, faults, drift>>

User ==
  \/ CreateDb \/ EditDb \/ DeleteDb \/ CreateAuthSecret \/ CreateTLSSecret
  \/ \E k \in Kinds \ {"db", "secret"} : Delete(k)
  \/ CreateForeignNetworkPolicy

Environment == ClusterStep /\ UNCHANGED <<worker, budget>>

Next == Worker \/ Restart \/ Environment \/ ContainerFails \/ User

Spec == Init /\ [][Next]_vars
(***************************************************************************)
(* Fairness: the work queue and its worker, the informers and Kubernetes'  *)
(* own controllers keep running.  Nothing is assumed of users, failures    *)
(* and restarts, which the bounds make finite.                             *)
(***************************************************************************)
Env(A) == A /\ UNCHANGED <<worker, budget>>

Fairness ==
  /\ WF_vars(Worker)
  /\ \A k \in Kinds : WF_vars(Env(Deliver(k))) /\ WF_vars(Env(Collect(k)))
  /\ WF_vars(Env(CollectDb)) /\ WF_vars(Env(CollectPod)) /\ WF_vars(Env(CollectVolume))
  /\ WF_vars(Env(StsReportStatus)) /\ WF_vars(Env(StsCreatePod))
  /\ WF_vars(Env(StsReplacePod)) /\ WF_vars(Env(StsSyncClaim))
  /\ WF_vars(Env(Boot))

FairSpec == Spec /\ Fairness

(***************************************************************************)
(* Properties.                                                             *)
(***************************************************************************)
\* A data volume whose superuser password came from the generated Secret can
\* always be opened: that Secret exists and still holds that password.  serened
\* honours the password on first boot only, so a Secret lost or generated anew
\* locks the user out.
NoLockout ==
  \A c \in DOMAIN vol :
    vol[c] # NoObj /\ vol[c].src = "secret"
      => obj.secret # NoObj /\ obj.secret.pw = vol[c].pw

\* The garbage collector has nothing left to do.
Collected ==
  /\ \A k \in Children : ~Collectable(k)
  /\ pod # NoObj => pod.owner # "gone"
  /\ vol.template # NoObj => vol.template.owner # "gone"

\* "It must outlive the SereneDB whenever the data volume does": whenever no
\* reconcile is under way and everything collectable has been collected, a data
\* volume that is still there has the generated Secret its password came from.
PasswordOutlivesVolume == pc = "idle" /\ Collected => NoLockout

\* The status never claims a rollout that did not happen: Ready for the current
\* generation means a pod of exactly this spec has been serving, and the version
\* is the tag of a pod that has been serving.
StatusIsEarned ==
  obj.db # NoObj =>
    LET status == obj.db.status IN
    /\ status.conditions.ready = "True" /\ status.conditions.gen = obj.db.gen
         => Template(obj.db.spec) \in served
    /\ status.version # "none" => \E t \in served : t.image = status.version

Live == obj.db # NoObj /\ ~obj.db.deleting

\* The informers have caught up and the worker has nothing to do.
Settled == pc = "idle" /\ ~queued /\ cache = obj

\* Once the operator has settled and the pod is of the StatefulSet's current
\* template, it runs with the flagfile that the hash in that template digests:
\* no change of the configuration is left behind without a roll.
PodRunsHashedFlagfile ==
  Settled /\ Live /\ obj.statefulset # NoObj /\ OwnPod /\ pod.ready /\ pod.rev = obj.statefulset.template
    => ConfigHash(pod.flags) = pod.rev.hash

\* The Secret that holds the password is there and lacks the key of the spec.
KeyMissing(s) ==
  LET secret == obj[SecretName(s)] IN secret # NoObj /\ secret.key # s.key

\* What the user must still provide before the database can be rolled out: the
\* first thing that is missing, as a condition of the SereneDB names it.
Obstacle(s) ==
  IF s.auth = "existing" /\ obj.auth = NoObj THEN "SecretMissing"
  ELSE IF KeyMissing(s) THEN "SecretKeyMissing"
  ELSE IF s.tls = "unnamed" THEN "TLSSecretNameRequired"
  ELSE IF s.tls = "on" /\ obj.tls = NoObj THEN "TLSSecretMissing"
  ELSE "none"

SecretsPresent(s) == Obstacle(s) = "none"

\* Nothing of another owner stands in the way.
Unobstructed == \A k \in Children : obj[k] # NoObj => obj[k].owner # Other

\* The database runs what the spec says and the status says so.
Serving ==
  LET s == obj.db.spec
      u == obj.db.uid
  IN /\ obj.configmap = [owner |-> u, data |-> Flagfile(s)]
     /\ \A k \in {"service", "headless"} : obj[k] = [owner |-> u, port |-> s.port]
     /\ obj.statefulset # NoObj
     /\ obj.statefulset.owner = u
     /\ obj.statefulset.template = Template(s)
     /\ obj.statefulset.policy = RetentionPolicy(s)
     /\ IF s.netpol THEN obj.networkpolicy = [owner |-> u, port |-> s.port]
        ELSE obj.networkpolicy # NoObj => obj.networkpolicy.owner # u
     /\ pod # NoObj /\ pod.ready /\ pod.rev = Template(s) /\ pod.flags = Flagfile(s)
     /\ obj.db.status = [observed |-> obj.db.gen, secretName |-> SecretName(s),
                         readyReplicas |-> 1, version |-> s.tag,
                         conditions |-> [ready |-> "True", reason |-> "PodReady",
                                         gen |-> obj.db.gen]]

\* Once users, failures and restarts are done, a live SereneDB whose Secrets are
\* there is served as its spec says, whatever edits, losses, conflicts and stale
\* reads came before.
EventuallyServes ==
  <>[](Live /\ SecretsPresent(obj.db.spec) /\ Unobstructed => Serving)

\* A live SereneDB that waits for its user is eventually reported as blocked, for
\* its current generation and for what is missing then: the Secrets are not
\* watched, and the user may provide one of two, or one with another key.
EventuallyBlocked ==
  <>[](Live /\ ~SecretsPresent(obj.db.spec)
         => obj.db.status.conditions =
              [ready |-> "False", reason |-> Obstacle(obj.db.spec), gen |-> obj.db.gen])

\* A foreground deletion completes: the reconciler does not keep re-creating what
\* the garbage collector removes.
DeletionCompletes ==
  \A u \in 1..MaxUid :
    obj.db # NoObj /\ obj.db.uid = u /\ obj.db.deleting
      ~> ~(obj.db # NoObj /\ obj.db.uid = u)
=============================================================================
