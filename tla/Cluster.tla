------------------------------- MODULE Cluster -------------------------------
(***************************************************************************)
(* The Kubernetes cluster around the operator, as the operator's code uses *)
(* it: the objects of one SereneDB in the API server, the operator's       *)
(* informer cache and work queue, the garbage collector, the StatefulSet   *)
(* controller, the kubelet and the data volumes.  None of it is code of    *)
(* the repository; every action is external and models what the operator   *)
(* relies on.                                                              *)
(***************************************************************************)
EXTENDS Integers, Resources

CONSTANTS Specs,      \* specs the user may write
          Passwords,  \* values a random password can take
          Lagging,    \* kinds whose informer may lag behind the API server
          NoObj       \* "not found"

Children == {"secret", "configmap", "service", "headless", "statefulset",
             "networkpolicy"}
Kinds    == Children \cup {"db", "auth", "tls"}

Other   == -1   \* controlled by something that is not this SereneDB
Owners  == Nat \cup {Other}   \* otherwise the UID of a SereneDB

Templates == {Template(s) : s \in Specs}
Flagfiles == {Flagfile(s) : s \in Specs}
Tags      == {s.tag : s \in Specs}
Ports     == {s.port : s \in Specs}
Maybe(S)  == S \cup {NoObj}

Reasons == {"SecretMissing", "SecretKeyMissing", "TLSSecretNameRequired",
            "TLSSecretMissing"}

Condition == [ready : {"Unknown", "True", "False"}, gen : Nat,
              reason : Reasons \cup {"None", "ReconcileError", "PodReady",
                                     "PodNotReady"}]
DbStatus  == [observed : Nat, secretName : {"none", "secret", "auth"},
              readyReplicas : 0..1, version : Tags \cup {"none"},
              conditions : Condition]
DbObj     == [uid : Nat \ {0}, gen : Nat, spec : Specs, deleting : BOOLEAN,
              status : DbStatus]
SecretObj == [owner : Owners, pw : Passwords, key : STRING]
DataObj   == [owner : Owners, data : Flagfiles]
PortObj   == [owner : Owners, port : Ports \cup {"foreign"}]
StsStatus == [observed : Nat, ready : 0..1, updated : 0..1,
              current : Maybe(Templates), update : Maybe(Templates)]
StsObj    == [owner : Owners, gen : Nat, template : Templates,
              policy : {"Retain", "Delete"}, claim : {"template", "existing"},
              status : StsStatus]
ObjType   == [db |-> Maybe(DbObj), secret |-> Maybe(SecretObj),
              auth |-> Maybe(SecretObj), tls |-> Maybe([owner : {Unowned}]),
              configmap |-> Maybe(DataObj), service |-> Maybe(PortObj),
              headless |-> Maybe(PortObj), statefulset |-> Maybe(StsObj),
              networkpolicy |-> Maybe(PortObj)]

PodObj    == [rev : Templates, owner : {"sts", "gone"}, ready : BOOLEAN,
              claim : {"template", "existing"}, flags : Maybe(Flagfiles)]
VolObj    == [owner : {"none", "sts", "gone"}, src : {"none", "secret", "auth"},
              pw : Maybe(Passwords)]

ASSUME ClusterAssumption ==
  /\ Specs \subseteq SpecType
  /\ Lagging \subseteq Kinds
  /\ Passwords # {}
  /\ NoObj \notin DbObj \cup SecretObj \cup DataObj \cup PortObj \cup StsObj
                  \cup PodObj \cup VolObj \cup Templates \cup Flagfiles
                  \cup Passwords \cup [owner : {Unowned}]

VARIABLES obj,     \* the API server: object of each kind, or NoObj
          cache,   \* the operator's informer cache of the same objects
          queued,  \* is the SereneDB's key in the work queue?
          pod,     \* the database pod
          vol,     \* the data volumes: claim template's and the user's own
          served   \* history: pod templates a pod has become ready with

cluster == <<obj, cache, queued, pod, vol, served>>

\* o maps every kind to an object of that kind, or to NoObj.
Typed(o) == o = [k \in Kinds |-> o[k]] /\ \A k \in Kinds : o[k] \in ObjType[k]

ClusterTypeOK ==
  /\ Typed(obj)
  /\ Typed(cache)
  /\ queued \in BOOLEAN
  /\ pod \in Maybe(PodObj)
  /\ vol \in [template : Maybe(VolObj), existing : Maybe(VolObj)]
  /\ served \subseteq Templates

Blank == [owner |-> "none", src |-> "none", pw |-> NoObj]

ClusterInit ==
  /\ obj = [k \in Kinds |-> NoObj]
  /\ cache = [k \in Kinds |-> NoObj]
  /\ queued = FALSE
  /\ pod = NoObj
  /\ vol = [template |-> NoObj, existing |-> Blank]
  /\ served = {}

(***************************************************************************)
(* API server, informers and the work queue.                               *)
(***************************************************************************)
Controlled(o) == o # NoObj /\ o.owner > 0

\* A plausible slip: Owns(StatefulSet) forgotten, so a rollout wakes nobody up.
WatchedButStatefulSet(k, old, new) ==
  \/ k = "db"
  \/ k \in Children \ {"statefulset"} /\ (Controlled(old) \/ Controlled(new))

\* A plausible slip: a GenerationChangedPredicate on the SereneDB, which hides the
\* operator's own status writes.
WatchedGenerations(k, old, new) ==
  \/ k = "db" /\ (old = NoObj \/ new = NoObj \/ [old EXCEPT !.status = new.status] # new)
  \/ k \in Children /\ (Controlled(old) \/ Controlled(new))

\* SetupWithManager: For(SereneDB) enqueues on each of its own events, Owns(...)
\* on events of objects whose old or new controller is a SereneDB.
Watched(k, old, new) ==
  \/ k = "db"
  \/ k \in Children /\ (Controlled(old) \/ Controlled(new))

\* The key is queued when an informer that does not lag sees the write.
Event(k, new) ==
  k \notin Lagging /\ new # obj[k] /\ Watched(k, obj[k], new)

Write(k, new) ==
  /\ obj' = [obj EXCEPT ![k] = new]
  /\ cache' = IF k \in Lagging THEN cache ELSE [cache EXCEPT ![k] = new]

Put(k, new) == Write(k, new) /\ queued' = (queued \/ Event(k, new))

\* A lagging informer catches up with the API server.
Deliver(k) ==
  /\ k \in Lagging
  /\ cache[k] # obj[k]
  /\ cache' = [cache EXCEPT ![k] = obj[k]]
  /\ queued' = (queued \/ Watched(k, cache[k], obj[k]))
  /\ UNCHANGED <<obj, pod, vol, served>>

\* The API server rejects a pod template that mounts the data volume when
\* neither the template nor an (immutable) claim template defines it.
Rejected(k, new) ==
  k = "statefulset" /\ new.claim = "existing" /\ new.template.claim = "template"

(***************************************************************************)
(* Garbage collector.                                                      *)
(***************************************************************************)
Alive(uid) == obj.db # NoObj /\ obj.db.uid = uid /\ ~obj.db.deleting

Collectable(k) == Controlled(obj[k]) /\ ~Alive(obj[k].owner)

\* Deleting the StatefulSet leaves its pod, and the claim it owns, without owner.
Orphan ==
  /\ pod' = IF pod = NoObj THEN NoObj ELSE [pod EXCEPT !.owner = "gone"]
  /\ vol' = [vol EXCEPT !.template =
               IF @ # NoObj /\ @.owner = "sts" THEN [@ EXCEPT !.owner = "gone"] ELSE @]

Remove(k) ==
  /\ Put(k, NoObj)
  /\ IF k = "statefulset" THEN Orphan ELSE UNCHANGED <<pod, vol>>
  /\ UNCHANGED served

Collect(k) == k \in Children /\ Collectable(k) /\ Remove(k)

\* Foreground deletion ends when no dependent is left.
CollectDb ==
  /\ obj.db # NoObj /\ obj.db.deleting
  /\ \A k \in Children : obj[k] # NoObj => obj[k].owner # obj.db.uid
  /\ Remove("db")

CollectPod ==
  /\ pod # NoObj /\ pod.owner = "gone"
  /\ pod' = NoObj
  /\ UNCHANGED <<obj, cache, queued, vol, served>>

CollectVolume ==
  /\ pod = NoObj
  /\ vol.template # NoObj /\ vol.template.owner = "gone"
  /\ vol' = [vol EXCEPT !.template = NoObj]
  /\ UNCHANGED <<obj, cache, queued, pod, served>>

(***************************************************************************)
(* StatefulSet controller.                                                 *)
(***************************************************************************)
OwnPod == pod # NoObj /\ pod.owner = "sts"

StsStatusNow ==
  LET s       == obj.statefulset
      ready   == IF OwnPod /\ pod.ready THEN 1 ELSE 0
      updated == IF OwnPod /\ pod.rev = s.template THEN 1 ELSE 0
  IN [observed |-> s.gen, ready |-> ready, updated |-> updated,
      update |-> s.template,
      current |-> IF s.status.current = NoObj \/ (ready = 1 /\ updated = 1)
                  THEN s.template ELSE s.status.current]

StsReportStatus ==
  /\ obj.statefulset # NoObj
  /\ obj.statefulset.status # StsStatusNow
  /\ Put("statefulset", [obj.statefulset EXCEPT !.status = StsStatusNow])
  /\ UNCHANGED <<pod, vol, served>>

\* Who owns the claim under the StatefulSet's retention policy.
ClaimOwner == IF obj.statefulset.policy = "Delete" THEN "sts" ELSE "none"

StsCreatePod ==
  /\ obj.statefulset # NoObj
  /\ pod = NoObj
  /\ pod' = [rev |-> obj.statefulset.template, owner |-> "sts", ready |-> FALSE,
             claim |-> obj.statefulset.claim, flags |-> NoObj]
  /\ vol' = IF obj.statefulset.claim = "template" /\ vol.template = NoObj
            THEN [vol EXCEPT !.template = [Blank EXCEPT !.owner = ClaimOwner]]
            ELSE vol
  /\ UNCHANGED <<obj, cache, queued, served>>

StsReplacePod ==
  /\ obj.statefulset # NoObj
  /\ OwnPod
  /\ pod.rev # obj.statefulset.template
  /\ pod' = NoObj
  /\ UNCHANGED <<obj, cache, queued, vol, served>>

StsSyncClaim ==
  /\ obj.statefulset # NoObj
  /\ obj.statefulset.claim = "template"
  /\ vol.template # NoObj
  /\ vol.template.owner \notin {"gone", ClaimOwner}
  /\ vol' = [vol EXCEPT !.template.owner = ClaimOwner]
  /\ UNCHANGED <<obj, cache, queued, pod, served>>

(***************************************************************************)
(* Kubelet and serened.                                                    *)
(***************************************************************************)
Bootable ==
  /\ pod # NoObj /\ ~pod.ready
  /\ obj[pod.rev.secretName] # NoObj
  /\ obj[pod.rev.secretName].key = pod.rev.key
  /\ obj.configmap # NoObj
  /\ pod.rev.tls = "on" => obj.tls # NoObj
  /\ vol[pod.claim] # NoObj

\* serened reads its flagfile when it starts and honours POSTGRES_PASSWORD only
\* on the first boot of its data directory.
Boot ==
  /\ Bootable
  /\ pod' = [pod EXCEPT !.ready = TRUE, !.flags = obj.configmap.data]
  /\ vol' = IF vol[pod.claim].src = "none"
            THEN [vol EXCEPT ![pod.claim].src = pod.rev.secretName,
                             ![pod.claim].pw = obj[pod.rev.secretName].pw]
            ELSE vol
  /\ served' = served \cup {pod.rev}
  /\ UNCHANGED <<obj, cache, queued>>

\* The container dies and will be restarted in the same pod.
PodFails ==
  /\ pod # NoObj /\ pod.ready
  /\ pod' = [pod EXCEPT !.ready = FALSE]
  /\ UNCHANGED <<obj, cache, queued, vol, served>>

\* Everything the cluster does on its own.
ClusterStep ==
  \/ \E k \in Kinds : Deliver(k) \/ Collect(k)
  \/ CollectDb \/ CollectPod \/ CollectVolume
  \/ StsReportStatus \/ StsCreatePod \/ StsReplacePod \/ StsSyncClaim
  \/ Boot
=============================================================================
