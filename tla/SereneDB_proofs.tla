---------------------------- MODULE SereneDB_proofs ----------------------------
(***************************************************************************)
(* Proofs about SereneDB for every set of specs, of passwords and of       *)
(* lagging informers, and every bound.                                     *)
(***************************************************************************)
EXTENDS SereneDB, TLAPS

(***************************************************************************)
(* What the builders return.                                               *)
(***************************************************************************)
\* The flagfile and the pod template of a spec are among those of Specs.
LEMMA BuilderTypes ==
  ASSUME NEW s \in Specs
  PROVE  /\ Flagfile(s) \in Flagfiles
         /\ s.tag \in Tags /\ s.port \in Ports
         /\ Template(s) \in Templates
         /\ RetentionPolicy(s) \in {"Retain", "Delete"}
         /\ SecretName(s) \in {"secret", "auth"}
         /\ s \in SpecType
         /\ Template(s).secretName = SecretName(s)
         /\ Template(s).image = s.tag
BY ClusterAssumption
   DEF Flagfiles, Templates, Tags, Ports, RetentionPolicy, SecretName, SpecType, Template, PodTemplate

\* Every pod template names one of the two Secrets, and its own claim kind.
LEMMA TemplateFields ==
  ASSUME NEW t \in Templates
  PROVE  t.secretName \in {"secret", "auth"} /\ t.image \in Tags
<1>1. PICK s \in Specs : t = Template(s)
  BY DEF Templates
<1> QED
  BY <1>1, BuilderTypes

(***************************************************************************)
(* Writes to the API server keep objects and caches well formed.           *)
(***************************************************************************)
\* Replacing one object by one of its kind keeps the whole map well formed.
LEMMA TypedExcept ==
  ASSUME NEW o, Typed(o), NEW k \in Kinds, NEW new \in ObjType[k]
  PROVE  Typed([o EXCEPT ![k] = new])
<1> DEFINE p == [o EXCEPT ![k] = new]
<1>1. o = [j \in Kinds |-> o[j]]
  BY DEF Typed
<1>2. p = [j \in Kinds |-> p[j]]
  BY <1>1
<1>3. \A j \in Kinds : p[j] \in ObjType[j]
  <2> SUFFICES ASSUME NEW j \in Kinds PROVE p[j] \in ObjType[j]
    OBVIOUS
  <2>1. CASE j = k
    BY <2>1, <1>1
  <2>2. CASE j # k
    <3>1. p[j] = o[j]
      BY <2>2, <1>1
    <3> QED
      BY <3>1 DEF Typed
  <2> QED
    BY <2>1, <2>2
<1> QED
  BY <1>2, <1>3 DEF Typed

\* A write, and the event it may cause, preserve the types of objects, caches
\* and queue.
LEMMA WriteTypes ==
  ASSUME Typed(obj), Typed(cache), NEW k \in Kinds, NEW new \in ObjType[k], Write(k, new)
  PROVE  Typed(obj') /\ Typed(cache')
BY TypedExcept DEF Write

\* So does a write together with the event it may cause.
LEMMA PutTypes ==
  ASSUME Typed(obj), Typed(cache), NEW k \in Kinds, NEW new \in ObjType[k], Put(k, new)
  PROVE  Typed(obj') /\ Typed(cache') /\ queued' \in BOOLEAN
BY WriteTypes DEF Put

(***************************************************************************)
(* Steps of the worker.                                                    *)
(***************************************************************************)
\* What every step of a reconcile must re-establish, besides seen and got.
StepTypes ==
  /\ ClusterTypeOK
  /\ pc \in Steps
  /\ err \in Reasons \cup {"none", "error"}
  /\ uids \in Nat /\ edits \in Nat /\ faults \in Nat
  /\ podFailures \in Nat /\ drift \in Nat

\* Continue and Return lead to a step of the reconcile.
LEMMA ContinueTypes ==
  ASSUME TypeOK, pc \in Steps \ {"status"}, Continue
  PROVE  pc' \in Steps /\ err' \in Reasons \cup {"none", "error"}
BY DEF TypeOK, Steps, Continue, NextStep

\* Return leads to the status step with an outcome.
LEMMA ReturnTypes ==
  ASSUME NEW e \in Reasons \cup {"error"}, Return(e)
  PROVE  pc' \in Steps /\ err' \in Reasons \cup {"none", "error"}
BY DEF Steps, Return

\* A step that makes no call, or whose call is refused, preserves the types.
LEMMA NoCallTypes ==
  ASSUME TypeOK, pc \in Steps \ {"status"}, NoCall,
         Continue \/ \E e \in Reasons \cup {"error"} : Return(e)
  PROVE  StepTypes'
<1>1. ClusterTypeOK'
  BY DEF TypeOK, ClusterTypeOK, NoCall, cluster, Typed
<1>2. pc' \in Steps /\ err' \in Reasons \cup {"none", "error"}
  BY ContinueTypes, ReturnTypes
<1> QED
  BY <1>1, <1>2 DEF StepTypes, TypeOK, NoCall, budget

\* A refused call ends the reconcile in its status step.
LEMMA RefusedTypes ==
  ASSUME TypeOK, pc \in Steps \ {"status"}, Refused
  PROVE  StepTypes'
BY NoCallTypes DEF Refused

\* A call that writes a well-formed object preserves the types, however it ends.
LEMMA CallTypes ==
  ASSUME TypeOK, pc \in Steps \ {"status"}, NEW k \in Kinds, NEW new \in ObjType[k],
         Call(k, new)
  PROVE  StepTypes'
<1>1. Typed(obj') /\ Typed(cache') /\ queued' \in BOOLEAN
  <2>1. CASE Put(k, new)
    BY <2>1, PutTypes DEF TypeOK, ClusterTypeOK
  <2>2. CASE UNCHANGED <<obj, cache, queued>>
    BY <2>2 DEF TypeOK, ClusterTypeOK, Typed
  <2> QED
    BY <2>1, <2>2 DEF Call
<1>2. ClusterTypeOK'
  BY <1>1 DEF Call, TypeOK, ClusterTypeOK
<1>3. pc' \in Steps /\ err' \in Reasons \cup {"none", "error"}
  <2>1. CASE Continue
    BY <2>1, ContinueTypes
  <2>2. CASE Return("error")
    BY <2>2, ReturnTypes
  <2> QED
    BY <2>1, <2>2 DEF Call
<1>4. faults' \in Nat
  BY DEF Call, TypeOK
<1> QED
  BY <1>2, <1>3, <1>4 DEF StepTypes, TypeOK, Call

\* So does CreateOrUpdate of well-formed objects.
LEMMA CreateOrUpdateTypes ==
  ASSUME TypeOK, pc \in Steps \ {"status"}, NEW k \in Kinds,
         NEW fresh \in ObjType[k], NEW changed \in ObjType[k], NEW always,
         CreateOrUpdate(k, fresh, changed, always)
  PROVE  StepTypes'
<1>1. \/ Call(k, fresh) \/ Call(k, changed) \/ Refused \/ (NoCall /\ Continue)
  BY DEF CreateOrUpdate
<1> QED
  BY <1>1, CallTypes, RefusedTypes, NoCallTypes

\* A step of a reconcile keeps the SereneDB it has read.
LEMMA StepTypeOK ==
  ASSUME TypeOK, pc \in Steps, StepTypes', seen' = seen,
         got' \in [ready : 0..1, complete : BOOLEAN]
  PROVE  TypeOK'
BY DEF TypeOK, StepTypes, Steps

\* The SereneDB a running reconcile has read, and what is built from it.
LEMMA SeenTypes ==
  ASSUME TypeOK, pc \in Steps
  PROVE  /\ seen \in DbObj /\ seen # NoObj
         /\ seen.uid \in Owners /\ seen.uid \in Nat \ {0}
         /\ seen.spec \in Specs /\ seen.spec \in SpecType
         /\ [owner |-> seen.uid, data |-> Flagfile(seen.spec)] \in DataObj
         /\ [owner |-> seen.uid, port |-> seen.spec.port] \in PortObj
<1>1. seen \in DbObj /\ seen # NoObj
  BY DEF TypeOK, Steps, Maybe
<1>2. seen.uid \in Owners /\ seen.uid \in Nat \ {0} /\ seen.spec \in Specs
  BY <1>1 DEF DbObj, Owners
<1>3. /\ seen.spec \in SpecType /\ Flagfile(seen.spec) \in Flagfiles
      /\ seen.spec.port \in Ports
  BY <1>2, BuilderTypes
<1> QED
  BY <1>1, <1>2, <1>3 DEF DataObj, PortObj

\* The object kinds, one by one.
LEMMA KindTypes ==
  /\ ObjType["db"] = DbObj \cup {NoObj}
  /\ ObjType["secret"] = SecretObj \cup {NoObj}
  /\ ObjType["auth"] = SecretObj \cup {NoObj}
  /\ ObjType["tls"] = [owner : {Unowned}] \cup {NoObj}
  /\ ObjType["configmap"] = DataObj \cup {NoObj}
  /\ ObjType["service"] = PortObj \cup {NoObj}
  /\ ObjType["headless"] = PortObj \cup {NoObj}
  /\ ObjType["statefulset"] = StsObj \cup {NoObj}
  /\ ObjType["networkpolicy"] = PortObj \cup {NoObj}
  /\ \A k \in Kinds : NoObj \in ObjType[k]
BY DEF ObjType, Maybe, Kinds, Children

\* The types of the single objects and of their cached copies.
LEMMA ObjectTypes ==
  ASSUME NEW o, Typed(o)
  PROVE  /\ o.db \in DbObj \cup {NoObj}
         /\ o.secret \in SecretObj \cup {NoObj}
         /\ o.auth \in SecretObj \cup {NoObj}
         /\ o.tls \in [owner : {Unowned}] \cup {NoObj}
         /\ o.configmap \in DataObj \cup {NoObj}
         /\ o.service \in PortObj \cup {NoObj}
         /\ o.headless \in PortObj \cup {NoObj}
         /\ o.statefulset \in StsObj \cup {NoObj}
         /\ o.networkpolicy \in PortObj \cup {NoObj}
BY KindTypes DEF Typed, Kinds, Children

\* What the builders return, once the SereneDB is set as the controller.
LEMMA BuiltObjects ==
  ASSUME NEW s
  PROVE  /\ Own(ConfigMap(s)) = [owner |-> seen.uid, data |-> Flagfile(s)]
         /\ Own(Service(s)) = [owner |-> seen.uid, port |-> s.port]
         /\ Own(NetworkPolicy(s)) = [owner |-> seen.uid, port |-> s.port]
         /\ \A p : Own(GeneratedSecret(s, p)) = [owner |-> seen.uid, pw |-> p, key |-> s.key]
  BY DEF Own, ConfigMap, Service, NetworkPolicy, GeneratedSecret

\* reconcileSecret writes well-formed Secrets.
LEMMA SecretStepType ==
  ASSUME TypeOK, reconcileSecret
  PROVE  TypeOK'
<1>1. pc = "secret" /\ pc \in Steps \ {"status"} /\ "secret" \in Kinds
  BY DEF reconcileSecret, Steps, Kinds, Children
<1>2. seen' = seen /\ got' = got /\ got \in [ready : 0..1, complete : BOOLEAN]
  BY DEF reconcileSecret, TypeOK
<1>3. ASSUME checkExistingSecret PROVE StepTypes'
  <2>1. NoCall /\ (Continue \/ \E e \in Reasons \cup {"error"} : Return(e))
    BY <1>3 DEF checkExistingSecret, Reasons
  <2> QED
    BY <1>1, <2>1, NoCallTypes
<1>4. ASSUME createGeneratedSecret PROVE StepTypes'
  <2>1. CASE obj.secret # NoObj
    BY <1>1, <1>4, <2>1, NoCallTypes DEF createGeneratedSecret
  <2>2. CASE obj.secret = NoObj
    <3> DEFINE owner == IF SecretOwnedByDatabase(seen.spec) THEN seen.uid ELSE Unowned
    <3>1. PICK p \in Passwords : Call("secret", [owner |-> owner, pw |-> p, key |-> seen.spec.key])
      BY <1>4, <2>2, BuiltObjects DEF createGeneratedSecret, GeneratedSecret
    <3>2. owner \in Owners /\ seen.spec.key \in STRING
      BY <1>1, SeenTypes DEF Owners, Unowned, SpecType
    <3>3. [owner |-> owner, pw |-> p, key |-> seen.spec.key] \in SecretObj
      BY <3>2 DEF SecretObj
    <3>4. [owner |-> owner, pw |-> p, key |-> seen.spec.key] \in ObjType["secret"]
      BY <3>3, KindTypes
    <3> QED
      BY <1>1, <3>1, <3>4, CallTypes
  <2> QED
    BY <2>1, <2>2
<1>5. ASSUME syncSecretOwnership PROVE StepTypes'
  <2> DEFINE owner == IF SecretOwnedByDatabase(seen.spec) THEN seen.uid ELSE Unowned
             new   == [obj.secret EXCEPT !.owner = owner]
  <2>1. \/ NoCall /\ Return("SecretKeyMissing")
        \/ NoCall /\ Continue
        \/ Refused
        \/ obj.secret # NoObj /\ Call("secret", new)
    BY <1>5 DEF syncSecretOwnership
  <2>2. CASE obj.secret # NoObj /\ Call("secret", new)
    <3>1. owner \in Owners
      BY <1>1, SeenTypes DEF Owners, Unowned
    <3>2. obj.secret \in SecretObj
      BY <2>2, ObjectTypes DEF TypeOK, ClusterTypeOK
    <3>3. new \in SecretObj
      BY <3>1, <3>2 DEF SecretObj
    <3>4. new \in ObjType["secret"]
      BY <3>3, KindTypes
    <3> QED
      BY <1>1, <2>2, <3>4, CallTypes
  <2>3. CASE ~(obj.secret # NoObj /\ Call("secret", new))
    BY <1>1, <2>1, <2>3, NoCallTypes, RefusedTypes DEF Reasons
  <2> QED
    BY <2>2, <2>3
<1>6. StepTypes'
  BY <1>3, <1>4, <1>5 DEF reconcileSecret
<1> QED
  BY <1>1, <1>2, <1>6, StepTypeOK

\* checkTLSSecret writes nothing and reports one of its reasons.
LEMMA TLSStepType ==
  ASSUME TypeOK, checkTLSSecret
  PROVE  TypeOK'
<1>1. pc \in Steps \ {"status"}
  BY DEF checkTLSSecret, Steps
<1>2. NoCall /\ (Continue \/ \E e \in Reasons \cup {"error"} : Return(e))
  BY DEF checkTLSSecret, Reasons
<1>3. StepTypes'
  BY <1>1, <1>2, NoCallTypes
<1> QED
  BY <1>1, <1>3, StepTypeOK DEF checkTLSSecret, TypeOK

\* reconcileConfigMap writes a well-formed ConfigMap.
LEMMA ConfigMapStepType ==
  ASSUME TypeOK, reconcileConfigMap
  PROVE  TypeOK'
<1> DEFINE cm == [owner |-> seen.uid, data |-> Flagfile(seen.spec)]
<1>1. pc \in Steps \ {"status"} /\ "configmap" \in Kinds
  BY DEF reconcileConfigMap, Steps, Kinds, Children
<1>2. cm \in ObjType["configmap"]
  BY <1>1, SeenTypes, KindTypes
<1>3. CreateOrUpdate("configmap", cm, cm, FALSE)
  BY BuiltObjects DEF reconcileConfigMap
<1>4. StepTypes'
  BY <1>1, <1>2, <1>3, CreateOrUpdateTypes
<1> QED
  BY <1>1, <1>4, StepTypeOK DEF reconcileConfigMap, TypeOK

\* applyService writes well-formed Services.
LEMMA ServiceStepType ==
  ASSUME TypeOK, NEW k, applyService(k)
  PROVE  TypeOK'
<1> DEFINE svc == [owner |-> seen.uid, port |-> seen.spec.port]
<1>1. pc \in Steps \ {"status"} /\ k \in Kinds /\ k \in {"service", "headless"}
  BY DEF applyService, Steps, Kinds, Children
<1>2. svc \in ObjType[k]
  BY <1>1, SeenTypes, KindTypes
<1>3. CreateOrUpdate(k, svc, svc, k = "headless")
  BY BuiltObjects DEF applyService
<1>4. StepTypes'
  BY <1>1, <1>2, <1>3, CreateOrUpdateTypes
<1> QED
  BY <1>1, <1>4, StepTypeOK DEF applyService, TypeOK

\* The StatefulSets the reconciler sends are well formed.
LEMMA StsBuilt ==
  ASSUME TypeOK, pc \in Steps
  PROVE  /\ NewSts \in StsObj
         /\ \A sts \in StsObj : ChangedSts(sts) \in StsObj
<1>1. /\ seen.uid \in Owners /\ Template(seen.spec) \in Templates
      /\ RetentionPolicy(seen.spec) \in {"Retain", "Delete"}
      /\ seen.spec.claim \in {"template", "existing"}
  BY SeenTypes, BuilderTypes DEF SpecType
<1>2. NewSts \in StsObj
  BY <1>1 DEF NewSts, StsObj, StsStatus, Maybe
<1>3. ASSUME NEW sts \in StsObj PROVE ChangedSts(sts) \in StsObj
  <2>1. sts.gen \in Nat /\ sts.gen + 1 \in Nat
    BY <1>3 DEF StsObj
  <2> QED
    BY <1>1, <2>1 DEF ChangedSts, StsObj
<1> QED
  BY <1>2, <1>3

\* reconcileStatefulSet writes a well-formed StatefulSet.
LEMMA StatefulSetStepType ==
  ASSUME TypeOK, reconcileStatefulSet
  PROVE  TypeOK'
<1> DEFINE changed == IF cache.statefulset = NoObj THEN NewSts ELSE ChangedSts(cache.statefulset)
<1>1. pc \in Steps \ {"status"} /\ "statefulset" \in Kinds
  BY DEF reconcileStatefulSet, Steps, Kinds, Children
<1>2. NewSts \in StsObj /\ changed \in StsObj
  BY <1>1, StsBuilt, ObjectTypes DEF TypeOK, ClusterTypeOK
<1>3. CreateOrUpdate("statefulset", NewSts, changed, TRUE)
  BY DEF reconcileStatefulSet
<1>4. NewSts \in ObjType["statefulset"] /\ changed \in ObjType["statefulset"]
  BY <1>2, KindTypes
<1>5. StepTypes'
  <2> HIDE DEF changed
  <2> QED
    BY <1>1, <1>3, <1>4, CreateOrUpdateTypes
<1>6. got' \in [ready : 0..1, complete : BOOLEAN]
  <2>1. got' = [ready |-> changed.status.ready, complete |-> rolloutComplete(changed)]
    BY DEF reconcileStatefulSet
  <2>2. changed.status.ready \in 0..1
    BY <1>2 DEF StsObj, StsStatus
  <2>3. rolloutComplete(changed) \in BOOLEAN
    BY DEF rolloutComplete
  <2> HIDE DEF changed
  <2> QED
    BY <2>1, <2>2, <2>3
<1> QED
  BY <1>1, <1>5, <1>6, StepTypeOK DEF reconcileStatefulSet

\* reconcileNetworkPolicy writes or deletes a well-formed NetworkPolicy.
LEMMA NetworkPolicyStepType ==
  ASSUME TypeOK, reconcileNetworkPolicy
  PROVE  TypeOK'
<1> DEFINE np == [owner |-> seen.uid, port |-> seen.spec.port]
<1>1. pc \in Steps \ {"status"} /\ "networkpolicy" \in Kinds
  BY DEF reconcileNetworkPolicy, Steps, Kinds, Children
<1>2. np \in ObjType["networkpolicy"] /\ NoObj \in ObjType["networkpolicy"]
  BY <1>1, SeenTypes, KindTypes
<1>3. \/ CreateOrUpdate("networkpolicy", np, np, FALSE)
      \/ Call("networkpolicy", NoObj)
      \/ NoCall /\ Continue
  BY BuiltObjects DEF reconcileNetworkPolicy, deleteOwnedNetworkPolicy
<1>4. StepTypes'
  BY <1>1, <1>2, <1>3, CreateOrUpdateTypes, CallTypes, NoCallTypes
<1> QED
  BY <1>1, <1>4, StepTypeOK DEF reconcileNetworkPolicy, TypeOK

\* describe computes a status.
LEMMA DescribeType ==
  ASSUME NEW db \in DbObj, NEW e \in Reasons \cup {"none", "error"},
         NEW sts \in [ready : 0..1, complete : BOOLEAN]
  PROVE  describe(db, e, sts) \in DbStatus
<1> DEFINE named == [db.status EXCEPT !.observed = db.gen, !.secretName = SecretName(db.spec)]
           cond(ready, reason) == [ready |-> ready, reason |-> reason, gen |-> db.gen]
<1>1. db.spec \in Specs /\ db.gen \in Nat /\ db.status \in DbStatus
  BY DEF DbObj
<1>2. SecretName(db.spec) \in {"none", "secret", "auth"} /\ db.spec.tag \in Tags
  BY <1>1, BuilderTypes
<1>3. named \in DbStatus
  BY <1>1, <1>2 DEF DbStatus
<1>4. /\ \A r \in Reasons : cond("False", r) \in Condition
      /\ cond("False", "ReconcileError") \in Condition
      /\ cond("True", "PodReady") \in Condition
      /\ cond("False", "PodNotReady") \in Condition
  BY <1>1 DEF Condition
<1>5. sts.ready \in 0..1 /\ sts.complete \in BOOLEAN
  OBVIOUS
<1> HIDE DEF named, cond
<1>6. CASE e \in Reasons
  <2>1. describe(db, e, sts) = [named EXCEPT !.readyReplicas = 0, !.conditions = cond("False", e)]
    BY <1>6 DEF describe, Blocked, NothingServing, named, cond, Reasons
  <2>2. cond("False", e) \in Condition /\ 0 \in 0..1
    BY <1>4, <1>6
  <2> QED
    BY <1>3, <2>1, <2>2 DEF DbStatus
<1>7. CASE e = "error"
  <2>1. describe(db, e, sts) = [named EXCEPT !.conditions = cond("False", "ReconcileError")]
    BY <1>7 DEF describe, Blocked, named, cond, Reasons
  <2> QED
    BY <1>3, <1>4, <2>1 DEF DbStatus
<1>8. CASE e = "none" /\ sts.complete
  <2>1. describe(db, e, sts) =
          [named EXCEPT !.readyReplicas = sts.ready, !.version = db.spec.tag,
                        !.conditions = cond("True", "PodReady")]
    BY <1>8 DEF describe, Blocked, named, cond, Reasons
  <2> QED
    BY <1>2, <1>3, <1>4, <1>5, <2>1 DEF DbStatus
<1>9. CASE e = "none" /\ ~sts.complete
  <2>1. describe(db, e, sts) =
          [named EXCEPT !.readyReplicas = sts.ready, !.conditions = cond("False", "PodNotReady")]
    BY <1>9 DEF describe, Blocked, named, cond, Reasons
  <2> QED
    BY <1>3, <1>4, <1>5, <2>1 DEF DbStatus
<1> QED
  BY <1>6, <1>7, <1>8, <1>9

\* The merge patch takes each field from one of two statuses.
LEMMA PatchedType ==
  ASSUME NEW db \in DbObj, NEW status \in DbStatus
  PROVE  Patched(db, status) \in DbObj
<1> DEFINE merged == [f \in DOMAIN status |->
                        IF status[f] # seen.status[f] THEN status[f] ELSE db.status[f]]
<1>1. db.status \in DbStatus
  BY DEF DbObj
<1>2. merged \in DbStatus
  BY <1>1 DEF DbStatus
<1> HIDE DEF merged
<1>3. Patched(db, status) = [db EXCEPT !.status = merged]
  BY DEF Patched, merged
<1> QED
  BY <1>2, <1>3 DEF DbObj

\* The status patch leaves a well-formed SereneDB and ends the reconcile.
LEMMA PatchStatusType ==
  ASSUME TypeOK, PatchStatus
  PROVE  TypeOK'
<1> DEFINE new == Patched(obj.db, describe(seen, err, got))
<1>1. pc \in Steps /\ seen \in DbObj
  <2>1. pc \in Steps
    BY DEF PatchStatus, Steps
  <2> QED
    BY <2>1, SeenTypes
<1>2. obj.db # NoObj => new \in ObjType["db"]
  <2>1. obj.db \in DbObj \cup {NoObj}
    BY ObjectTypes DEF TypeOK, ClusterTypeOK
  <2>2. describe(seen, err, got) \in DbStatus
    BY <1>1, DescribeType DEF TypeOK
  <2>3. obj.db # NoObj => new \in DbObj
    BY <2>1, <2>2, PatchedType
  <2> QED
    BY <2>3, KindTypes
<1>3. (obj.db # NoObj /\ Write("db", new)) \/ UNCHANGED <<obj, cache>>
  BY DEF PatchStatus
<1>4. Typed(obj') /\ Typed(cache')
  <2> HIDE DEF new
  <2>1. CASE obj.db # NoObj /\ Write("db", new)
    BY <1>2, <2>1, WriteTypes DEF TypeOK, ClusterTypeOK, Kinds
  <2>2. CASE UNCHANGED <<obj, cache>>
    BY <2>2 DEF TypeOK, ClusterTypeOK, Typed
  <2> QED
    BY <1>3, <2>1, <2>2
<1>5. queued' \in BOOLEAN /\ faults' \in Nat
  <2>1. faults' = faults \/ faults' = faults + 1
    BY DEF PatchStatus
  <2>2. queued' = (queued \/ Event("db", new) \/ Requeue(err)) \/ queued' = TRUE
    BY DEF PatchStatus
  <2>3. (queued \/ Event("db", new) \/ Requeue(err)) \in BOOLEAN
    OBVIOUS
  <2>4. faults' \in Nat
    BY <2>1 DEF TypeOK
  <2> QED
    BY <2>2, <2>3, <2>4, Zenon
<1>6. ClusterTypeOK'
  BY <1>4, <1>5 DEF PatchStatus, TypeOK, ClusterTypeOK
<1> QED
  BY <1>5, <1>6 DEF PatchStatus, TypeOK, NoSts, Maybe

\* A failed read ends the steps with an error and changes nothing else.
LEMMA GetFailsType ==
  ASSUME TypeOK, GetFails
  PROVE  TypeOK'
<1>1. ClusterTypeOK'
  BY DEF GetFails, TypeOK, ClusterTypeOK, Typed, cluster
<1>2. pc \in Steps /\ pc' \in Steps /\ err' = "error" /\ faults' = faults + 1
  BY DEF GetFails, Return, Steps
<1>3. UNCHANGED <<seen, got, uids, edits, podFailures, drift>>
  BY DEF GetFails
<1>4. pc # "idle"
  BY <1>2 DEF Steps
<1> QED
  BY <1>1, <1>2, <1>3, <1>4 DEF TypeOK

\* Reconcile starts with a SereneDB in hand, or not at all.
LEMMA ReconcileType ==
  ASSUME TypeOK, Reconcile
  PROVE  TypeOK'
<1>1. cache.db \in Maybe(DbObj)
  BY ObjectTypes DEF TypeOK, ClusterTypeOK, Maybe
<1>2. ClusterTypeOK'
  BY DEF Reconcile, TypeOK, ClusterTypeOK, Typed
<1>3. CASE NothingToDo(cache.db)
  BY <1>2, <1>3 DEF Reconcile, TypeOK, budget
<1>4. CASE ~NothingToDo(cache.db)
  <2>1. pc' = "secret" /\ seen' = cache.db /\ err' = "none" /\ got' = NoSts /\ cache.db # NoObj
    BY <1>4 DEF Reconcile, NothingToDo
  <2> QED
    BY <1>1, <1>2, <2>1 DEF Reconcile, TypeOK, NoSts, Steps, budget
<1> QED
  BY <1>3, <1>4

\* A restarted operator has well-formed caches.
LEMMA RestartType ==
  ASSUME TypeOK, Restart
  PROVE  TypeOK'
<1>1. ClusterTypeOK'
  BY DEF Restart, TypeOK, ClusterTypeOK, Typed
<1> QED
  BY <1>1 DEF Restart, TypeOK, NoSts, Maybe

(***************************************************************************)
(* Steps of the environment.                                               *)
(***************************************************************************)
\* The pod and the volumes stay well formed when they lose their owner.
LEMMA OrphanTypes ==
  ASSUME ClusterTypeOK, Orphan
  PROVE  /\ pod' \in Maybe(PodObj)
         /\ vol' \in [template : Maybe(VolObj), existing : Maybe(VolObj)]
BY DEF ClusterTypeOK, Orphan, Maybe, PodObj, VolObj

\* Removing an object keeps the cluster well formed.
LEMMA RemoveTypes ==
  ASSUME ClusterTypeOK, NEW k \in Kinds, Remove(k)
  PROVE  ClusterTypeOK'
<1>1. Typed(obj') /\ Typed(cache') /\ queued' \in BOOLEAN
  BY PutTypes, KindTypes DEF Remove, ClusterTypeOK
<1>2. /\ pod' \in Maybe(PodObj)
      /\ vol' \in [template : Maybe(VolObj), existing : Maybe(VolObj)]
  BY OrphanTypes DEF Remove, ClusterTypeOK
<1> QED
  BY <1>1, <1>2 DEF Remove, ClusterTypeOK

\* A write that leaves pod, volumes and history alone.
LEMMA PutClusterTypes ==
  ASSUME ClusterTypeOK, NEW k \in Kinds, NEW new \in ObjType[k], Put(k, new),
         UNCHANGED <<pod, vol, served>>
  PROVE  ClusterTypeOK'
<1>1. Typed(obj') /\ Typed(cache') /\ queued' \in BOOLEAN
  BY PutTypes DEF ClusterTypeOK
<1> QED
  BY <1>1 DEF ClusterTypeOK

\* An informer that catches up keeps the cluster well formed.
LEMMA DeliverTypes ==
  ASSUME ClusterTypeOK, NEW k \in Kinds, Deliver(k)
  PROVE  ClusterTypeOK'
<1>1. Typed(cache')
  <2>1. obj[k] \in ObjType[k]
    BY DEF ClusterTypeOK, Typed
  <2> QED
    BY <2>1, TypedExcept DEF ClusterTypeOK, Deliver
<1>2. Typed(obj')
  BY DEF ClusterTypeOK, Deliver, Typed
<1> QED
  BY <1>1, <1>2 DEF ClusterTypeOK, Deliver

\* The StatefulSet controller reports well-formed statuses.
LEMMA StsReportTypes ==
  ASSUME ClusterTypeOK, StsReportStatus
  PROVE  ClusterTypeOK'
<1> DEFINE s == obj.statefulset
           new == [s EXCEPT !.status = StsStatusNow]
<1>1. s \in StsObj
  BY ObjectTypes DEF ClusterTypeOK, StsReportStatus
<1>2. s.gen \in Nat /\ s.template \in Templates /\ s.status.current \in Maybe(Templates)
  BY <1>1 DEF StsObj, StsStatus
<1>3. StsStatusNow \in StsStatus
  BY <1>2 DEF StsStatusNow, StsStatus, Maybe
<1>4. new \in StsObj
  BY <1>1, <1>3 DEF StsObj
<1>5. new \in ObjType["statefulset"] /\ "statefulset" \in Kinds
  BY <1>4, KindTypes DEF Kinds, Children
<1> QED
  BY <1>5, PutClusterTypes DEF StsReportStatus

\* Steps of pods and volumes keep them well formed.
LEMMA PodStepTypes ==
  ASSUME ClusterTypeOK,
         \/ CollectPod \/ CollectVolume \/ StsCreatePod \/ StsReplacePod
         \/ StsSyncClaim \/ Boot \/ PodFails
  PROVE  ClusterTypeOK'
<1>1. UNCHANGED <<obj, cache, queued>>
  BY DEF CollectPod, CollectVolume, StsCreatePod, StsReplacePod, StsSyncClaim, Boot, PodFails
<1>2. Typed(obj') /\ Typed(cache') /\ queued' \in BOOLEAN
  BY <1>1 DEF ClusterTypeOK, Typed
<1> SUFFICES /\ pod' \in Maybe(PodObj)
             /\ vol' \in [template : Maybe(VolObj), existing : Maybe(VolObj)]
             /\ served' \subseteq Templates
  BY <1>2 DEF ClusterTypeOK
<1>3. CASE CollectPod \/ CollectVolume \/ StsReplacePod
  BY <1>3 DEF ClusterTypeOK, CollectPod, CollectVolume, StsReplacePod, Maybe
<1>4. CASE StsCreatePod
  <2>1. obj.statefulset \in StsObj
    BY <1>4, ObjectTypes DEF ClusterTypeOK, StsCreatePod
  <2>2. pod' \in PodObj
    BY <1>4, <2>1 DEF StsCreatePod, StsObj, PodObj, Maybe
  <2>3. [Blank EXCEPT !.owner = ClaimOwner] \in VolObj
    BY DEF Blank, VolObj, Maybe, ClaimOwner
  <2> QED
    BY <1>4, <2>2, <2>3 DEF ClusterTypeOK, StsCreatePod, Maybe
<1>5. CASE StsSyncClaim
  <2>1. vol.template \in VolObj
    BY <1>5 DEF ClusterTypeOK, StsSyncClaim, Maybe
  <2>2. [vol.template EXCEPT !.owner = ClaimOwner] \in VolObj
    BY <2>1 DEF VolObj, ClaimOwner
  <2> QED
    BY <1>5, <2>2 DEF ClusterTypeOK, StsSyncClaim, Maybe
<1>6. CASE Boot
  <2>1. pod \in PodObj /\ pod.rev \in Templates /\ pod.claim \in {"template", "existing"}
    BY <1>6 DEF ClusterTypeOK, Boot, Bootable, Maybe, PodObj
  <2>2. pod.rev.secretName \in {"secret", "auth"}
    BY <2>1, TemplateFields
  <2>3. obj[pod.rev.secretName] \in SecretObj
    BY <1>6, <2>2, ObjectTypes DEF ClusterTypeOK, Boot, Bootable
  <2>4. obj.configmap \in DataObj
    BY <1>6, ObjectTypes DEF ClusterTypeOK, Boot, Bootable
  <2>5. pod' \in PodObj
    BY <1>6, <2>1, <2>4 DEF Boot, PodObj, DataObj, Maybe
  <2>6. vol[pod.claim] \in VolObj
    BY <1>6, <2>1 DEF ClusterTypeOK, Boot, Bootable, Maybe
  <2>7. obj[pod.rev.secretName].pw \in Maybe(Passwords)
    BY <2>3 DEF SecretObj, Maybe
  <2>8. vol' \in [template : Maybe(VolObj), existing : Maybe(VolObj)]
    <3> DEFINE w == [vol[pod.claim] EXCEPT !.src = pod.rev.secretName, !.pw = obj[pod.rev.secretName].pw]
    <3>1. w \in VolObj
      BY <2>2, <2>6, <2>7 DEF VolObj
    <3>2. vol' = vol \/ vol' = [vol EXCEPT ![pod.claim] = w]
      BY <1>6, <2>1, <2>6 DEF Boot, ClusterTypeOK, VolObj
    <3> QED
      BY <2>1, <3>1, <3>2 DEF ClusterTypeOK, Maybe
  <2> QED
    BY <1>6, <2>1, <2>5, <2>8 DEF Boot, ClusterTypeOK, Maybe
<1>7. CASE PodFails
  BY <1>7 DEF ClusterTypeOK, PodFails, PodObj, Maybe
<1> QED
  BY <1>3, <1>4, <1>5, <1>6, <1>7

\* Every step of the cluster preserves the types.
LEMMA EnvironmentType ==
  ASSUME TypeOK, Environment
  PROVE  TypeOK'
<1>1. ClusterTypeOK /\ ClusterStep
  BY DEF TypeOK, Environment
<1>2. ClusterTypeOK'
  <2>1. ASSUME NEW k \in Kinds, Deliver(k) \/ Collect(k) PROVE ClusterTypeOK'
    BY <1>1, <2>1, DeliverTypes, RemoveTypes DEF Collect
  <2>2. CASE CollectDb
    BY <1>1, <2>2, RemoveTypes DEF CollectDb, Kinds
  <2>3. CASE StsReportStatus
    BY <1>1, <2>3, StsReportTypes
  <2>4. CASE CollectPod \/ CollectVolume \/ StsCreatePod \/ StsReplacePod \/ StsSyncClaim \/ Boot
    BY <1>1, <2>4, PodStepTypes
  <2> QED
    BY <1>1, <2>1, <2>2, <2>3, <2>4 DEF ClusterStep
<1> QED
  BY <1>2 DEF TypeOK, Environment, worker, budget

(***************************************************************************)
(* Steps of users and other actors.                                        *)
(***************************************************************************)
\* A well-formed write by somebody else, which leaves the worker alone.
LEMMA OutsideWrite ==
  ASSUME TypeOK, NEW k \in Kinds, NEW new \in ObjType[k], Put(k, new),
         UNCHANGED <<pod, vol, served, worker>>,
         uids' \in Nat, edits' \in Nat, faults' \in Nat, podFailures' \in Nat, drift' \in Nat
  PROVE  TypeOK'
<1>1. ClusterTypeOK'
  BY PutClusterTypes DEF TypeOK
<1> QED
  BY <1>1 DEF TypeOK, worker

\* A removal by somebody else, which leaves the worker alone.
LEMMA OutsideRemoval ==
  ASSUME TypeOK, NEW k \in Kinds, Remove(k), UNCHANGED worker,
         uids' \in Nat, edits' \in Nat, faults' \in Nat, podFailures' \in Nat, drift' \in Nat
  PROVE  TypeOK'
<1>1. ClusterTypeOK'
  BY RemoveTypes DEF TypeOK
<1> QED
  BY <1>1 DEF TypeOK, worker

\* A new SereneDB is well formed.
LEMMA CreateDbType ==
  ASSUME TypeOK, CreateDb
  PROVE  TypeOK'
<1>1. PICK s \in Specs :
        Put("db", [uid |-> uids + 1, gen |-> 1, spec |-> s, deleting |-> FALSE,
                   status |-> NoStatus])
  BY DEF CreateDb
<1>2. NoStatus \in DbStatus
  <2>1. [ready |-> "Unknown", reason |-> "None", gen |-> 0] \in Condition
    BY DEF Condition
  <2> QED
    BY <2>1 DEF NoStatus, DbStatus
<1>3. uids + 1 \in Nat \ {0}
  BY DEF TypeOK
<1>4. [uid |-> uids + 1, gen |-> 1, spec |-> s, deleting |-> FALSE, status |-> NoStatus] \in DbObj
  BY <1>2, <1>3 DEF DbObj
<1>5. [uid |-> uids + 1, gen |-> 1, spec |-> s, deleting |-> FALSE, status |-> NoStatus]
        \in ObjType["db"]
  BY <1>4, KindTypes
<1>6. "db" \in Kinds
  BY DEF Kinds
<1> QED
  BY <1>1, <1>3, <1>5, <1>6, OutsideWrite DEF CreateDb, TypeOK

\* Edits and the start of a foreground deletion rewrite the SereneDB.
LEMMA EditDbType ==
  ASSUME TypeOK, EditDb
  PROVE  TypeOK'
<1>1. PICK s \in Specs : Put("db", [obj.db EXCEPT !.spec = s, !.gen = @ + 1])
  BY DEF EditDb
<1>2. obj.db \in DbObj
  BY ObjectTypes DEF TypeOK, ClusterTypeOK, EditDb
<1>3. obj.db.gen + 1 \in Nat
  BY <1>2 DEF DbObj
<1>4. [obj.db EXCEPT !.spec = s, !.gen = @ + 1] \in DbObj
  BY <1>2, <1>3 DEF DbObj
<1>5. [obj.db EXCEPT !.spec = s, !.gen = @ + 1] \in ObjType["db"] /\ "db" \in Kinds
  BY <1>4, KindTypes DEF Kinds
<1>6. edits' \in Nat
  BY DEF EditDb, TypeOK
<1> QED
  BY <1>1, <1>5, <1>6, OutsideWrite DEF EditDb, TypeOK

\* Deletions in the background and in the foreground preserve the types.
LEMMA DeleteDbType ==
  ASSUME TypeOK, DeleteDb
  PROVE  TypeOK'
<1>1. obj.db \in DbObj
  BY ObjectTypes DEF TypeOK, ClusterTypeOK, DeleteDb
<1>2. [obj.db EXCEPT !.deleting = TRUE] \in DbObj
  BY <1>1 DEF DbObj
<1>3. [obj.db EXCEPT !.deleting = TRUE] \in ObjType["db"] /\ "db" \in Kinds
  BY <1>2, KindTypes DEF Kinds
<1>4. CASE Remove("db")
  BY <1>3, <1>4, OutsideRemoval DEF DeleteDb, TypeOK, budget
<1>5. CASE Put("db", [obj.db EXCEPT !.deleting = TRUE]) /\ UNCHANGED <<pod, vol, served>>
  BY <1>3, <1>5, OutsideWrite DEF DeleteDb, TypeOK, budget
<1> QED
  BY <1>4, <1>5 DEF DeleteDb

\* The Secrets users provide are well formed.
LEMMA UserSecretType ==
  ASSUME TypeOK, CreateAuthSecret \/ CreateTLSSecret
  PROVE  TypeOK'
<1>1. CASE CreateAuthSecret
  <2>1. PICK s \in Specs, p \in Passwords :
          Put("auth", [owner |-> Unowned, pw |-> p, key |-> s.key])
    BY <1>1 DEF CreateAuthSecret
  <2>2. [owner |-> Unowned, pw |-> p, key |-> s.key] \in SecretObj
    BY BuilderTypes DEF SpecType, SecretObj, Owners, Unowned
  <2>3. [owner |-> Unowned, pw |-> p, key |-> s.key] \in ObjType["auth"] /\ "auth" \in Kinds
    BY <2>2, KindTypes DEF Kinds
  <2> QED
    BY <1>1, <2>1, <2>3, OutsideWrite DEF CreateAuthSecret, TypeOK, budget
<1>2. CASE CreateTLSSecret
  <2>1. [owner |-> Unowned] \in ObjType["tls"] /\ "tls" \in Kinds
    BY KindTypes DEF Kinds
  <2> QED
    BY <1>2, <2>1, OutsideWrite DEF CreateTLSSecret, TypeOK, budget
<1> QED
  BY <1>1, <1>2

\* Deleted and foreign objects preserve the types.
LEMMA DriftType ==
  ASSUME TypeOK, (\E k \in Kinds : Delete(k)) \/ CreateForeignNetworkPolicy
  PROVE  TypeOK'
<1>1. ASSUME NEW k \in Kinds, Delete(k) PROVE TypeOK'
  BY <1>1, OutsideRemoval DEF Delete, TypeOK
<1>2. CASE CreateForeignNetworkPolicy
  <2>1. PICK o \in {Unowned, Other} : Put("networkpolicy", [owner |-> o, port |-> "foreign"])
    BY <1>2 DEF CreateForeignNetworkPolicy
  <2>2. [owner |-> o, port |-> "foreign"] \in PortObj
    BY DEF PortObj, Owners, Unowned
  <2>3. [owner |-> o, port |-> "foreign"] \in ObjType["networkpolicy"] /\ "networkpolicy" \in Kinds
    BY <2>2, KindTypes DEF Kinds, Children
  <2>4. drift' \in Nat
    BY <1>2 DEF CreateForeignNetworkPolicy, TypeOK
  <2> QED
    BY <1>2, <2>1, <2>3, <2>4, OutsideWrite DEF CreateForeignNetworkPolicy, TypeOK
<1> QED
  BY <1>1, <1>2

\* A failing container preserves the types.
LEMMA ContainerFailsType ==
  ASSUME TypeOK, ContainerFails
  PROVE  TypeOK'
<1>1. ClusterTypeOK'
  BY PodStepTypes DEF TypeOK, ContainerFails
<1> QED
  BY <1>1 DEF TypeOK, ContainerFails, worker

(***************************************************************************)
(* Type correctness.                                                       *)
(***************************************************************************)
\* The initial state is well typed.
LEMMA InitType == Init => TypeOK
<1> SUFFICES ASSUME Init PROVE TypeOK
  OBVIOUS
<1>1. Typed([k \in Kinds |-> NoObj])
  BY KindTypes DEF Typed
<1>2. Blank \in VolObj
  BY DEF Blank, VolObj, Maybe
<1>3. ClusterTypeOK
  BY <1>1, <1>2 DEF Init, ClusterInit, ClusterTypeOK, Maybe
<1> QED
  BY <1>3 DEF Init, TypeOK, NoSts, Maybe

\* Every step preserves the types.
LEMMA NextType == TypeOK /\ [Next]_vars => TypeOK'
<1> SUFFICES ASSUME TypeOK, [Next]_vars PROVE TypeOK'
  OBVIOUS
<1>1. CASE Worker
  BY <1>1, ReconcileType, SecretStepType, TLSStepType, ConfigMapStepType, ServiceStepType,
     StatefulSetStepType, NetworkPolicyStepType, GetFailsType, PatchStatusType
  DEF Worker
<1>2. CASE Restart
  BY <1>2, RestartType
<1>3. CASE Environment
  BY <1>3, EnvironmentType
<1>4. CASE ContainerFails
  BY <1>4, ContainerFailsType
<1>5. CASE User
  BY <1>5, CreateDbType, EditDbType, DeleteDbType, UserSecretType, DriftType DEF User
<1>6. CASE UNCHANGED vars
  BY <1>6 DEF vars, cluster, worker, budget, TypeOK, ClusterTypeOK, Typed
<1> QED
  BY <1>1, <1>2, <1>3, <1>4, <1>5, <1>6 DEF Next

\* Objects, cached copies, worker and counters are always of their types: the
\* reconciler only ever sends well-formed objects, with specs, flagfiles and pod
\* templates that come from a spec a user wrote.
THEOREM TypeCorrect == Spec => []TypeOK
<1>1. Init => TypeOK
  BY InitType
<1>2. TypeOK /\ [Next]_vars => TypeOK'
  BY NextType
<1> QED
  BY <1>1, <1>2, PTL DEF Spec

(***************************************************************************)
(* What one step can do, for the invariants below.  A step writes at most  *)
(* one object, and the cached copy of an object only ever becomes that     *)
(* object; the other facts are about the kinds the invariants speak of.    *)
(***************************************************************************)
\* Informers that do not lag show the API server's objects.
SyncInv == \A k \in Kinds \ Lagging : cache[k] = obj[k]

\* Who shall own the generated Secret.
SecretOwner == IF SecretOwnedByDatabase(seen.spec) THEN seen.uid ELSE Unowned

\* The objects the step that is named after kind k may send.
Wanted(k, new) ==
  /\ k = "configmap" => new = Own(ConfigMap(seen.spec))
  /\ k = "statefulset" =>
       \/ cache.statefulset = NoObj /\ obj.statefulset = NoObj /\ new = NewSts
       \/ /\ cache.statefulset # NoObj /\ obj.statefulset = cache.statefulset
          /\ new = ChangedSts(cache.statefulset)
  /\ k = "secret" =>
       /\ seen.spec.auth = "generated"
       /\ \/ /\ obj.secret = NoObj
             /\ \E p \in Passwords : new = [owner |-> SecretOwner, pw |-> p, key |-> seen.spec.key]
          \/ /\ obj.secret # NoObj
             /\ new = [obj.secret EXCEPT !.owner = SecretOwner]
  /\ k = "networkpolicy" /\ new = NoObj => OwnedNetworkPolicy(cache.networkpolicy)

\* The step goes on without a call: it found what it wants in the cache.
Found(k) ==
  /\ k = "configmap" => cache.configmap = Own(ConfigMap(seen.spec))
  /\ k # "statefulset"

\* What reconcileStatefulSet returns to describe.
Rolled ==
  LET changed == IF cache.statefulset = NoObj THEN NewSts ELSE ChangedSts(cache.statefulset)
  IN [ready |-> changed.status.ready, complete |-> rolloutComplete(changed)]

\* A step of a running reconcile before its status patch.
Within ==
  /\ pc \in Steps \ {"status"}
  /\ UNCHANGED <<seen, pod, vol, served, uids, edits>>
  /\ got' = got \/ (pc = "statefulset" /\ got' = Rolled)
  /\ \/ UNCHANGED cluster /\ ((Continue /\ Found(pc)) \/ \E e \in Reasons \cup {"error"} : Return(e))
     \/ /\ pc \in Children
        /\ \E new : Wanted(pc, new) /\ Put(pc, new)
        /\ Continue \/ Return("error")

\* A call writes what it is given, or ends the step without a trace.
LEMMA CallWithin ==
  ASSUME NEW k, NEW new, Call(k, new)
  PROVE  \/ UNCHANGED cluster /\ Return("error")
         \/ Put(k, new) /\ (Continue \/ Return("error"))
BY DEF Call, cluster

\* CreateOrUpdate finds the object as wanted, sends what it was given, or fails.
LEMMA CreateOrUpdateWithin ==
  ASSUME NEW k, NEW fresh, NEW changed, NEW always, CreateOrUpdate(k, fresh, changed, always)
  PROVE  /\ UNCHANGED <<pod, vol, served, uids, edits>>
         /\ \/ UNCHANGED cluster /\ Return("error")
            \/ /\ UNCHANGED cluster /\ Continue
               /\ cache[k] # NoObj /\ ~always /\ changed = cache[k]
            \/ /\ \/ cache[k] = NoObj /\ obj[k] = NoObj /\ Put(k, fresh)
                  \/ cache[k] # NoObj /\ obj[k] = cache[k] /\ Put(k, changed)
               /\ Continue \/ Return("error")
<1>1. UNCHANGED <<pod, vol, served, uids, edits>>
  BY DEF CreateOrUpdate, Call, Refused, NoCall, cluster, budget
<1>2. CASE cache[k] = NoObj
  <2>1. CASE obj[k] = NoObj
    <3>1. Call(k, fresh)
      BY <1>2, <2>1 DEF CreateOrUpdate
    <3> QED
      BY <1>1, <1>2, <2>1, <3>1, CallWithin
  <2>2. CASE obj[k] # NoObj
    <3>1. Refused
      BY <1>2, <2>2 DEF CreateOrUpdate
    <3> QED
      BY <1>1, <3>1 DEF Refused, NoCall
  <2> QED
    BY <2>1, <2>2
<1>3. CASE cache[k] # NoObj
  <2>1. \/ Refused
        \/ ~always /\ changed = cache[k] /\ NoCall /\ Continue
        \/ obj[k] = cache[k] /\ Call(k, changed)
    BY <1>3 DEF CreateOrUpdate
  <2> QED
    BY <1>1, <1>3, <2>1, CallWithin DEF Refused, NoCall
<1> QED
  BY <1>2, <1>3

\* The step for the Secret.
LEMMA SecretWithin ==
  ASSUME TypeOK, reconcileSecret
  PROVE  Within
<1>1. /\ pc = "secret" /\ pc \in Steps \ {"status"} /\ pc \in Children
      /\ UNCHANGED <<seen, got>>
  BY DEF reconcileSecret, Steps, Children
<1>2. CASE checkExistingSecret
  <2>1. UNCHANGED cluster /\ UNCHANGED <<uids, edits>>
    BY <1>2 DEF checkExistingSecret, NoCall, budget
  <2>2. Continue \/ \E e \in Reasons \cup {"error"} : Return(e)
    BY <1>2 DEF checkExistingSecret, Reasons
  <2> QED
    BY <1>1, <2>1, <2>2 DEF Within, Found, cluster
<1>3. CASE createGeneratedSecret
  <2>1. CASE obj.secret # NoObj
    BY <1>1, <1>3, <2>1 DEF createGeneratedSecret, Within, Found, NoCall, cluster, budget
  <2>2. CASE obj.secret = NoObj
    <3>1. PICK p \in Passwords :
            Call("secret", IF SecretOwnedByDatabase(seen.spec)
                           THEN Own(GeneratedSecret(seen.spec, p)) ELSE GeneratedSecret(seen.spec, p))
      BY <1>3, <2>2 DEF createGeneratedSecret
    <3> DEFINE new == [owner |-> SecretOwner, pw |-> p, key |-> seen.spec.key]
    <3>2. Call("secret", new)
      BY <3>1 DEF Own, GeneratedSecret, SecretOwner
    <3>3. Wanted("secret", new)
      BY <1>3, <2>2 DEF Wanted, createGeneratedSecret
    <3> HIDE DEF new
    <3>4. UNCHANGED <<pod, vol, served, uids, edits>>
      BY <3>2 DEF Call
    <3> QED
      BY <1>1, <3>2, <3>3, <3>4, CallWithin DEF Within
  <2> QED
    BY <2>1, <2>2
<1>4. CASE syncSecretOwnership
  <2> DEFINE new == [obj.secret EXCEPT !.owner = SecretOwner]
  <2>1. \/ NoCall /\ Return("SecretKeyMissing")
        \/ NoCall /\ Continue
        \/ Refused
        \/ obj.secret # NoObj /\ Call("secret", new)
    BY <1>4 DEF syncSecretOwnership, SecretOwner
  <2>2. obj.secret # NoObj => Wanted("secret", new)
    BY <1>4 DEF Wanted, syncSecretOwnership
  <2> HIDE DEF new
  <2>3. UNCHANGED <<pod, vol, served, uids, edits>>
    BY <2>1 DEF Call, NoCall, Refused, cluster, budget
  <2>4. CASE NoCall /\ (Continue \/ Return("SecretKeyMissing"))
    BY <1>1, <2>3, <2>4 DEF Within, Found, NoCall, Reasons
  <2>5. CASE Refused
    BY <1>1, <2>3, <2>5 DEF Within, NoCall, Refused
  <2>6. CASE obj.secret # NoObj /\ Call("secret", new)
    BY <1>1, <2>2, <2>3, <2>6, CallWithin DEF Within
  <2> QED
    BY <2>1, <2>4, <2>5, <2>6
<1> QED
  BY <1>2, <1>3, <1>4 DEF reconcileSecret

\* The step for the StatefulSet.
LEMMA StatefulSetWithin ==
  ASSUME TypeOK, reconcileStatefulSet
  PROVE  Within
<1> DEFINE changed == IF cache.statefulset = NoObj THEN NewSts ELSE ChangedSts(cache.statefulset)
<1>1. /\ pc = "statefulset" /\ pc \in Steps \ {"status"} /\ pc \in Children /\ seen' = seen
      /\ got' = Rolled
  BY DEF reconcileStatefulSet, Steps, Children, Rolled
<1>2. CreateOrUpdate("statefulset", NewSts, changed, TRUE)
  BY DEF reconcileStatefulSet
<1>3. cache.statefulset = NoObj /\ obj.statefulset = NoObj => Wanted("statefulset", NewSts)
  BY DEF Wanted
<1>4. cache.statefulset # NoObj /\ obj.statefulset = cache.statefulset
        => Wanted("statefulset", changed)
  BY DEF Wanted
<1> HIDE DEF changed
<1> QED
  BY <1>1, <1>2, <1>3, <1>4, CreateOrUpdateWithin DEF Within

\* The step for the NetworkPolicy.
LEMMA NetworkPolicyWithin ==
  ASSUME TypeOK, reconcileNetworkPolicy
  PROVE  Within
<1> DEFINE np == Own(NetworkPolicy(seen.spec))
<1>1. /\ pc = "networkpolicy" /\ pc \in Steps \ {"status"} /\ pc \in Children
      /\ UNCHANGED <<seen, got>>
  BY DEF reconcileNetworkPolicy, Steps, Children
<1>2. CASE seen.spec.netpol
  <2>1. CreateOrUpdate("networkpolicy", np, np, FALSE)
    BY <1>2 DEF reconcileNetworkPolicy
  <2>2. np # NoObj
    <3>1. np \in PortObj
      BY <1>1, SeenTypes, BuiltObjects
    <3> QED
      BY <3>1, ClusterAssumption
  <2>3. Wanted("networkpolicy", np)
    BY <2>2 DEF Wanted
  <2>4. Found("networkpolicy")
    BY DEF Found
  <2> HIDE DEF np
  <2> QED
    BY <1>1, <2>1, <2>3, <2>4, CreateOrUpdateWithin DEF Within
<1>3. CASE ~seen.spec.netpol
  <2>1. CASE OwnedNetworkPolicy(cache.networkpolicy) /\ obj.networkpolicy # NoObj
    <3>1. Call("networkpolicy", NoObj)
      BY <1>3, <2>1 DEF reconcileNetworkPolicy, deleteOwnedNetworkPolicy
    <3>2. UNCHANGED <<pod, vol, served, uids, edits>>
      BY <3>1 DEF Call
    <3>3. Wanted("networkpolicy", NoObj)
      BY <2>1 DEF Wanted
    <3> QED
      BY <1>1, <3>1, <3>2, <3>3, CallWithin DEF Within
  <2>2. CASE ~(OwnedNetworkPolicy(cache.networkpolicy) /\ obj.networkpolicy # NoObj)
    <3>1. NoCall /\ Continue
      BY <1>3, <2>2 DEF reconcileNetworkPolicy, deleteOwnedNetworkPolicy
    <3> QED
      BY <1>1, <3>1 DEF Within, Found, NoCall, cluster, budget
  <2> QED
    BY <2>1, <2>2
<1> QED
  BY <1>2, <1>3

\* Every step of the worker is the beginning or the end of a reconcile, or one of
\* those steps in between.
LEMMA WorkerCases ==
  ASSUME TypeOK, Worker
  PROVE  Reconcile \/ PatchStatus \/ Within
<1>1. CASE checkTLSSecret
  <2>1. /\ pc = "tls" /\ pc \in Steps \ {"status"} /\ UNCHANGED <<seen, got>>
        /\ UNCHANGED <<cluster, budget>>
    BY <1>1 DEF checkTLSSecret, Steps, NoCall
  <2>2. Continue \/ \E e \in Reasons \cup {"error"} : Return(e)
    BY <1>1 DEF checkTLSSecret, Reasons
  <2> QED
    BY <2>1, <2>2 DEF Within, Found, cluster, budget
<1>2. CASE reconcileConfigMap
  <2> DEFINE cm == Own(ConfigMap(seen.spec))
  <2>1. /\ pc = "configmap" /\ pc \in Steps \ {"status"} /\ pc \in Children
        /\ UNCHANGED <<seen, got>> /\ CreateOrUpdate("configmap", cm, cm, FALSE)
    BY <1>2 DEF reconcileConfigMap, Steps, Children
  <2>2. Wanted("configmap", cm) /\ (cm = cache["configmap"] => Found("configmap"))
    BY DEF Wanted, Found
  <2> HIDE DEF cm
  <2> QED
    BY <2>1, <2>2, CreateOrUpdateWithin DEF Within
<1>3. ASSUME NEW k \in {"service", "headless"}, applyService(k)
      PROVE  Within
  <2> DEFINE svc == Own(Service(seen.spec))
  <2>1. /\ pc = k /\ pc \in Steps \ {"status"} /\ pc \in Children
        /\ UNCHANGED <<seen, got>> /\ CreateOrUpdate(k, svc, svc, k = "headless")
    BY <1>3 DEF applyService, Steps, Children
  <2>2. Wanted(k, svc) /\ Found(k)
    BY DEF Wanted, Found
  <2> HIDE DEF svc
  <2> QED
    BY <2>1, <2>2, CreateOrUpdateWithin DEF Within
<1>4. CASE GetFails
  BY <1>4 DEF GetFails, Within, cluster
<1> QED
  BY <1>1, <1>2, <1>3, <1>4, SecretWithin, StatefulSetWithin, NetworkPolicyWithin DEF Worker

\* A write changes one object; its cached copy follows, unless its informer lags.
LEMMA WriteEffect ==
  ASSUME TypeOK, NEW k \in Kinds, NEW new, Write(k, new)
  PROVE  /\ obj'[k] = new
         /\ k \in Lagging => cache'[k] = cache[k]
         /\ k \notin Lagging => cache'[k] = new
         /\ \A j \in Kinds : j # k => obj'[j] = obj[j] /\ cache'[j] = cache[j]
<1>1. obj = [j \in Kinds |-> obj[j]] /\ cache = [j \in Kinds |-> cache[j]]
  BY DEF TypeOK, ClusterTypeOK, Typed
<1> QED
  BY <1>1 DEF Write

\* Somebody else removes an object: the garbage collector, or a user.
Removal ==
  /\ \E k \in Kinds : Remove(k) /\ (k = "secret" => Collectable(k))
  /\ UNCHANGED <<worker, uids, edits>>

\* A user writes an object that the invariants below do not speak of.
OtherWriting ==
  /\ \E k \in {"auth", "tls", "networkpolicy"} : \E new : Put(k, new)
  /\ UNCHANGED <<pod, vol, served, worker, uids, edits>>

\* A user asks for foreground deletion.
MarkDeleting ==
  /\ obj.db # NoObj
  /\ Put("db", [obj.db EXCEPT !.deleting = TRUE])
  /\ UNCHANGED <<pod, vol, served, worker, uids, edits>>

\* Pod and volumes change, objects do not.
PodStep ==
  /\ \/ CollectPod \/ CollectVolume \/ StsCreatePod \/ StsReplacePod
     \/ StsSyncClaim \/ Boot \/ PodFails
  /\ UNCHANGED <<obj, cache, queued, worker, uids, edits>>

Delivery == \E k \in Kinds : Deliver(k) /\ UNCHANGED <<worker, uids, edits>>

StsReport == StsReportStatus /\ UNCHANGED <<worker, uids, edits>>

\* Every step is of one of these forms.
LEMMA StepCases ==
  ASSUME TypeOK, [Next]_vars
  PROVE  \/ Reconcile \/ PatchStatus \/ Within \/ Restart
         \/ Removal \/ Delivery \/ StsReport \/ PodStep
         \/ CreateDb \/ EditDb \/ MarkDeleting \/ OtherWriting
         \/ UNCHANGED vars
<1>1. CASE Environment
  <2>1. UNCHANGED <<worker, uids, edits>>
    BY <1>1 DEF Environment, budget
  <2>2. ASSUME NEW k \in Kinds, Collect(k) PROVE Removal
    BY <2>1, <2>2 DEF Collect, Removal
  <2>3. CASE CollectDb
    BY <2>1, <2>3 DEF CollectDb, Removal, Kinds
  <2>4. CASE CollectPod \/ CollectVolume \/ StsCreatePod \/ StsReplacePod \/ StsSyncClaim \/ Boot
    BY <2>1, <2>4
    DEF CollectPod, CollectVolume, StsCreatePod, StsReplacePod, StsSyncClaim, Boot, PodStep
  <2> QED
    BY <1>1, <2>1, <2>2, <2>3, <2>4 DEF Environment, ClusterStep, Delivery, StsReport
<1>2. CASE ContainerFails
  BY <1>2 DEF ContainerFails, PodStep, PodFails
<1>3. CASE User
  <2>1. CASE DeleteDb
    BY <2>1 DEF DeleteDb, Removal, MarkDeleting, Kinds, budget
  <2>2. ASSUME NEW k \in Kinds \ {"db", "secret"}, Delete(k) PROVE Removal
    BY <2>2 DEF Delete, Removal
  <2>3. CASE CreateAuthSecret \/ CreateTLSSecret
    BY <2>3 DEF CreateAuthSecret, CreateTLSSecret, OtherWriting, budget
  <2>4. CASE CreateForeignNetworkPolicy
    BY <2>4 DEF CreateForeignNetworkPolicy, OtherWriting
  <2> QED
    BY <1>3, <2>1, <2>2, <2>3, <2>4 DEF User
<1> QED
  BY <1>1, <1>2, <1>3, WorkerCases DEF Next

\* The object a step writes, if any.
LEMMA Writes ==
  ASSUME TypeOK, [Next]_vars
  PROVE  \/ UNCHANGED <<obj, cache>>
         \/ UNCHANGED obj /\ cache' = obj
         \/ \E k \in Kinds : Deliver(k)
         \/ \E k \in Kinds : \E new : Write(k, new)
<1>1. "db" \in Kinds /\ "statefulset" \in Kinds /\ Children \subseteq Kinds
  BY DEF Kinds, Children
<1>2. CASE Within
  BY <1>1, <1>2 DEF Within, Put, cluster
<1>3. CASE Reconcile \/ PodStep \/ UNCHANGED vars
  BY <1>3 DEF Reconcile, PodStep, vars, cluster
<1>4. CASE PatchStatus
  BY <1>1, <1>4 DEF PatchStatus
<1>5. CASE Restart
  BY <1>5 DEF Restart
<1>6. CASE Removal
  BY <1>6 DEF Removal, Remove, Put
<1>7. CASE Delivery
  BY <1>7 DEF Delivery
<1>8. CASE StsReport
  BY <1>1, <1>8 DEF StsReport, StsReportStatus, Put
<1>9. CASE CreateDb \/ EditDb \/ MarkDeleting
  BY <1>1, <1>9 DEF CreateDb, EditDb, MarkDeleting, Put
<1>10. CASE OtherWriting
  <2>1. PICK k \in {"auth", "tls", "networkpolicy"} : \E new : Put(k, new)
    BY <1>10 DEF OtherWriting
  <2>2. k \in Kinds
    BY DEF Kinds, Children
  <2> QED
    BY <2>1, <2>2 DEF Put
<1> QED
  BY <1>2, <1>3, <1>4, <1>5, <1>6, <1>7, <1>8, <1>9, <1>10, StepCases

\* A cached copy stays, or becomes the object; one whose informer does not lag
\* always is the object.
LEMMA CacheMoves ==
  ASSUME TypeOK, [Next]_vars, NEW k \in Kinds
  PROVE  /\ cache'[k] \in {cache[k], obj'[k]}
         /\ k \notin Lagging /\ cache[k] = obj[k] => cache'[k] = obj'[k]
<1>1. CASE UNCHANGED <<obj, cache>>
  BY <1>1
<1>2. CASE UNCHANGED obj /\ cache' = obj
  BY <1>2
<1>3. ASSUME NEW j \in Kinds, Deliver(j) PROVE cache'[k] \in {cache[k], obj[k]} /\ UNCHANGED obj
  <2>1. cache = [i \in Kinds |-> cache[i]] /\ cache' = [cache EXCEPT ![j] = obj[j]] /\ obj' = obj
    BY <1>3 DEF TypeOK, ClusterTypeOK, Typed, Deliver
  <2> QED
    BY <2>1
<1>4. ASSUME NEW j \in Kinds, NEW new, Write(j, new)
      PROVE  /\ cache'[k] \in {cache[k], obj'[k]}
             /\ k \notin Lagging /\ cache[k] = obj[k] => cache'[k] = obj'[k]
  BY <1>4, WriteEffect
<1> QED
  BY <1>1, <1>2, <1>3, <1>4, Writes

\* Informers that do not lag stay in step.
LEMMA SyncStep ==
  ASSUME TypeOK, SyncInv, [Next]_vars
  PROVE  SyncInv'
BY CacheMoves DEF SyncInv

(***************************************************************************)
(* What a step can do to the SereneDB, its copies, the StatefulSet and the *)
(* pod.                                                                    *)
(***************************************************************************)
\* The SereneDB stays, goes, or is written by a user or the status patch.
LEMMA DbMoves ==
  ASSUME TypeOK, [Next]_vars
  PROVE  \/ obj'.db \in {obj.db, NoObj} /\ UNCHANGED <<uids, edits>>
         \/ CreateDb
         \/ EditDb
         \/ MarkDeleting
         \/ /\ PatchStatus /\ obj.db # NoObj /\ UNCHANGED <<uids, edits>>
            /\ obj'.db = Patched(obj.db, describe(seen, err, got))
<1>1. "db" \in Kinds /\ "db" \notin Children /\ Children \subseteq Kinds /\ "statefulset" \in Children
  BY DEF Kinds, Children
<1>2. CASE Within
  BY <1>1, <1>2, WriteEffect DEF Within, Put, cluster
<1>3. CASE Reconcile \/ PodStep \/ Delivery \/ Restart \/ UNCHANGED vars
  BY <1>3 DEF Reconcile, PodStep, Delivery, Deliver, Restart, vars, cluster, budget
<1>4. CASE PatchStatus
  BY <1>1, <1>4, WriteEffect DEF PatchStatus
<1>5. CASE Removal
  <2>1. PICK k \in Kinds : Write(k, NoObj)
    BY <1>5 DEF Removal, Remove, Put
  <2> QED
    BY <1>1, <1>5, <2>1, WriteEffect DEF Removal
<1>6. CASE StsReport
  <2>1. PICK new : Write("statefulset", new)
    BY <1>6 DEF StsReport, StsReportStatus, Put
  <2> QED
    BY <1>1, <1>6, <2>1, WriteEffect DEF StsReport
<1>7. CASE OtherWriting
  <2>1. PICK k \in {"auth", "tls", "networkpolicy"} : \E new : Put(k, new)
    BY <1>7 DEF OtherWriting
  <2>2. k \in Kinds /\ k # "db"
    BY DEF Kinds, Children
  <2> QED
    BY <1>1, <1>7, <2>1, <2>2, WriteEffect DEF OtherWriting, Put
<1> QED
  BY <1>2, <1>3, <1>4, <1>5, <1>6, <1>7, StepCases

\* The copy a reconcile works on stays, goes, or is taken from the cache.
LEMMA SeenMoves ==
  ASSUME TypeOK, [Next]_vars
  PROVE  \/ seen' = seen /\ got' = got
         \/ seen' = seen /\ Within /\ pc = "statefulset" /\ got' = Rolled
         \/ seen' = NoObj /\ got' = NoSts
         \/ seen' = cache.db /\ cache.db # NoObj /\ got' = NoSts /\ UNCHANGED <<obj, cache>>
<1>1. CASE Within
  BY <1>1 DEF Within
<1>2. CASE Reconcile
  BY <1>2 DEF Reconcile, NothingToDo
<1>3. CASE PatchStatus \/ Restart
  BY <1>3 DEF PatchStatus, Restart
<1>4. CASE Removal \/ Delivery \/ StsReport \/ PodStep \/ MarkDeleting \/ OtherWriting \/ UNCHANGED vars
  BY <1>4 DEF Removal, Delivery, StsReport, PodStep, MarkDeleting, OtherWriting, vars, worker
<1>5. CASE CreateDb \/ EditDb
  BY <1>5 DEF CreateDb, EditDb, worker
<1> QED
  BY <1>1, <1>2, <1>3, <1>4, <1>5, StepCases

\* The StatefulSet stays, goes, is sent by its step or gets its status.
LEMMA StsMoves ==
  ASSUME TypeOK, [Next]_vars
  PROVE  \/ obj'.statefulset \in {obj.statefulset, NoObj}
         \/ /\ Within /\ pc = "statefulset"
            /\ obj.statefulset = NoObj /\ obj'.statefulset = NewSts
         \/ /\ Within /\ pc = "statefulset"
            /\ obj.statefulset # NoObj /\ obj.statefulset = cache.statefulset
            /\ obj'.statefulset = ChangedSts(obj.statefulset)
         \/ /\ obj.statefulset # NoObj /\ UNCHANGED served
            /\ obj'.statefulset = [obj.statefulset EXCEPT !.status = StsStatusNow]
<1>1. "db" \in Kinds /\ "db" # "statefulset" /\ Children \subseteq Kinds /\ "statefulset" \in Children
  BY DEF Kinds, Children
<1>2. CASE Within
  <2>1. CASE UNCHANGED cluster
    BY <2>1 DEF cluster
  <2>2. ASSUME NEW new, pc \in Children, Wanted(pc, new), Put(pc, new)
        PROVE  \/ obj'.statefulset \in {obj.statefulset, NoObj}
               \/ /\ pc = "statefulset"
                  /\ obj.statefulset = NoObj /\ obj'.statefulset = NewSts
               \/ /\ pc = "statefulset"
                  /\ obj.statefulset # NoObj /\ obj.statefulset = cache.statefulset
                  /\ obj'.statefulset = ChangedSts(obj.statefulset)
    <3>1. pc \in Kinds /\ Write(pc, new)
      BY <1>1, <2>2 DEF Put
    <3>2. CASE pc = "statefulset"
      BY <2>2, <3>1, <3>2, WriteEffect DEF Wanted
    <3>3. CASE pc # "statefulset"
      BY <1>1, <3>1, <3>3, WriteEffect
    <3> QED
      BY <3>2, <3>3
  <2> QED
    BY <1>2, <2>1, <2>2 DEF Within
<1>3. CASE Reconcile \/ PodStep \/ Delivery \/ Restart \/ UNCHANGED vars
  BY <1>3 DEF Reconcile, PodStep, Delivery, Deliver, Restart, vars, cluster
<1>4. CASE PatchStatus \/ CreateDb \/ EditDb \/ MarkDeleting
  <2>1. UNCHANGED obj \/ \E new : Write("db", new)
    BY <1>4 DEF PatchStatus, CreateDb, EditDb, MarkDeleting, Put
  <2> QED
    BY <1>1, <2>1, WriteEffect
<1>5. CASE Removal
  <2>1. PICK k \in Kinds : Write(k, NoObj)
    BY <1>5 DEF Removal, Remove, Put
  <2> QED
    BY <1>1, <1>5, <2>1, WriteEffect
<1>6. CASE StsReport
  BY <1>1, <1>6, WriteEffect DEF StsReport, StsReportStatus, Put
<1>7. CASE OtherWriting
  <2>1. PICK k \in {"auth", "tls", "networkpolicy"} : \E new : Put(k, new)
    BY <1>7 DEF OtherWriting
  <2>2. k \in Kinds /\ k # "statefulset"
    BY DEF Kinds, Children
  <2> QED
    BY <1>1, <2>1, <2>2, WriteEffect DEF Put
<1> QED
  BY <1>2, <1>3, <1>4, <1>5, <1>6, <1>7, StepCases

\* The pod stays, goes, loses its owner, fails, is made anew, or boots.
LEMMA PodMoves ==
  ASSUME TypeOK, [Next]_vars
  PROVE  \/ pod' \in {pod, NoObj} /\ UNCHANGED served
         \/ pod # NoObj /\ pod' = [pod EXCEPT !.owner = "gone"] /\ UNCHANGED served
         \/ pod # NoObj /\ pod' = [pod EXCEPT !.ready = FALSE] /\ UNCHANGED <<obj, served>>
         \/ /\ obj.statefulset # NoObj /\ UNCHANGED <<obj, served>>
            /\ pod' = [rev |-> obj.statefulset.template, owner |-> "sts", ready |-> FALSE,
                       claim |-> obj.statefulset.claim, flags |-> NoObj]
         \/ Boot /\ UNCHANGED <<worker, uids, edits>>
<1>1. CASE Within \/ Reconcile \/ PatchStatus \/ Restart \/ UNCHANGED vars
  BY <1>1 DEF Within, Reconcile, PatchStatus, Restart, vars, cluster
<1>2. CASE Removal
  BY <1>2 DEF Removal, Remove, Orphan
<1>3. CASE Delivery \/ StsReport \/ CreateDb \/ EditDb \/ MarkDeleting \/ OtherWriting
  BY <1>3
  DEF Delivery, Deliver, StsReport, StsReportStatus, CreateDb, EditDb, MarkDeleting, OtherWriting
<1>4. CASE PodStep
  BY <1>4
  DEF PodStep, CollectPod, CollectVolume, StsCreatePod, StsReplacePod, StsSyncClaim, PodFails
<1> QED
  BY <1>1, <1>2, <1>3, <1>4, StepCases

\* What has been served stays so.
LEMMA ServedGrows ==
  ASSUME TypeOK, [Next]_vars
  PROVE  served \subseteq served'
BY PodMoves DEF Boot

\* While no SereneDB has been created there is nothing of it.
NothingYet ==
  /\ obj.db = NoObj /\ cache.db = NoObj /\ seen = NoObj /\ pod = NoObj /\ edits = 0
  /\ \A k \in {"configmap", "statefulset", "secret"} : obj[k] = NoObj /\ cache[k] = NoObj
  /\ vol.template = NoObj

FirstInv == uids <= MaxUid /\ (uids = 0 => NothingYet)

\* Nothing but the creation of a SereneDB changes that.
LEMMA FirstStep ==
  ASSUME TypeOK, FirstInv, [Next]_vars
  PROVE  FirstInv'
<1>1. CASE CreateDb
  <2>1. uids \in Nat /\ MaxUid \in Nat /\ uids < MaxUid /\ uids' = uids + 1
    BY <1>1, BoundsAssumption DEF CreateDb, TypeOK
  <2>2. uids' <= MaxUid /\ uids' # 0
    BY <2>1
  <2> QED
    BY <2>2 DEF FirstInv
<1>2. CASE ~CreateDb
  <2>1. uids' = uids
    BY <1>2, DbMoves DEF EditDb, MarkDeleting
  <2> SUFFICES ASSUME uids = 0 PROVE NothingYet'
    BY <2>1 DEF FirstInv
  <2>2. NothingYet /\ pc = "idle"
    BY DEF FirstInv, NothingYet, TypeOK
  <2>3. {"db", "configmap", "statefulset", "secret", "auth", "tls", "networkpolicy"} \subseteq Kinds
    BY DEF Kinds, Children
  <2>4. ~Within /\ ~PatchStatus
    BY <2>2 DEF Within, PatchStatus, Steps
  <2>5. \/ UNCHANGED obj /\ cache' \in {cache, obj}
        \/ \E k \in Kinds : Deliver(k)
        \/ \E k \in Kinds : Write(k, NoObj)
        \/ \E k \in {"auth", "tls", "networkpolicy"} : \E new : Write(k, new)
    BY <1>2, <2>2, <2>4, StepCases
    DEF Reconcile, PodStep, Restart, Removal, Remove, Put, Delivery, StsReport, StsReportStatus,
        EditDb, MarkDeleting, OtherWriting, NothingYet, vars, cluster
  <2>6. \A k \in {"db", "configmap", "statefulset", "secret"} : obj'[k] = NoObj /\ cache'[k] = NoObj
    <3> SUFFICES ASSUME NEW k \in {"db", "configmap", "statefulset", "secret"}
                 PROVE  obj'[k] = NoObj /\ cache'[k] = NoObj
      OBVIOUS
    <3>1. obj[k] = NoObj /\ cache[k] = NoObj /\ k \in Kinds
      BY <2>2, <2>3 DEF NothingYet
    <3>2. obj'[k] = NoObj
      <4>1. ASSUME NEW j \in Kinds, Write(j, NoObj) PROVE obj'[k] = NoObj
        BY <3>1, <4>1, WriteEffect
      <4>2. ASSUME NEW j \in {"auth", "tls", "networkpolicy"}, NEW new, Write(j, new)
            PROVE  obj'[k] = NoObj
        BY <2>3, <3>1, <4>2, WriteEffect
      <4> QED
        BY <2>5, <3>1, <4>1, <4>2 DEF Deliver
    <3> QED
      BY <3>1, <3>2, CacheMoves
  <2>7. seen' = NoObj /\ edits' = 0
    BY <1>2, <2>2, SeenMoves, DbMoves DEF NothingYet, EditDb, MarkDeleting
  <2>8. pod' = NoObj
    BY <2>2, PodMoves DEF NothingYet, Boot, Bootable
  <2>9. vol'.template = NoObj
    <3>1. CASE Removal
      BY <2>2, <3>1 DEF Removal, Remove, Orphan, NothingYet, TypeOK, ClusterTypeOK
    <3>2. CASE PodStep
      BY <2>2, <3>2
      DEF PodStep, CollectPod, CollectVolume, StsCreatePod, StsReplacePod, StsSyncClaim, Boot,
          Bootable, PodFails, NothingYet
    <3> QED
      BY <1>2, <2>2, <2>4, <3>1, <3>2, StepCases
      DEF Reconcile, Restart, Delivery, Deliver, StsReport, StsReportStatus, EditDb, MarkDeleting,
          OtherWriting, NothingYet, vars, cluster
  <2> QED
    BY <2>6, <2>7, <2>8, <2>9 DEF NothingYet
<1> QED
  BY <1>1, <1>2

\* The invariant holds initially.
LEMMA FirstInit == Init => FirstInv
<1> SUFFICES ASSUME Init PROVE FirstInv
  OBVIOUS
<1>1. {"db", "configmap", "statefulset", "secret"} \subseteq Kinds
  BY DEF Kinds, Children
<1>2. NothingYet
  BY <1>1 DEF Init, ClusterInit, NothingYet
<1>3. uids = 0 /\ MaxUid \in Nat
  BY BoundsAssumption DEF Init
<1> QED
  BY <1>2, <1>3 DEF FirstInv

\* The generated Secret stays, is collected, or is written by its step.
LEMMA SecretMoves ==
  ASSUME TypeOK, [Next]_vars
  PROVE  \/ obj'.secret = obj.secret
         \/ obj'.secret = NoObj /\ Collectable("secret") /\ obj'.db = obj.db /\ UNCHANGED vol
         \/ /\ pc = "secret" /\ seen.spec.auth = "generated"
            /\ obj'.db = obj.db /\ UNCHANGED vol
            /\ \/ /\ obj.secret = NoObj
                  /\ \E p \in Passwords :
                       obj'.secret = [owner |-> SecretOwner, pw |-> p, key |-> seen.spec.key]
               \/ /\ obj.secret # NoObj
                  /\ obj'.secret = [obj.secret EXCEPT !.owner = SecretOwner]
<1>1. {"db", "statefulset", "secret"} \subseteq Kinds /\ Children \subseteq Kinds
  BY DEF Kinds, Children
<1>2. CASE Within
  <2>1. CASE UNCHANGED cluster
    BY <2>1 DEF cluster
  <2>2. ASSUME NEW new, pc \in Children, Wanted(pc, new), Put(pc, new), pc = "secret"
        PROVE  /\ obj'.secret = new /\ obj'.db = obj.db /\ seen.spec.auth = "generated"
               /\ \/ /\ obj.secret = NoObj
                     /\ \E p \in Passwords : new = [owner |-> SecretOwner, pw |-> p, key |-> seen.spec.key]
                  \/ obj.secret # NoObj /\ new = [obj.secret EXCEPT !.owner = SecretOwner]
    <3>1. Write("secret", new) /\ "secret" \in Kinds /\ "db" \in Kinds
      BY <1>1, <2>2 DEF Put
    <3>2. obj'["secret"] = new /\ obj'["db"] = obj["db"]
      BY <3>1, WriteEffect
    <3> QED
      BY <2>2, <3>2 DEF Wanted
  <2>3. ASSUME NEW new, pc \in Children, Put(pc, new), pc # "secret"
        PROVE  obj'.secret = obj.secret
    BY <1>1, <2>3, WriteEffect DEF Put
  <2> QED
    BY <1>2, <2>1, <2>2, <2>3 DEF Within
<1>3. CASE Reconcile \/ PodStep \/ Delivery \/ Restart \/ UNCHANGED vars
  BY <1>3 DEF Reconcile, PodStep, Delivery, Deliver, Restart, vars, cluster
<1>4. CASE PatchStatus \/ CreateDb \/ EditDb \/ MarkDeleting \/ StsReport
  <2>1. UNCHANGED obj \/ \E k \in {"db", "statefulset"} : \E new : Write(k, new)
    BY <1>4 DEF PatchStatus, CreateDb, EditDb, MarkDeleting, StsReport, StsReportStatus, Put
  <2>2. ASSUME NEW k \in {"db", "statefulset"}, NEW new, Write(k, new)
        PROVE  obj'.secret = obj.secret
    BY <1>1, <2>2, WriteEffect
  <2> QED
    BY <2>1, <2>2
<1>5. CASE Removal
  <2>1. PICK k \in Kinds : Remove(k) /\ (k = "secret" => Collectable(k))
    BY <1>5 DEF Removal
  <2>2. Write(k, NoObj)
    BY <2>1 DEF Remove, Put
  <2>3. CASE k = "secret"
    BY <1>1, <2>1, <2>2, <2>3, WriteEffect DEF Remove
  <2>4. CASE k # "secret"
    BY <1>1, <2>2, <2>4, WriteEffect
  <2> QED
    BY <2>3, <2>4
<1>6. CASE OtherWriting
  <2>1. PICK k \in {"auth", "tls", "networkpolicy"} : \E new : Put(k, new)
    BY <1>6 DEF OtherWriting
  <2>2. k \in Kinds /\ k # "secret"
    BY DEF Kinds, Children
  <2> QED
    BY <1>1, <2>1, <2>2, WriteEffect DEF Put
<1> QED
  BY <1>2, <1>3, <1>4, <1>5, <1>6, StepCases

\* Volumes change with the StatefulSet's removal and in steps of their own.
LEMMA VolumeSteps ==
  ASSUME TypeOK, [Next]_vars
  PROVE  \/ UNCHANGED vol
         \/ Orphan
         \/ CollectVolume \/ StsCreatePod \/ StsSyncClaim \/ Boot
<1>1. CASE Removal
  BY <1>1 DEF Removal, Remove
<1>2. CASE PodStep
  BY <1>2 DEF PodStep, CollectPod, StsReplacePod, PodFails
<1>3. CASE Within \/ Reconcile \/ PatchStatus \/ Restart \/ UNCHANGED vars
  BY <1>3 DEF Within, Reconcile, PatchStatus, Restart, vars, cluster
<1>4. CASE Delivery \/ StsReport \/ CreateDb \/ EditDb \/ MarkDeleting \/ OtherWriting
  BY <1>4
  DEF Delivery, Deliver, StsReport, StsReportStatus, CreateDb, EditDb, MarkDeleting, OtherWriting
<1> QED
  BY <1>1, <1>2, <1>3, <1>4, StepCases

\* What a step may do to a volume: remove it, make it anew, leave its password
\* alone, or initialise it from a Secret that exists.
VolumeKept(c) ==
  \/ vol'[c] = NoObj
  \/ vol'[c] # NoObj /\ vol'[c].src # "secret"
  \/ vol[c] # NoObj /\ vol'[c] # NoObj /\ vol'[c].src = vol[c].src /\ vol'[c].pw = vol[c].pw
  \/ obj.secret # NoObj /\ vol'[c] # NoObj /\ vol'[c].pw = obj.secret.pw

\* Every step does one of these to each volume.
LEMMA VolumesKept ==
  ASSUME TypeOK, [Next]_vars, NEW c \in {"template", "existing"}
  PROVE  VolumeKept(c)
<1>1. vol \in [template : Maybe(VolObj), existing : Maybe(VolObj)]
  BY DEF TypeOK, ClusterTypeOK
<1>2. CASE UNCHANGED vol
  BY <1>2 DEF VolumeKept
<1>3. CASE Orphan
  BY <1>1, <1>3 DEF Orphan, VolumeKept, Maybe, VolObj
<1>4. CASE CollectVolume
  BY <1>1, <1>4 DEF CollectVolume, VolumeKept
<1>5. CASE StsCreatePod
  <2>1. [Blank EXCEPT !.owner = ClaimOwner].src # "secret"
    BY DEF Blank
  <2> QED
    BY <1>1, <1>5, <2>1 DEF StsCreatePod, VolumeKept
<1>6. CASE StsSyncClaim
  <2>1. vol.template \in VolObj /\ vol.template # NoObj
    BY <1>1, <1>6 DEF StsSyncClaim, Maybe
  <2>2. /\ vol'["existing"] = vol["existing"]
        /\ vol'["template"] = [vol.template EXCEPT !.owner = ClaimOwner]
    BY <1>1, <1>6 DEF StsSyncClaim
  <2>3. [vol.template EXCEPT !.owner = ClaimOwner] \in VolObj
    BY <2>1 DEF VolObj, ClaimOwner
  <2>4. VolumeKept("template")
    BY <2>1, <2>2, <2>3, ClusterAssumption DEF VolumeKept, VolObj
  <2>5. VolumeKept("existing")
    BY <2>2 DEF VolumeKept
  <2> QED
    BY <2>4, <2>5
<1>7. CASE Boot
  <2>1. /\ pod.claim \in {"template", "existing"} /\ pod.rev.secretName \in {"secret", "auth"}
        /\ vol[pod.claim] \in VolObj
    BY <1>1, <1>7, TemplateFields DEF Boot, Bootable, TypeOK, ClusterTypeOK, Maybe, PodObj
  <2> DEFINE w == [vol[pod.claim] EXCEPT !.src = pod.rev.secretName, !.pw = obj[pod.rev.secretName].pw]
  <2>2. vol' = vol \/ vol' = [vol EXCEPT ![pod.claim] = w]
    BY <1>1, <1>7, <2>1 DEF Boot, VolObj
  <2>3. w.src = pod.rev.secretName /\ w.pw = obj[pod.rev.secretName].pw
    BY <2>1 DEF VolObj
  <2>4. w # NoObj
    <3>1. obj[pod.rev.secretName] \in SecretObj
      BY <1>7, <2>1, ObjectTypes DEF Boot, Bootable, TypeOK, ClusterTypeOK
    <3>2. w \in VolObj
      BY <2>1, <3>1 DEF VolObj, SecretObj, Maybe
    <3> QED
      BY <3>2, ClusterAssumption
  <2>5. obj[pod.rev.secretName] # NoObj
    BY <1>7 DEF Boot, Bootable
  <2> HIDE DEF w
  <2>6. CASE vol'[c] = vol[c]
    BY <2>6 DEF VolumeKept
  <2>7. CASE vol'[c] = w
    <3>1. CASE pod.rev.secretName = "secret"
      BY <2>3, <2>4, <2>5, <2>7, <3>1 DEF VolumeKept
    <3>2. CASE pod.rev.secretName = "auth"
      BY <2>3, <2>4, <2>7, <3>2 DEF VolumeKept
    <3> QED
      BY <2>1, <3>1, <3>2
  <2> QED
    BY <1>1, <2>1, <2>2, <2>6, <2>7
<1> QED
  BY <1>2, <1>3, <1>4, <1>5, <1>6, <1>7, VolumeSteps

(***************************************************************************)
(* The generated password is never lost while volumes are retained.        *)
(*                                                                         *)
(* NoLockout alone is not inductive: the garbage collector could remove    *)
(* the Secret.  The invariant adds that the Secret has no owner.           *)
(***************************************************************************)
\* Whoever lets the operator generate the password retains the volume.
GeneratedIsRetained ==
  \A s \in Specs : s.auth = "generated" => s.whenDeleted = "Retain"

RetainInv ==
  /\ TypeOK
  /\ obj.secret # NoObj => obj.secret.owner = Unowned
  /\ NoLockout

\* While the Secret stays, every volume made from it keeps finding its password.
LEMMA StaysOpen ==
  ASSUME TypeOK, TypeOK', [Next]_vars, NoLockout, obj'.secret = obj.secret
  PROVE  NoLockout'
<1>1. DOMAIN vol = {"template", "existing"} /\ DOMAIN vol' = {"template", "existing"}
  BY DEF TypeOK, ClusterTypeOK
<1> SUFFICES ASSUME NEW c \in {"template", "existing"}, vol'[c] # NoObj, vol'[c].src = "secret"
             PROVE  obj.secret # NoObj /\ obj.secret.pw = vol'[c].pw
  BY <1>1 DEF NoLockout
<1>2. VolumeKept(c)
  BY VolumesKept
<1> QED
  BY <1>1, <1>2 DEF VolumeKept, NoLockout

\* The inductive invariant holds initially: there is no volume.
LEMMA InitRetain == Init => RetainInv
<1> SUFFICES ASSUME Init PROVE RetainInv
  OBVIOUS
<1>1. obj.secret = NoObj
  BY DEF Init, ClusterInit, Kinds, Children
<1>2. NoLockout
  BY DEF Init, ClusterInit, NoLockout, Blank
<1> QED
  BY <1>1, <1>2, InitType DEF RetainInv

\* Every step preserves it: the Secret is created without an owner, never gets
\* one, and is therefore never collected.
LEMMA NextRetain ==
  ASSUME GeneratedIsRetained
  PROVE  RetainInv /\ [Next]_vars => RetainInv'
<1> SUFFICES ASSUME RetainInv, [Next]_vars PROVE RetainInv'
  OBVIOUS
<1>1. TypeOK /\ TypeOK'
  BY NextType DEF RetainInv
<1>2. obj.secret \in SecretObj \cup {NoObj}
  BY <1>1, ObjectTypes DEF TypeOK, ClusterTypeOK
<1>3. CASE obj'.secret = obj.secret
  BY <1>1, <1>3, StaysOpen DEF RetainInv
<1>4. ~Collectable("secret")
  BY DEF Collectable, Controlled, RetainInv, Unowned
<1>5. ASSUME pc = "secret", seen.spec.auth = "generated"
      PROVE  SecretOwner = Unowned
  <2>1. seen.spec \in Specs
    BY <1>1, <1>5, SeenTypes DEF Steps
  <2> QED
    BY <1>5, <2>1 DEF GeneratedIsRetained, SecretOwner, SecretOwnedByDatabase
<1>6. CASE /\ pc = "secret" /\ seen.spec.auth = "generated" /\ UNCHANGED vol
           /\ obj.secret = NoObj
           /\ \E p \in Passwords :
                obj'.secret = [owner |-> SecretOwner, pw |-> p, key |-> seen.spec.key]
  <2>1. obj'.secret.owner = Unowned
    BY <1>5, <1>6
  <2>2. NoLockout'
    BY <1>6 DEF RetainInv, NoLockout
  <2> QED
    BY <1>1, <2>1, <2>2 DEF RetainInv
<1>7. CASE /\ pc = "secret" /\ seen.spec.auth = "generated" /\ UNCHANGED vol
           /\ obj.secret # NoObj
           /\ obj'.secret = [obj.secret EXCEPT !.owner = SecretOwner]
  <2>1. obj'.secret = obj.secret
    BY <1>2, <1>5, <1>7 DEF RetainInv, SecretObj
  <2> QED
    BY <1>3, <2>1
<1> QED
  BY <1>1, <1>3, <1>4, <1>6, <1>7, SecretMoves

\* If whoever lets the operator generate the password retains the volume, nobody
\* is ever locked out: through edits, deletions, re-creations, stale caches,
\* failed calls and restarts in any number, a volume initialised from the
\* generated Secret finds that Secret with that password.
THEOREM RetainNeverLocksOut ==
  ASSUME GeneratedIsRetained
  PROVE  Spec => []NoLockout
<1>1. Init => RetainInv
  BY InitRetain
<1>2. RetainInv /\ [Next]_vars => RetainInv'
  BY NextRetain
<1>3. RetainInv => NoLockout
  BY DEF RetainInv
<1> QED
  BY <1>1, <1>2, <1>3, PTL DEF Spec

(***************************************************************************)
(* The status claims no rollout that did not happen.                       *)
(*                                                                         *)
(* Between the pod that serves and the condition that says so lie the      *)
(* StatefulSet's status, its copy in the cache, what reconcileStatefulSet  *)
(* returned, and the copy of the SereneDB the reconcile works on; any of   *)
(* them may be out of date.  EarnedInv follows the claim through them.     *)
(***************************************************************************)
\* The status of a StatefulSet that claims a complete rollout of its present
\* generation is about a pod that has been serving.
StsEarned(sts) ==
  sts # NoObj =>
    /\ sts.status.observed <= sts.gen
    /\ sts.status.observed = sts.gen /\ sts.status.ready = 1 /\ sts.status.updated = 1
         => sts.template \in served

\* a is an earlier or the same state of the SereneDB b: the generation counts the
\* changes of the spec.
Follows(a, b) ==
  a # NoObj /\ b # NoObj => a.gen <= b.gen /\ (a.gen = b.gen => a.spec = b.spec)

PodEarned == pod # NoObj /\ pod.ready => pod.rev \in served
GotEarned == got.complete => seen # NoObj /\ Template(seen.spec) \in served
CopiesInv == Follows(cache.db, obj.db) /\ Follows(seen, obj.db)
ConditionInv == obj.db # NoObj => obj.db.status.conditions.gen <= obj.db.gen

EarnedInv ==
  /\ FirstInv
  /\ PodEarned
  /\ StsEarned(obj.statefulset) /\ StsEarned(cache.statefulset)
  /\ GotEarned
  /\ CopiesInv
  /\ ConditionInv
  /\ StatusIsEarned

\* A pod that becomes ready has been serving from then on.
LEMMA PodEarnedStep ==
  ASSUME TypeOK, TypeOK', PodEarned, [Next]_vars
  PROVE  PodEarned'
<1>1. pod \in PodObj \cup {NoObj}
  BY DEF TypeOK, ClusterTypeOK, Maybe
<1>2. CASE Boot
  BY <1>1, <1>2 DEF Boot, Bootable, PodEarned, PodObj
<1>3. CASE pod # NoObj /\ pod' = [pod EXCEPT !.owner = "gone"] /\ UNCHANGED served
  BY <1>1, <1>3 DEF PodEarned, PodObj
<1>4. CASE pod # NoObj /\ pod' = [pod EXCEPT !.ready = FALSE] /\ UNCHANGED served
  BY <1>1, <1>4 DEF PodEarned, PodObj
<1> QED
  BY <1>2, <1>3, <1>4, PodMoves DEF PodEarned

\* The update of a StatefulSet either keeps template and generation, or is of a
\* generation its status does not speak of.
LEMMA ChangedEarned ==
  ASSUME TypeOK, pc \in Steps, NEW sts \in StsObj, StsEarned(sts), sts # NoObj
  PROVE  /\ StsEarned(ChangedSts(sts))
         /\ rolloutComplete(ChangedSts(sts)) => Template(seen.spec) \in served
<1> DEFINE new == ChangedSts(sts)
<1>1. sts.gen \in Nat /\ sts.status \in StsStatus /\ sts.status.observed \in Nat
  BY DEF StsObj, StsStatus
<1>2. new.status = sts.status /\ new.template = Template(seen.spec)
  BY DEF ChangedSts, StsObj
<1>3. \/ new.template = sts.template /\ new.gen = sts.gen
      \/ new.gen = sts.gen + 1
  BY DEF ChangedSts, StsObj
<1>4. sts.status.observed <= sts.gen
  BY DEF StsEarned
<1> HIDE DEF new
<1>5. new.status.observed <= new.gen
  BY <1>1, <1>2, <1>3, <1>4
<1>6. new.status.observed = new.gen /\ new.status.ready = 1 /\ new.status.updated = 1
        => new.template \in served
  <2>1. CASE new.gen = sts.gen + 1
    BY <1>1, <1>2, <1>4, <2>1
  <2>2. CASE new.template = sts.template /\ new.gen = sts.gen
    BY <1>2, <2>2 DEF StsEarned
  <2> QED
    BY <1>3, <2>1, <2>2
<1>7. StsEarned(new) /\ (rolloutComplete(new) => Template(seen.spec) \in served)
  BY <1>2, <1>5, <1>6 DEF StsEarned, rolloutComplete
<1> QED
  BY <1>7 DEF new

\* Every step keeps the StatefulSet's claim true, in the API server and in the
\* cache.
LEMMA StsEarnedStep ==
  ASSUME TypeOK, TypeOK', [Next]_vars, PodEarned,
         StsEarned(obj.statefulset), StsEarned(cache.statefulset)
  PROVE  StsEarned(obj.statefulset)' /\ StsEarned(cache.statefulset)'
<1>1. served \subseteq served'
  BY ServedGrows
<1>2. ASSUME NEW sts, StsEarned(sts)
      PROVE  sts # NoObj =>
               /\ sts.status.observed <= sts.gen
               /\ sts.status.observed = sts.gen /\ sts.status.ready = 1 /\ sts.status.updated = 1
                    => sts.template \in served'
  BY <1>1, <1>2 DEF StsEarned
<1>3. obj.statefulset \in StsObj \cup {NoObj} /\ cache.statefulset \in StsObj \cup {NoObj}
  BY ObjectTypes DEF TypeOK, ClusterTypeOK
<1>4. StsEarned(obj.statefulset)'
  <2>1. CASE obj'.statefulset \in {obj.statefulset, NoObj}
    BY <1>2, <2>1 DEF StsEarned
  <2>2. CASE Within /\ pc = "statefulset" /\ obj'.statefulset = NewSts
    BY <2>2 DEF NewSts, StsEarned
  <2>3. CASE /\ Within /\ pc = "statefulset" /\ obj.statefulset # NoObj
             /\ obj'.statefulset = ChangedSts(obj.statefulset)
    <3>1. StsEarned(ChangedSts(obj.statefulset))
      BY <1>3, <2>3, ChangedEarned DEF Steps
    <3>2. PICK new : new = ChangedSts(obj.statefulset)
      OBVIOUS
    <3> QED
      BY <1>2, <2>3, <3>1, <3>2 DEF StsEarned
  <2>4. CASE /\ obj.statefulset # NoObj /\ UNCHANGED served
             /\ obj'.statefulset = [obj.statefulset EXCEPT !.status = StsStatusNow]
    <3>1. /\ obj'.statefulset.gen = obj.statefulset.gen /\ obj.statefulset.gen \in Nat
          /\ obj'.statefulset.template = obj.statefulset.template
          /\ obj'.statefulset.status = StsStatusNow
      BY <1>3, <2>4 DEF StsObj
    <3>2. /\ StsStatusNow.observed = obj.statefulset.gen
          /\ StsStatusNow.ready = 1 => pod # NoObj /\ pod.ready
          /\ StsStatusNow.updated = 1 => pod.rev = obj.statefulset.template
      BY DEF StsStatusNow, OwnPod
    <3>3. StsStatusNow.observed <= obj.statefulset.gen
      BY <3>1, <3>2
    <3> QED
      BY <2>4, <3>1, <3>2, <3>3 DEF StsEarned, PodEarned
  <2> QED
    BY <2>1, <2>2, <2>3, <2>4, StsMoves
<1>5. cache'.statefulset \in {cache.statefulset, obj'.statefulset}
  BY CacheMoves DEF Kinds, Children
<1>6. StsEarned(cache.statefulset)'
  BY <1>2, <1>4, <1>5 DEF StsEarned
<1> QED
  BY <1>4, <1>6

\* What reconcileStatefulSet returns is true, and stays so.
LEMMA GotEarnedStep ==
  ASSUME TypeOK, TypeOK', [Next]_vars, GotEarned, StsEarned(cache.statefulset)
  PROVE  GotEarned'
<1>1. served \subseteq served'
  BY ServedGrows
<1>2. cache.statefulset \in StsObj \cup {NoObj}
  BY ObjectTypes DEF TypeOK, ClusterTypeOK
<1>3. CASE seen' = seen /\ got' = got
  BY <1>1, <1>3 DEF GotEarned
<1>4. CASE seen' = seen /\ Within /\ pc = "statefulset" /\ got' = Rolled
  <2>1. pc \in Steps /\ seen # NoObj
    BY <1>4, SeenTypes DEF Steps
  <2>2. CASE cache.statefulset = NoObj
    <3>1. ~rolloutComplete(NewSts)
      BY DEF rolloutComplete, NewSts
    <3> QED
      BY <1>4, <2>2, <3>1 DEF Rolled, GotEarned
  <2>3. CASE cache.statefulset # NoObj
    <3>1. rolloutComplete(ChangedSts(cache.statefulset)) => Template(seen.spec) \in served
      BY <1>2, <2>1, <2>3, ChangedEarned
    <3> QED
      BY <1>1, <1>4, <2>1, <2>3, <3>1 DEF Rolled, GotEarned
  <2> QED
    BY <2>2, <2>3
<1>5. CASE got' = NoSts
  BY <1>5 DEF GotEarned, NoSts
<1> QED
  BY <1>3, <1>4, <1>5, SeenMoves

\* What the status patch changes: the condition becomes that of the generation the
\* reconcile has seen, the version that of a rollout it found complete, or they
\* stay what they are.
LEMMA PatchEffect ==
  ASSUME TypeOK, pc = "status", obj.db # NoObj, NEW new,
         new = Patched(obj.db, describe(seen, err, got))
  PROVE  /\ new.uid = obj.db.uid /\ new.gen = obj.db.gen /\ new.spec = obj.db.spec
         /\ new.deleting = obj.db.deleting
         /\ \/ new.status.conditions = obj.db.status.conditions
            \/ /\ new.status.conditions.gen = seen.gen
               /\ new.status.conditions.ready = "True" => got.complete
         /\ \/ new.status.version = obj.db.status.version
            \/ got.complete /\ new.status.version = seen.spec.tag
<1> DEFINE status == describe(seen, err, got)
           merged == [f \in DOMAIN status |->
                        IF status[f] # seen.status[f] THEN status[f] ELSE obj.db.status[f]]
           named  == [seen.status EXCEPT !.observed = seen.gen, !.secretName = SecretName(seen.spec)]
           cond(ready, reason) == [ready |-> ready, reason |-> reason, gen |-> seen.gen]
<1>1. seen \in DbObj /\ obj.db \in DbObj /\ seen.status \in DbStatus /\ pc \in Steps
  BY SeenTypes, ObjectTypes DEF TypeOK, ClusterTypeOK, DbObj, Steps
<1>2. status \in DbStatus /\ got \in [ready : 0..1, complete : BOOLEAN]
      /\ err \in Reasons \cup {"none", "error"}
  BY <1>1, DescribeType DEF TypeOK
<1>3. new = [obj.db EXCEPT !.status = merged]
  BY DEF Patched
<1>4. /\ status.conditions.gen = seen.gen
      /\ status.conditions.ready = "True" => got.complete
      /\ status.version = seen.status.version \/ (got.complete /\ status.version = seen.spec.tag)
  <2>1. /\ DOMAIN named = {"observed", "secretName", "readyReplicas", "version", "conditions"}
        /\ named.version = seen.status.version
    BY <1>1 DEF DbStatus
  <2> HIDE DEF named, status
  <2>2. CASE err \in Reasons
    <3>1. status = [named EXCEPT !.readyReplicas = 0, !.conditions = cond("False", err)]
      BY <2>2 DEF status, describe, Blocked, NothingServing, named, Reasons
    <3> QED
      BY <2>1, <3>1
  <2>3. CASE err = "error"
    <3>1. status = [named EXCEPT !.conditions = cond("False", "ReconcileError")]
      BY <2>3 DEF status, describe, Blocked, named, Reasons
    <3> QED
      BY <2>1, <3>1
  <2>4. CASE err = "none" /\ got.complete
    <3>1. status = [named EXCEPT !.readyReplicas = got.ready, !.version = seen.spec.tag,
                                 !.conditions = cond("True", "PodReady")]
      BY <2>4 DEF status, describe, Blocked, named, Reasons
    <3> QED
      BY <2>1, <2>4, <3>1
  <2>5. CASE err = "none" /\ ~got.complete
    <3>1. status = [named EXCEPT !.readyReplicas = got.ready,
                                 !.conditions = cond("False", "PodNotReady")]
      BY <2>5 DEF status, describe, Blocked, named, Reasons
    <3> QED
      BY <2>1, <3>1
  <2> QED
    BY <1>2, <2>2, <2>3, <2>4, <2>5
<1> HIDE DEF status
<1>5. /\ merged.conditions \in {status.conditions, obj.db.status.conditions}
      /\ merged.version = obj.db.status.version
           \/ (merged.version = status.version /\ status.version # seen.status.version)
  BY <1>2 DEF DbStatus
<1> HIDE DEF merged
<1>6. /\ new.status = merged
      /\ new.uid = obj.db.uid /\ new.gen = obj.db.gen /\ new.spec = obj.db.spec
      /\ new.deleting = obj.db.deleting
  BY <1>1, <1>3 DEF DbObj
<1> QED
  BY <1>4, <1>5, <1>6

\* Copies of the one SereneDB stay behind it, or up to date.
LEMMA CopiesStep ==
  ASSUME MaxUid <= 1, TypeOK, TypeOK', [Next]_vars, FirstInv, CopiesInv
  PROVE  CopiesInv'
<1>1. /\ obj.db \in DbObj \cup {NoObj} /\ cache.db \in DbObj \cup {NoObj}
      /\ seen \in DbObj \cup {NoObj}
      /\ obj'.db \in DbObj \cup {NoObj}
  BY ObjectTypes DEF TypeOK, ClusterTypeOK, Maybe
<1>2. cache'.db \in {cache.db, obj'.db}
  BY CacheMoves DEF Kinds
<1>3. seen' \in {seen, NoObj} \/ (seen' = cache.db /\ UNCHANGED obj)
  BY SeenMoves
<1>4. obj'.db # NoObj => obj'.db.gen <= obj'.db.gen
  <2>1. obj'.db # NoObj => obj'.db.gen \in Nat
    BY <1>1 DEF DbObj
  <2> QED
    BY <2>1
<1>5. ASSUME NEW a, Follows(a, obj.db), obj.db # NoObj, obj'.db # NoObj,
             obj'.db.gen = obj.db.gen, obj'.db.spec = obj.db.spec
      PROVE  Follows(a, obj'.db)
  BY <1>5 DEF Follows
<1>6. CASE obj'.db = NoObj
  BY <1>6 DEF CopiesInv, Follows
<1>7. CASE /\ obj.db # NoObj /\ obj'.db # NoObj
           /\ obj'.db.gen = obj.db.gen /\ obj'.db.spec = obj.db.spec
  <2>1. Follows(cache.db, obj'.db) /\ Follows(seen, obj'.db)
    BY <1>5, <1>7 DEF CopiesInv
  <2>2. Follows(obj'.db, obj'.db) /\ Follows(NoObj, obj'.db)
    BY <1>4 DEF Follows
  <2>3. Follows(cache'.db, obj'.db) /\ Follows(seen', obj'.db)
    BY <1>2, <1>3, <2>1, <2>2
  <2> QED
    BY <2>3 DEF CopiesInv, Follows
<1>8. CASE CreateDb
  <2>1. NothingYet
    <3>1. uids \in Nat /\ MaxUid \in Nat /\ uids < MaxUid
      BY <1>8, BoundsAssumption DEF CreateDb, TypeOK
    <3>2. uids = 0
      BY <3>1
    <3> QED
      BY <3>2 DEF FirstInv
  <2>2. seen' = NoObj /\ cache'.db \in {NoObj, obj'.db}
    BY <1>2, <1>8, <2>1 DEF CreateDb, worker, NothingYet
  <2> QED
    BY <1>4, <2>2 DEF CopiesInv, Follows
<1>9. CASE EditDb
  <2>1. PICK s \in Specs : Put("db", [obj.db EXCEPT !.spec = s, !.gen = @ + 1])
    BY <1>9 DEF EditDb
  <2>2. obj'.db = [obj.db EXCEPT !.spec = s, !.gen = @ + 1]
    BY <2>1, WriteEffect DEF Put, Kinds
  <2>3. obj.db \in DbObj /\ obj.db.gen \in Nat /\ obj'.db.gen = obj.db.gen + 1 /\ obj.db # NoObj
    BY <1>1, <1>9, <2>2 DEF EditDb, DbObj
  <2>4. ASSUME NEW a \in DbObj \cup {NoObj}, Follows(a, obj.db) PROVE Follows(a, obj'.db)
    <3>1. a # NoObj => a.gen \in Nat /\ a.gen <= obj.db.gen
      BY <2>3, <2>4 DEF Follows, DbObj
    <3>2. a # NoObj => a.gen <= obj'.db.gen /\ a.gen # obj'.db.gen
      BY <2>3, <3>1
    <3> QED
      BY <3>2 DEF Follows
  <2>5. seen' = seen
    BY <1>9 DEF EditDb, worker
  <2>6. Follows(cache.db, obj'.db) /\ Follows(seen', obj'.db) /\ Follows(obj'.db, obj'.db)
    BY <1>1, <1>4, <2>4, <2>5 DEF CopiesInv, Follows
  <2>7. Follows(cache'.db, obj'.db)
    BY <1>2, <2>6
  <2> QED
    BY <2>6, <2>7 DEF CopiesInv, Follows
<1>10. CASE MarkDeleting
  <2>1. obj'.db = [obj.db EXCEPT !.deleting = TRUE] /\ obj.db # NoObj
    BY <1>10, WriteEffect DEF MarkDeleting, Put, Kinds
  <2> QED
    BY <1>1, <1>6, <1>7, <2>1 DEF DbObj
<1>11. CASE PatchStatus /\ obj.db # NoObj /\ obj'.db = Patched(obj.db, describe(seen, err, got))
  <2>1. obj'.db.gen = obj.db.gen /\ obj'.db.spec = obj.db.spec
    BY <1>11, PatchEffect DEF PatchStatus
  <2> QED
    BY <1>6, <1>7, <1>11, <2>1
<1> QED
  BY <1>6, <1>7, <1>8, <1>9, <1>10, <1>11, DbMoves

\* The conditions and the version of the SereneDB stay earned.
LEMMA StatusStep ==
  ASSUME MaxUid <= 1, TypeOK, TypeOK', [Next]_vars, FirstInv, GotEarned, CopiesInv,
         ConditionInv, StatusIsEarned
  PROVE  ConditionInv' /\ StatusIsEarned'
<1>1. obj.db \in DbObj \cup {NoObj}
  BY ObjectTypes DEF TypeOK, ClusterTypeOK
<1>2. served \subseteq served'
  BY ServedGrows
<1> DEFINE Earned(db, S) ==
             /\ db.status.conditions.gen <= db.gen
             /\ db.status.conditions.ready = "True" /\ db.status.conditions.gen = db.gen
                  => Template(db.spec) \in S
             /\ db.status.version # "none" => \E t \in S : t.image = db.status.version
<1>3. obj.db # NoObj => Earned(obj.db, served)
  BY DEF ConditionInv, StatusIsEarned
<1> SUFFICES ASSUME obj'.db # NoObj PROVE Earned(obj'.db, served')
  BY DEF ConditionInv, StatusIsEarned
<1>4. CASE obj'.db = obj.db
  BY <1>2, <1>3, <1>4
<1>5. CASE CreateDb
  <2>1. PICK s \in Specs :
          Put("db", [uid |-> uids + 1, gen |-> 1, spec |-> s, deleting |-> FALSE,
                     status |-> NoStatus])
    BY <1>5 DEF CreateDb
  <2>2. obj'.db = [uid |-> uids + 1, gen |-> 1, spec |-> s, deleting |-> FALSE,
                   status |-> NoStatus]
    BY <2>1, WriteEffect DEF Put, Kinds
  <2> QED
    BY <2>2 DEF NoStatus
<1>6. CASE EditDb
  <2>1. PICK s \in Specs : Put("db", [obj.db EXCEPT !.spec = s, !.gen = @ + 1])
    BY <1>6 DEF EditDb
  <2>2. obj'.db = [obj.db EXCEPT !.spec = s, !.gen = @ + 1] /\ obj.db # NoObj
    BY <1>6, <2>1, WriteEffect DEF Put, Kinds, EditDb
  <2>3. /\ obj.db.gen \in Nat /\ obj.db.status.conditions.gen \in Nat
        /\ obj'.db.gen = obj.db.gen + 1 /\ obj'.db.status = obj.db.status
    BY <1>1, <2>2 DEF DbObj, DbStatus, Condition
  <2>4. obj'.db.status.conditions.gen <= obj'.db.gen /\ obj'.db.status.conditions.gen # obj'.db.gen
    BY <1>3, <2>2, <2>3
  <2> QED
    BY <1>2, <1>3, <2>2, <2>3, <2>4
<1>7. CASE MarkDeleting
  <2>1. obj'.db = [obj.db EXCEPT !.deleting = TRUE] /\ obj.db # NoObj
    BY <1>7, WriteEffect DEF MarkDeleting, Put, Kinds
  <2>2. obj'.db.gen = obj.db.gen /\ obj'.db.spec = obj.db.spec /\ obj'.db.status = obj.db.status
    BY <1>1, <2>1 DEF DbObj
  <2> QED
    BY <1>2, <1>3, <2>1, <2>2
<1>8. CASE PatchStatus /\ obj.db # NoObj /\ obj'.db = Patched(obj.db, describe(seen, err, got))
  <2>1. PICK new : new = obj'.db
    OBVIOUS
  <2>2. /\ new.gen = obj.db.gen /\ new.spec = obj.db.spec
        /\ \/ new.status.conditions = obj.db.status.conditions
           \/ /\ new.status.conditions.gen = seen.gen
              /\ new.status.conditions.ready = "True" => got.complete
        /\ \/ new.status.version = obj.db.status.version
           \/ got.complete /\ new.status.version = seen.spec.tag
    BY <1>8, <2>1, PatchEffect DEF PatchStatus
  <2>3. seen # NoObj /\ seen.spec \in Specs
    BY <1>8, SeenTypes DEF PatchStatus, Steps
  <2>4. got.complete => Template(seen.spec) \in served
    BY DEF GotEarned
  <2>5. seen.gen <= obj.db.gen /\ (seen.gen = obj.db.gen => seen.spec = obj.db.spec)
    BY <1>8, <2>3 DEF CopiesInv, Follows
  <2>6. Template(seen.spec).image = seen.spec.tag
    BY <2>3, BuilderTypes
  <2>7. /\ new.status.conditions.gen <= new.gen
        /\ new.status.conditions.ready = "True" /\ new.status.conditions.gen = new.gen
             => Template(new.spec) \in served
    BY <1>3, <1>8, <2>2, <2>4, <2>5
  <2>8. new.status.version # "none" => \E t \in served : t.image = new.status.version
    BY <1>3, <1>8, <2>2, <2>4, <2>6
  <2> QED
    BY <1>2, <2>1, <2>7, <2>8
<1> QED
  BY <1>4, <1>5, <1>6, <1>7, <1>8, DbMoves

\* As long as one SereneDB is created under the name, its status claims no rollout
\* that did not happen: Ready for the current generation means that a pod of
\* exactly this spec has been serving, and so for the version.  This holds with
\* any informer lagging, for any number of edits, failures and restarts.
THEOREM StatusAlwaysEarned ==
  ASSUME MaxUid <= 1
  PROVE  Spec => []StatusIsEarned
<1>1. Init => EarnedInv
  <2> SUFFICES ASSUME Init PROVE EarnedInv
    OBVIOUS
  <2>1. obj.statefulset = NoObj /\ cache.statefulset = NoObj /\ obj.db = NoObj /\ cache.db = NoObj
    BY DEF Init, ClusterInit, Kinds, Children
  <2>2. FirstInv
    BY FirstInit
  <2> QED
    BY <2>1, <2>2
    DEF EarnedInv, Init, ClusterInit, PodEarned, StsEarned, GotEarned, NoSts, CopiesInv, Follows,
        ConditionInv, StatusIsEarned
<1>2. TypeOK /\ TypeOK' /\ EarnedInv /\ [Next]_vars => EarnedInv'
  <2> SUFFICES ASSUME TypeOK, TypeOK', EarnedInv, [Next]_vars PROVE EarnedInv'
    OBVIOUS
  <2>1. PodEarned' /\ StsEarned(obj.statefulset)' /\ StsEarned(cache.statefulset)' /\ GotEarned'
    BY PodEarnedStep, StsEarnedStep, GotEarnedStep DEF EarnedInv
  <2>2. FirstInv' /\ CopiesInv' /\ ConditionInv' /\ StatusIsEarned'
    BY FirstStep, CopiesStep, StatusStep DEF EarnedInv
  <2> QED
    BY <2>1, <2>2 DEF EarnedInv
<1>3. EarnedInv => StatusIsEarned
  BY DEF EarnedInv
<1>4. Spec => []TypeOK
  BY TypeCorrect
<1> QED
  BY <1>1, <1>2, <1>3, <1>4, PTL DEF Spec

(***************************************************************************)
(* No change of the configuration is left behind without a roll.           *)
(*                                                                         *)
(* The invariant speaks of f, the flagfile of the SereneDB's present spec, *)
(* in two parts.  ConfigInv: a pod or StatefulSet with the hash of f only  *)
(* exists once the ConfigMap holds f, and nobody who still works on an     *)
(* older spec is left by then to undo that.  QueueInv: an operator at rest *)
(* has rolled out the spec it has in its cache.                            *)
(***************************************************************************)
Behind(db, f)  == db # NoObj /\ Flagfile(db.spec) # f
Holds(cm, f)   == cm # NoObj /\ cm.data = f
StsHashes(f)   == obj.statefulset # NoObj /\ obj.statefulset.template.hash = ConfigHash(f)
PodHashes(f)   == pod # NoObj /\ pod.rev.hash = ConfigHash(f)
ConfigMapIs(f) == obj.configmap # NoObj => obj.configmap.data = f

\* There is no other flagfile than f.
OnlyFlagfile(f) ==
  /\ ~Behind(cache.db, f) /\ ~Behind(seen, f)
  /\ ConfigMapIs(f) /\ (cache.configmap # NoObj => cache.configmap.data = f)
  /\ obj.statefulset # NoObj => StsHashes(f)
  /\ pod # NoObj => PodHashes(f)
  /\ pod # NoObj /\ pod.ready => pod.flags = f

\* Whoever sees a configuration before f has not seen or written f.
BehindInv(f) ==
  /\ seen # NoObj /\ Behind(cache.db, f) => Behind(seen, f)
  /\ Behind(cache.db, f) \/ Behind(seen, f)
       => /\ ~Holds(obj.configmap, f) /\ ~Holds(cache.configmap, f)
          /\ ~StsHashes(f) /\ ~PodHashes(f)

\* The ConfigMap is written before the hash of it.
WrittenFirst(f) ==
  \/ StsHashes(f) \/ PodHashes(f) \/ Holds(cache.configmap, f)
  \/ pc \in {"service", "headless", "statefulset"} /\ ~Behind(seen, f)
  => ConfigMapIs(f)

RunsHashed(f) == PodHashes(f) /\ pod.ready => pod.flags = f

ConfigFor(f) ==
  /\ edits = 0 => OnlyFlagfile(f)
  /\ BehindInv(f)
  /\ WrittenFirst(f)
  /\ RunsHashed(f)

ConfigInv == obj.db # NoObj => ConfigFor(Flagfile(obj.db.spec))

QueueInv ==
  ~queued =>
    /\ pc # "idle" => seen = cache.db
    /\ /\ pc = "idle" \/ (pc \in {"networkpolicy", "status"} /\ err = "none")
       /\ cache.db # NoObj /\ ~cache.db.deleting
       /\ obj.statefulset # NoObj
       => obj.statefulset.template = Template(cache.db.spec)

\* Different flagfiles have different hashes, and a template has its spec's.
LEMMA HashOfTemplate ==
  /\ \A f, g : ConfigHash(f) = ConfigHash(g) => f = g
  /\ \A s : Template(s).hash = ConfigHash(Flagfile(s))
<1>1. ASSUME NEW f, NEW g, ConfigHash(f) = ConfigHash(g) PROVE f = g
  <2>1. ConfigHash(f).sha256 = f /\ ConfigHash(g).sha256 = g
    BY DEF ConfigHash
  <2> QED
    BY <1>1, <2>1
<1> QED
  BY <1>1 DEF Template, PodTemplate

\* The ConfigMap stays, goes, or is sent by its step.
LEMMA ConfigMapMoves ==
  ASSUME TypeOK, [Next]_vars
  PROVE  \/ obj'.configmap \in {obj.configmap, NoObj}
         \/ /\ Within /\ pc = "configmap"
            /\ obj'.configmap = [owner |-> seen.uid, data |-> Flagfile(seen.spec)]
            /\ obj'.statefulset = obj.statefulset
<1>1. {"db", "statefulset", "configmap"} \subseteq Kinds /\ Children \subseteq Kinds
  BY DEF Kinds, Children
<1>2. CASE Within
  <2>1. CASE UNCHANGED cluster
    BY <2>1 DEF cluster
  <2>2. ASSUME NEW new, pc \in Children, Wanted(pc, new), Put(pc, new)
        PROVE  \/ obj'.configmap = obj.configmap
               \/ /\ pc = "configmap"
                  /\ obj'.configmap = [owner |-> seen.uid, data |-> Flagfile(seen.spec)]
                  /\ obj'.statefulset = obj.statefulset
    <3>1. pc \in Kinds /\ Write(pc, new)
      BY <1>1, <2>2 DEF Put
    <3>2. CASE pc = "configmap"
      <4>1. new = [owner |-> seen.uid, data |-> Flagfile(seen.spec)]
        BY <2>2, <3>2, BuiltObjects DEF Wanted
      <4>2. obj'[pc] = new /\ obj'["statefulset"] = obj["statefulset"]
        BY <1>1, <3>1, <3>2, WriteEffect
      <4> QED
        BY <3>2, <4>1, <4>2
    <3>3. CASE pc # "configmap"
      BY <1>1, <3>1, <3>3, WriteEffect
    <3> QED
      BY <3>2, <3>3
  <2> QED
    BY <1>2, <2>1, <2>2 DEF Within
<1>3. CASE Reconcile \/ PodStep \/ Delivery \/ Restart \/ UNCHANGED vars
  BY <1>3 DEF Reconcile, PodStep, Delivery, Deliver, Restart, vars, cluster
<1>4. CASE PatchStatus \/ CreateDb \/ EditDb \/ MarkDeleting \/ StsReport
  <2>1. UNCHANGED obj \/ \E k \in {"db", "statefulset"} : \E new : Write(k, new)
    BY <1>4 DEF PatchStatus, CreateDb, EditDb, MarkDeleting, StsReport, StsReportStatus, Put
  <2>2. ASSUME NEW k \in {"db", "statefulset"}, NEW new, Write(k, new)
        PROVE  obj'.configmap = obj.configmap
    BY <1>1, <2>2, WriteEffect
  <2> QED
    BY <2>1, <2>2
<1>5. CASE Removal
  <2>1. PICK k \in Kinds : Write(k, NoObj)
    BY <1>5 DEF Removal, Remove, Put
  <2> QED
    BY <1>1, <1>5, <2>1, WriteEffect
<1>6. CASE OtherWriting
  <2>1. PICK k \in {"auth", "tls", "networkpolicy"} : \E new : Put(k, new)
    BY <1>6 DEF OtherWriting
  <2>2. k \in Kinds /\ k # "configmap"
    BY DEF Kinds, Children
  <2> QED
    BY <1>1, <2>1, <2>2, WriteEffect DEF Put
<1> QED
  BY <1>2, <1>3, <1>4, <1>5, <1>6, StepCases

\* A StatefulSet's template stays, or is that of the spec its step works on.
LEMMA TemplateMoves ==
  ASSUME TypeOK, [Next]_vars, obj'.statefulset # NoObj
  PROVE  \/ obj.statefulset # NoObj /\ obj'.statefulset.template = obj.statefulset.template
         \/ /\ Within /\ pc = "statefulset"
            /\ obj'.statefulset.template = Template(seen.spec)
<1>1. obj.statefulset \in StsObj \cup {NoObj}
  BY ObjectTypes DEF TypeOK, ClusterTypeOK
<1>2. NewSts.template = Template(seen.spec)
  BY DEF NewSts
<1>3. obj.statefulset # NoObj => ChangedSts(obj.statefulset).template = Template(seen.spec)
  BY <1>1 DEF ChangedSts, StsObj
<1>4. obj.statefulset # NoObj
        => [obj.statefulset EXCEPT !.status = StsStatusNow].template = obj.statefulset.template
  BY <1>1 DEF StsObj
<1> QED
  BY <1>2, <1>3, <1>4, StsMoves

\* How a reconcile gets to one of the steps behind the ConfigMap's.
LEMMA PcMoves ==
  ASSUME TypeOK, [Next]_vars
  PROVE  \/ UNCHANGED worker
         \/ Within /\ Continue /\ pc' = NextStep[pc] /\ err' = err
         \/ Within /\ pc' = "status" /\ err' \in Reasons \cup {"error"}
         \/ pc' = "idle"
         \/ Reconcile /\ pc' = "secret"
<1>1. CASE Within
  BY <1>1 DEF Within, Continue, Return
<1>2. CASE Reconcile
  BY <1>2 DEF Reconcile, worker
<1>3. CASE PatchStatus \/ Restart
  BY <1>3 DEF PatchStatus, Restart
<1>4. CASE Removal \/ Delivery \/ StsReport \/ PodStep \/ MarkDeleting \/ OtherWriting \/ UNCHANGED vars
  BY <1>4 DEF Removal, Delivery, StsReport, PodStep, MarkDeleting, OtherWriting, vars
<1>5. CASE CreateDb \/ EditDb
  BY <1>5 DEF CreateDb, EditDb
<1> QED
  BY <1>1, <1>2, <1>3, <1>4, <1>5, StepCases

\* What ConfigInv depends on, in a step that does not change the configuration.
ConfigMoves(f) ==
  /\ ~Behind(cache'.db, f) \/ cache'.db = cache.db
  /\ \/ seen' = seen
     \/ seen' = NoObj
     \/ seen' = cache.db /\ cache'.db = cache.db
  /\ cache'.configmap \in {cache.configmap, obj'.configmap}
  /\ edits' = edits

\* Copies stay what they are or become the SereneDB of that configuration.
LEMMA ConfigFrame ==
  ASSUME TypeOK, [Next]_vars, NEW f, edits' = edits,
         obj'.db # NoObj => Flagfile(obj'.db.spec) = f
  PROVE  ConfigMoves(f)
<1>1. {"db", "configmap"} \subseteq Kinds
  BY DEF Kinds, Children
<1> QED
  BY <1>1, CacheMoves, SeenMoves DEF ConfigMoves, Behind

\* Without an edit, every step keeps to the one flagfile there is.
LEMMA OnlyFlagfileStep ==
  ASSUME TypeOK, TypeOK', [Next]_vars, NEW f, ConfigMoves(f), OnlyFlagfile(f)
  PROVE  OnlyFlagfile(f)'
<1>1. pod \in PodObj \cup {NoObj}
  BY DEF TypeOK, ClusterTypeOK, Maybe
<1>2. ~Behind(cache.db, f)' /\ ~Behind(seen, f)'
  BY DEF OnlyFlagfile, ConfigMoves, Behind
<1>3. Within => Flagfile(seen.spec) = f
  BY SeenTypes DEF OnlyFlagfile, Behind, Within
<1>4. ConfigMapIs(f)' /\ (cache.configmap # NoObj => cache.configmap.data = f)'
  <2>1. ConfigMapIs(f)'
    BY <1>3, ConfigMapMoves DEF OnlyFlagfile, ConfigMapIs
  <2> QED
    BY <2>1 DEF OnlyFlagfile, ConfigMoves, ConfigMapIs
<1>5. (obj.statefulset # NoObj => StsHashes(f))'
  BY <1>3, TemplateMoves, HashOfTemplate DEF OnlyFlagfile, StsHashes
<1>6. (pod # NoObj => PodHashes(f))' /\ (pod # NoObj /\ pod.ready => pod.flags = f)'
  <2>1. CASE Boot
    <3>1. pod' = [pod EXCEPT !.ready = TRUE, !.flags = obj.configmap.data] /\ obj.configmap # NoObj
          /\ pod # NoObj
      BY <2>1 DEF Boot, Bootable
    <3> QED
      BY <1>1, <3>1 DEF OnlyFlagfile, PodHashes, ConfigMapIs, PodObj
  <2>2. CASE pod # NoObj /\ pod' = [pod EXCEPT !.owner = "gone"]
    BY <1>1, <2>2 DEF OnlyFlagfile, PodHashes, PodObj
  <2>3. CASE pod # NoObj /\ pod' = [pod EXCEPT !.ready = FALSE]
    BY <1>1, <2>3 DEF OnlyFlagfile, PodHashes, PodObj
  <2>4. CASE /\ obj.statefulset # NoObj
             /\ pod' = [rev |-> obj.statefulset.template, owner |-> "sts", ready |-> FALSE,
                        claim |-> obj.statefulset.claim, flags |-> NoObj]
    BY <2>4 DEF OnlyFlagfile, PodHashes, StsHashes
  <2> QED
    BY <2>1, <2>2, <2>3, <2>4, PodMoves DEF OnlyFlagfile, PodHashes
<1> QED
  BY <1>2, <1>4, <1>5, <1>6 DEF OnlyFlagfile

\* A pod's template stays, or is the StatefulSet's.
LEMMA PodTemplateMoves ==
  ASSUME TypeOK, [Next]_vars, pod' # NoObj
  PROVE  \/ pod # NoObj /\ pod'.rev = pod.rev
         \/ obj.statefulset # NoObj /\ UNCHANGED obj /\ pod'.rev = obj.statefulset.template
<1>1. pod \in PodObj \cup {NoObj}
  BY DEF TypeOK, ClusterTypeOK, Maybe
<1>2. CASE Boot
  BY <1>1, <1>2 DEF Boot, Bootable, PodObj
<1> QED
  BY <1>1, <1>2, PodMoves DEF PodObj

\* Who is behind writes nothing of the present configuration.
LEMMA BehindStep ==
  ASSUME TypeOK, TypeOK', [Next]_vars, NEW f, ConfigMoves(f), BehindInv(f)
  PROVE  BehindInv(f)'
<1>1. (seen # NoObj /\ Behind(cache.db, f) => Behind(seen, f))'
  BY DEF BehindInv, ConfigMoves, Behind
<1>2. ASSUME (Behind(cache.db, f) \/ Behind(seen, f))'
      PROVE  (/\ ~Holds(obj.configmap, f) /\ ~Holds(cache.configmap, f)
              /\ ~StsHashes(f) /\ ~PodHashes(f))'
  <2>1. Behind(cache.db, f) \/ Behind(seen, f)
    BY <1>2 DEF ConfigMoves, Behind
  <2>2. /\ ~Holds(obj.configmap, f) /\ ~Holds(cache.configmap, f)
        /\ ~StsHashes(f) /\ ~PodHashes(f)
    BY <2>1 DEF BehindInv
  <2>3. Within => Flagfile(seen.spec) # f
    BY <2>1, SeenTypes DEF BehindInv, Behind, Within
  <2>4. ~Holds(obj.configmap, f)'
    BY <2>2, <2>3, ConfigMapMoves DEF Holds
  <2>5. ~Holds(cache.configmap, f)'
    BY <2>2, <2>4 DEF Holds, ConfigMoves
  <2>6. ~StsHashes(f)'
    BY <2>2, <2>3, TemplateMoves, HashOfTemplate DEF StsHashes
  <2>7. ~PodHashes(f)'
    BY <2>2, PodTemplateMoves DEF PodHashes, StsHashes
  <2> QED
    BY <2>4, <2>5, <2>6, <2>7
<1> QED
  BY <1>1, <1>2 DEF BehindInv

\* The ConfigMap stays written while something has its hash.
LEMMA WrittenFirstStep ==
  ASSUME TypeOK, TypeOK', [Next]_vars, NEW f, ConfigMoves(f), BehindInv(f), WrittenFirst(f)
  PROVE  WrittenFirst(f)'
<1> SUFFICES ASSUME obj'.configmap # NoObj,
                    (\/ StsHashes(f) \/ PodHashes(f) \/ Holds(cache.configmap, f)
                     \/ pc \in {"service", "headless", "statefulset"} /\ ~Behind(seen, f))'
             PROVE  obj'.configmap.data = f
  BY DEF WrittenFirst, ConfigMapIs
<1>1. CASE Within /\ pc = "configmap"
           /\ obj'.configmap = [owner |-> seen.uid, data |-> Flagfile(seen.spec)]
           /\ obj'.statefulset = obj.statefulset
  <2>1. seen' = seen /\ pod' = pod /\ seen # NoObj
    BY <1>1, SeenTypes DEF Within
  <2>2. obj'.configmap.data = Flagfile(seen.spec)
    BY <1>1
  <2>3. CASE Behind(seen, f)
    <3>1. /\ ~Holds(cache.configmap, f)
          /\ ~StsHashes(f) /\ ~PodHashes(f)
      BY <2>3 DEF BehindInv
    <3>2. ~StsHashes(f)' /\ ~PodHashes(f)' /\ Behind(seen, f)'
      BY <1>1, <2>1, <2>3, <3>1 DEF StsHashes, PodHashes, Behind
    <3>3. ~Holds(cache.configmap, f)'
      BY <2>2, <2>3, <3>1 DEF Holds, ConfigMoves, Behind
    <3> QED
      BY <3>2, <3>3
  <2>4. CASE ~Behind(seen, f)
    BY <2>1, <2>2, <2>4 DEF Behind
  <2> QED
    BY <2>3, <2>4
<1>2. CASE obj'.configmap = obj.configmap
  <2> SUFFICES \/ StsHashes(f) \/ PodHashes(f) \/ Holds(cache.configmap, f)
               \/ pc \in {"service", "headless", "statefulset"} /\ ~Behind(seen, f)
               \/ Holds(obj.configmap, f)
    BY <1>2 DEF WrittenFirst, ConfigMapIs, Holds
  <2>1. CASE StsHashes(f)'
    <3>1. obj'.statefulset # NoObj /\ obj'.statefulset.template.hash = ConfigHash(f)
      BY <2>1 DEF StsHashes
    <3>2. CASE obj.statefulset # NoObj /\ obj'.statefulset.template = obj.statefulset.template
      BY <3>1, <3>2 DEF StsHashes
    <3>3. CASE Within /\ pc = "statefulset" /\ obj'.statefulset.template = Template(seen.spec)
      BY <3>1, <3>3, HashOfTemplate DEF Behind
    <3> QED
      BY <3>1, <3>2, <3>3, TemplateMoves
  <2>2. CASE PodHashes(f)'
    BY <2>2, PodTemplateMoves DEF PodHashes, StsHashes
  <2>3. CASE Holds(cache.configmap, f)'
    BY <1>2, <2>3 DEF Holds, ConfigMoves
  <2>4. CASE (pc \in {"service", "headless", "statefulset"} /\ ~Behind(seen, f))'
    <3>1. CASE UNCHANGED worker
      BY <2>4, <3>1 DEF Behind, worker
    <3>2. CASE Within /\ Continue /\ pc' = NextStep[pc]
      <4>1. seen' = seen /\ ~Behind(seen, f) /\ seen # NoObj
        BY <2>4, <3>2, SeenTypes DEF Within, Behind
      <4>2. pc \in {"configmap", "service", "headless"}
        BY <2>4, <3>2 DEF Within, Steps, NextStep
      <4>3. CASE pc = "configmap"
        <5>1. CASE Found(pc)
          <6>1. cache.configmap = [owner |-> seen.uid, data |-> Flagfile(seen.spec)]
            BY <4>3, <5>1, BuiltObjects DEF Found
          <6>2. [owner |-> seen.uid, data |-> Flagfile(seen.spec)] # NoObj
            BY <3>2, SeenTypes, ClusterAssumption DEF Within
          <6> QED
            BY <4>1, <6>1, <6>2 DEF Holds, Behind
        <5>2. ASSUME NEW new, Wanted(pc, new), Put(pc, new)
              PROVE  Holds(obj.configmap, f)
          <6>1. new = [owner |-> seen.uid, data |-> Flagfile(seen.spec)]
            BY <4>3, <5>2, BuiltObjects DEF Wanted
          <6>2. obj'["configmap"] = new
            BY <4>3, <5>2, WriteEffect DEF Put, Kinds, Children
          <6> QED
            BY <1>2, <4>1, <6>1, <6>2 DEF Holds, Behind
        <5>3. Found(pc) \/ \E new : Wanted(pc, new) /\ Put(pc, new)
          <6>1. ~(\E e \in Reasons \cup {"error"} : Return(e))
            BY <2>4 DEF Return
          <6> QED
            BY <3>2, <6>1 DEF Within
        <5> QED
          BY <5>1, <5>2, <5>3
      <4> QED
        BY <4>1, <4>2, <4>3
    <3> QED
      BY <2>4, <3>1, <3>2, PcMoves
  <2> QED
    BY <2>1, <2>2, <2>3, <2>4
<1> QED
  BY <1>1, <1>2, ConfigMapMoves

\* A pod that boots with the hash of the present configuration reads it.
LEMMA RunsHashedStep ==
  ASSUME TypeOK, TypeOK', [Next]_vars, NEW f, WrittenFirst(f), RunsHashed(f)
  PROVE  RunsHashed(f)'
<1>1. pod \in PodObj \cup {NoObj}
  BY DEF TypeOK, ClusterTypeOK, Maybe
<1>2. CASE Boot
  <2>1. pod' = [pod EXCEPT !.ready = TRUE, !.flags = obj.configmap.data] /\ obj.configmap # NoObj
        /\ pod # NoObj
    BY <1>2 DEF Boot, Bootable
  <2> QED
    BY <1>1, <2>1 DEF RunsHashed, WrittenFirst, ConfigMapIs, PodHashes, PodObj
<1>3. CASE pod # NoObj /\ pod' = [pod EXCEPT !.owner = "gone"]
  BY <1>1, <1>3 DEF RunsHashed, PodHashes, PodObj
<1>4. CASE pod # NoObj /\ pod' = [pod EXCEPT !.ready = FALSE]
  BY <1>1, <1>4 DEF RunsHashed, PodObj
<1> QED
  BY <1>2, <1>3, <1>4, PodMoves DEF RunsHashed, PodHashes

\* A step that leaves the flagfile of the spec alone.
LEMMA SameConfigStep ==
  ASSUME TypeOK, TypeOK', [Next]_vars, ConfigInv, edits' = edits,
         obj.db # NoObj, obj'.db # NoObj, obj'.db.spec = obj.db.spec
  PROVE  ConfigInv'
<1>1. PICK f : f = Flagfile(obj.db.spec)
  OBVIOUS
<1>2. ConfigFor(f) /\ Flagfile(obj'.db.spec) = f
  BY <1>1 DEF ConfigInv
<1>3. ConfigMoves(f)
  BY <1>2, ConfigFrame
<1>4. edits = 0 => OnlyFlagfile(f)'
  BY <1>2, <1>3, OnlyFlagfileStep DEF ConfigFor
<1>5. BehindInv(f)' /\ WrittenFirst(f)' /\ RunsHashed(f)'
  BY <1>2, <1>3, BehindStep, WrittenFirstStep, RunsHashedStep DEF ConfigFor
<1>6. ConfigFor(f)'
  BY <1>4, <1>5 DEF ConfigFor
<1> QED
  BY <1>2, <1>6 DEF ConfigInv

\* Where there is only the flagfile f, an edit leaves everybody behind or nobody.
LEMMA FirstEdit ==
  ASSUME TypeOK, NEW f, NEW g, OnlyFlagfile(f), UNCHANGED <<worker, pod>>,
         obj'.configmap = obj.configmap, cache'.configmap = cache.configmap,
         obj'.statefulset = obj.statefulset, edits' # 0,
         ~Behind(cache'.db, g) \/ cache'.db = cache.db
  PROVE  ConfigFor(g)'
<1>1. seen' = seen /\ pc' = pc
  BY DEF worker
<1>2. CASE f = g
  <2>1. (~Behind(cache.db, g) /\ ~Behind(seen, g) /\ ConfigMapIs(g))'
    BY <1>1, <1>2 DEF OnlyFlagfile, Behind, ConfigMapIs
  <2>2. RunsHashed(g)'
    BY <1>2 DEF OnlyFlagfile, RunsHashed, PodHashes
  <2> QED
    BY <2>1, <2>2 DEF ConfigFor, BehindInv, WrittenFirst
<1>3. CASE f # g
  <2>1. ConfigHash(f) # ConfigHash(g)
    BY <1>3, HashOfTemplate
  <2>2. (/\ ~Holds(obj.configmap, g) /\ ~Holds(cache.configmap, g)
         /\ ~StsHashes(g) /\ ~PodHashes(g))'
    BY <1>3, <2>1 DEF OnlyFlagfile, ConfigMapIs, Holds, StsHashes, PodHashes
  <2>3. seen # NoObj => Behind(seen, g)'
    BY <1>1, <1>3 DEF OnlyFlagfile, Behind
  <2>4. BehindInv(g)'
    BY <1>1, <2>2, <2>3 DEF BehindInv
  <2>5. RunsHashed(g)'
    BY <2>2 DEF RunsHashed
  <2>6. pc \in {"service", "headless", "statefulset"} => seen # NoObj
    BY DEF TypeOK
  <2> QED
    BY <1>1, <2>2, <2>3, <2>4, <2>5, <2>6 DEF ConfigFor, WrittenFirst
<1> QED
  BY <1>2, <1>3

\* The configuration stays consistent through every step, as long as it is edited
\* once.
LEMMA ConfigStep ==
  ASSUME MaxUid <= 1, MaxEdits <= 1, TypeOK, TypeOK', [Next]_vars, FirstInv, ConfigInv
  PROVE  ConfigInv'
<1>1. obj.db \in DbObj \cup {NoObj} /\ {"db", "configmap", "statefulset"} \subseteq Kinds
  BY ObjectTypes DEF TypeOK, ClusterTypeOK, Kinds, Children
<1> SUFFICES ASSUME obj'.db # NoObj PROVE ConfigInv'
  BY DEF ConfigInv
<1>2. CASE obj'.db = obj.db /\ UNCHANGED <<uids, edits>>
  BY <1>2, SameConfigStep
<1>3. CASE MarkDeleting
  <2>1. obj'.db = [obj.db EXCEPT !.deleting = TRUE] /\ obj.db # NoObj /\ edits' = edits
    BY <1>1, <1>3, WriteEffect DEF MarkDeleting, Put
  <2>2. obj'.db.spec = obj.db.spec
    BY <1>1, <2>1 DEF DbObj
  <2> QED
    BY <2>1, <2>2, SameConfigStep
<1>4. CASE /\ PatchStatus /\ obj.db # NoObj /\ UNCHANGED <<uids, edits>>
           /\ obj'.db = Patched(obj.db, describe(seen, err, got))
  <2>1. obj'.db.spec = obj.db.spec
    BY <1>4, PatchEffect DEF PatchStatus
  <2> QED
    BY <1>4, <2>1, SameConfigStep
<1>5. CASE CreateDb
  <2>1. NothingYet
    <3>1. uids \in Nat /\ MaxUid \in Nat /\ uids < MaxUid
      BY <1>5, BoundsAssumption DEF CreateDb, TypeOK
    <3>2. uids = 0
      BY <3>1
    <3> QED
      BY <3>2 DEF FirstInv
  <2>2. PICK new : Write("db", new)
    BY <1>5 DEF CreateDb, Put
  <2>3. /\ seen' = NoObj /\ pod' = NoObj /\ pc' = "idle"
        /\ cache'.db \in {NoObj, obj'.db}
        /\ obj'.configmap = NoObj /\ cache'.configmap = NoObj /\ obj'.statefulset = NoObj
    <3>1. cache'.db \in {cache.db, obj'.db}
      BY <1>1, CacheMoves
    <3>2. obj'.configmap = obj.configmap /\ cache'.configmap = cache.configmap
          /\ obj'.statefulset = obj.statefulset
      BY <1>1, <2>2, WriteEffect
    <3>3. seen' = seen /\ pod' = pod /\ pc' = pc /\ pc = "idle"
      BY <1>5, <2>1 DEF CreateDb, worker, TypeOK, NothingYet
    <3> QED
      BY <2>1, <3>1, <3>2, <3>3 DEF NothingYet
  <2> QED
    BY <2>3
    DEF ConfigInv, ConfigFor, OnlyFlagfile, BehindInv, WrittenFirst, RunsHashed, Behind, Holds,
        StsHashes, PodHashes, ConfigMapIs
<1>6. CASE EditDb
  <2>1. edits = 0 /\ edits' # 0
    <3>1. edits \in Nat /\ MaxEdits \in Nat /\ edits < MaxEdits /\ edits' = edits + 1
      BY <1>6, BoundsAssumption DEF EditDb, TypeOK
    <3> QED
      BY <3>1
  <2>2. PICK f, g : f = Flagfile(obj.db.spec) /\ g = Flagfile(obj'.db.spec)
    OBVIOUS
  <2>3. OnlyFlagfile(f)
    BY <1>6, <2>1, <2>2 DEF ConfigInv, ConfigFor, EditDb
  <2>4. PICK new : Write("db", new)
    BY <1>6 DEF EditDb, Put
  <2>5. /\ obj'.configmap = obj.configmap /\ cache'.configmap = cache.configmap
        /\ obj'.statefulset = obj.statefulset
    BY <1>1, <2>4, WriteEffect
  <2>6. ~Behind(cache'.db, g) \/ cache'.db = cache.db
    BY <1>1, <2>2, CacheMoves DEF Behind
  <2>7. UNCHANGED <<worker, pod>>
    BY <1>6 DEF EditDb
  <2>8. ConfigFor(g)'
    BY <2>1, <2>3, <2>5, <2>6, <2>7, FirstEdit
  <2> QED
    BY <2>2, <2>8 DEF ConfigInv
<1> QED
  BY <1>2, <1>3, <1>4, <1>5, <1>6, DbMoves

(***************************************************************************)
(* The work queue.                                                         *)
(***************************************************************************)
\* A key stays in the queue until a reconcile takes it, and whoever changes the
\* cached SereneDB queues it, unless a restarted operator finds it gone.
LEMMA QueueMoves ==
  ASSUME TypeOK, SyncInv, [Next]_vars, ~queued', ~Restart, ~Reconcile
  PROVE  ~queued /\ cache'.db = cache.db
<1>1. {"db", "statefulset"} \subseteq Kinds /\ "db" \notin Children /\ Children \subseteq Kinds
  BY DEF Kinds, Children
<1>2. ASSUME NEW k \in Kinds, NEW new, Put(k, new)
      PROVE  ~queued /\ cache'.db = cache.db
  <2>1. ~queued /\ ~Event(k, new) /\ Write(k, new)
    BY <1>2 DEF Put
  <2>2. CASE k # "db"
    BY <1>1, <2>1, <2>2, WriteEffect
  <2>3. CASE k = "db" /\ "db" \in Lagging
    BY <1>1, <2>1, <2>3, WriteEffect
  <2>4. CASE k = "db" /\ "db" \notin Lagging
    <3>1. new = obj["db"] /\ cache["db"] = obj["db"]
      BY <1>1, <2>1, <2>4 DEF Event, Watched, SyncInv
    <3> QED
      BY <1>1, <2>1, <2>4, <3>1, WriteEffect
  <2> QED
    BY <2>1, <2>2, <2>3, <2>4
<1>3. CASE Within
  BY <1>1, <1>2, <1>3 DEF Within, cluster
<1>4. CASE PatchStatus
  <2> DEFINE new == Patched(obj.db, describe(seen, err, got))
  <2>1. Write("db", new) /\ queued' = (queued \/ Event("db", new) \/ Requeue(err))
    BY <1>4 DEF PatchStatus
  <2> HIDE DEF new
  <2>2. Put("db", new)
    BY <2>1 DEF Put
  <2> QED
    BY <1>1, <1>2, <2>2
<1>5. CASE Removal
  BY <1>2, <1>5 DEF Removal, Remove
<1>6. CASE Delivery
  <2>1. PICK k \in Kinds : Deliver(k)
    BY <1>6 DEF Delivery
  <2>2. k # "db" /\ ~queued
    BY <2>1 DEF Deliver, Watched
  <2>3. cache = [j \in Kinds |-> cache[j]]
    BY DEF TypeOK, ClusterTypeOK, Typed
  <2> QED
    BY <1>1, <2>1, <2>2, <2>3 DEF Deliver
<1>7. CASE StsReport
  BY <1>1, <1>2, <1>7 DEF StsReport, StsReportStatus
<1>8. CASE PodStep \/ UNCHANGED vars
  BY <1>8 DEF PodStep, vars, cluster
<1>9. CASE CreateDb \/ EditDb \/ MarkDeleting
  BY <1>1, <1>2, <1>9 DEF CreateDb, EditDb, MarkDeleting
<1>10. CASE OtherWriting
  <2>1. PICK k \in {"auth", "tls", "networkpolicy"} : \E new : Put(k, new)
    BY <1>10 DEF OtherWriting
  <2>2. k \in Kinds
    BY DEF Kinds, Children
  <2> QED
    BY <1>2, <2>1, <2>2
<1> QED
  BY <1>3, <1>4, <1>5, <1>6, <1>7, <1>8, <1>9, <1>10, StepCases

\* An operator with nothing queued works on, or has rolled out, what its cache
\* holds.
LEMMA QueueStep ==
  ASSUME TypeOK, TypeOK', SyncInv, [Next]_vars, QueueInv
  PROVE  QueueInv'
<1>1. {"db", "statefulset"} \subseteq Kinds /\ Children \subseteq Kinds
  BY DEF Kinds, Children
<1> SUFFICES ASSUME ~queued' PROVE QueueInv'
  BY DEF QueueInv
<1>2. CASE Restart
  <2>1. cache' = obj /\ pc' = "idle"
    BY <1>2 DEF Restart
  <2>2. obj.db = NoObj
    BY <1>1, <1>2 DEF Restart, Watched
  <2> QED
    BY <2>1, <2>2 DEF QueueInv
<1>3. CASE Reconcile
  BY <1>3 DEF Reconcile, NothingToDo, QueueInv
<1>4. CASE ~Restart /\ ~Reconcile
  <2>1. ~queued /\ cache'.db = cache.db
    BY <1>4, QueueMoves
  <2>2. CASE UNCHANGED worker
    <3>1. ~Within
      BY <2>2, SeenTypes DEF Within, Continue, Return, NextStep, worker, Steps
    <3>2. obj'.statefulset # NoObj
            => obj.statefulset # NoObj /\ obj'.statefulset.template = obj.statefulset.template
      BY <3>1, TemplateMoves
    <3> QED
      BY <2>1, <2>2, <3>2 DEF QueueInv, worker
  <2>3. CASE PatchStatus
    <3>1. err = "none" /\ pc = "status" /\ pc' = "idle"
      BY <2>3 DEF PatchStatus, Requeue
    <3>2. obj'.statefulset = obj.statefulset
      <4>1. UNCHANGED obj \/ \E new : Write("db", new)
        BY <2>3 DEF PatchStatus
      <4> QED
        BY <1>1, <4>1, WriteEffect
    <3> QED
      BY <2>1, <3>1, <3>2 DEF QueueInv
  <2>4. CASE Within
    <3>1. seen' = seen /\ seen = cache.db /\ pc' # "idle"
      BY <2>1, <2>4, SeenTypes DEF Within, QueueInv, Steps, Continue, NextStep, Return
    <3>2. ASSUME pc' \in {"networkpolicy", "status"}, err' = "none", obj'.statefulset # NoObj,
                 cache.db # NoObj, ~cache.db.deleting
          PROVE  obj'.statefulset.template = Template(cache.db.spec)
      <4>1. Continue /\ ~(\E e \in Reasons \cup {"error"} : Return(e))
        BY <2>4, <3>2 DEF Within, Return, Reasons
      <4>2. pc \in {"statefulset", "networkpolicy"} /\ err = "none"
        BY <2>4, <3>2, <4>1 DEF Within, Continue, NextStep, Steps
      <4>3. CASE pc = "statefulset"
        <5>1. PICK new : Wanted(pc, new) /\ Put(pc, new)
          BY <2>4, <4>1, <4>3 DEF Within, Found
        <5>2. obj'["statefulset"] = new
          BY <1>1, <4>3, <5>1, WriteEffect DEF Put
        <5>3. cache.statefulset \in StsObj \cup {NoObj}
          BY ObjectTypes DEF TypeOK, ClusterTypeOK
        <5>4. new.template = Template(seen.spec)
          <6>1. NewSts.template = Template(seen.spec)
            BY DEF NewSts
          <6>2. cache.statefulset # NoObj
                  => ChangedSts(cache.statefulset).template = Template(seen.spec)
            BY <5>3 DEF ChangedSts, StsObj
          <6> QED
            BY <4>3, <5>1, <6>1, <6>2 DEF Wanted
        <5> QED
          BY <3>1, <5>2, <5>4
      <4>4. CASE pc = "networkpolicy"
        <5>1. obj.statefulset # NoObj /\ obj'.statefulset.template = obj.statefulset.template
          BY <3>2, <4>4, TemplateMoves
        <5> QED
          BY <2>1, <3>2, <4>2, <4>4, <5>1 DEF QueueInv
      <4> QED
        BY <4>2, <4>3, <4>4
    <3> QED
      BY <2>1, <3>1, <3>2 DEF QueueInv
  <2>5. Within \/ PatchStatus \/ UNCHANGED worker
    BY <1>4, StepCases
    DEF Removal, Delivery, StsReport, PodStep, MarkDeleting, OtherWriting, CreateDb, EditDb, vars
  <2> QED
    BY <2>2, <2>3, <2>4, <2>5
<1> QED
  BY <1>2, <1>3, <1>4

\* As long as one SereneDB is created under the name and its spec is edited once,
\* an operator at rest leaves no pod of the current template that runs with
\* another flagfile than the one its hash digests: through failures, restarts,
\* lost and stale objects, a change of the configuration always rolls the pod.
THEOREM ConfigurationRolls ==
  ASSUME MaxUid <= 1, MaxEdits <= 1
  PROVE  Spec => []PodRunsHashedFlagfile
<1> DEFINE I == FirstInv /\ SyncInv /\ ConfigInv /\ QueueInv
<1>1. Init => I
  <2> SUFFICES ASSUME Init PROVE I
    OBVIOUS
  <2>1. obj.db = NoObj /\ cache.db = NoObj
    BY DEF Init, ClusterInit, Kinds
  <2> QED
    BY <2>1, FirstInit DEF Init, ClusterInit, SyncInv, ConfigInv, QueueInv
<1>2. TypeOK /\ TypeOK' /\ I /\ [Next]_vars => I'
  BY FirstStep, SyncStep, ConfigStep, QueueStep
<1>3. TypeOK /\ I => PodRunsHashedFlagfile
  <2> SUFFICES ASSUME TypeOK, I, Settled, Live, obj.statefulset # NoObj, OwnPod, pod.ready,
                      pod.rev = obj.statefulset.template
               PROVE  ConfigHash(pod.flags) = pod.rev.hash
    BY DEF PodRunsHashedFlagfile
  <2>1. obj.statefulset.template = Template(obj.db.spec)
    BY DEF QueueInv, Settled, Live
  <2>2. PICK f : f = Flagfile(obj.db.spec)
    OBVIOUS
  <2>3. pod # NoObj /\ pod.rev.hash = ConfigHash(f)
    BY <2>1, <2>2, HashOfTemplate DEF OwnPod
  <2>4. RunsHashed(f)
    BY <2>2 DEF ConfigInv, ConfigFor, Live
  <2> QED
    BY <2>3, <2>4 DEF RunsHashed, PodHashes
<1>4. Spec => []TypeOK
  BY TypeCorrect
<1> QED
  BY <1>1, <1>2, <1>3, <1>4, PTL DEF Spec

(***************************************************************************)
(* The generated password goes with the volume, not before.                *)
(*                                                                         *)
(* With whenDeleted: Delete both are collected once the SereneDB is being  *)
(* deleted, the Secret possibly first.  The invariant DropInv says that    *)
(* then the volume is bound to go, too: its claim is owned by a            *)
(* StatefulSet that the SereneDB owns, or it has lost that owner already.  *)
(***************************************************************************)
\* Every spec hands its volume, which a claim template makes, to the collector.
EverythingDropped == \A s \in Specs : s.whenDeleted = "Delete" /\ s.claim = "template"

OneUid == \A db \in {obj.db, cache.db, seen} : db # NoObj => db.uid = 1

StsDrops ==
  obj.statefulset # NoObj =>
    obj.statefulset.owner = 1 /\ obj.statefulset.policy = "Delete" /\ obj.statefulset.claim = "template"

OwnVolume ==
  /\ pod # NoObj => pod.claim = "template"
  /\ vol.existing # NoObj => vol.existing.src # "secret"
  /\ vol.template # NoObj =>
       /\ vol.template.owner \in {"sts", "gone"}
       /\ vol.template.owner = "sts" => obj.statefulset # NoObj

SecretDrops ==
  /\ obj.secret # NoObj => obj.secret.owner = 1
  /\ Alive(1) /\ vol.template # NoObj /\ vol.template.src = "secret"
       => obj.secret # NoObj /\ obj.secret.pw = vol.template.pw

DropInv == FirstInv /\ OneUid /\ StsDrops /\ OwnVolume /\ SecretDrops

\* The one SereneDB and its copies have the same UID.
LEMMA OneUidStep ==
  ASSUME MaxUid <= 1, TypeOK, TypeOK', [Next]_vars, FirstInv, OneUid
  PROVE  OneUid'
<1>1. obj.db \in DbObj \cup {NoObj}
  BY ObjectTypes DEF TypeOK, ClusterTypeOK
<1>2. cache'.db \in {cache.db, obj'.db}
  BY CacheMoves DEF Kinds
<1>3. seen' \in {seen, NoObj, cache.db}
  BY SeenMoves
<1>4. obj'.db # NoObj => obj'.db.uid = 1
  <2>1. CASE CreateDb
    <3>1. uids \in Nat /\ MaxUid \in Nat /\ uids < MaxUid
      BY <2>1, BoundsAssumption DEF CreateDb, TypeOK
    <3>2. uids + 1 = 1
      BY <3>1
    <3>3. PICK s \in Specs :
            Put("db", [uid |-> uids + 1, gen |-> 1, spec |-> s, deleting |-> FALSE,
                       status |-> NoStatus])
      BY <2>1 DEF CreateDb
    <3>4. obj'.db = [uid |-> uids + 1, gen |-> 1, spec |-> s, deleting |-> FALSE,
                     status |-> NoStatus]
      BY <3>3, WriteEffect DEF Put, Kinds
    <3> QED
      BY <3>2, <3>4
  <2>2. CASE EditDb
    <3>1. PICK s \in Specs : Put("db", [obj.db EXCEPT !.spec = s, !.gen = @ + 1])
      BY <2>2 DEF EditDb
    <3>2. obj'.db = [obj.db EXCEPT !.spec = s, !.gen = @ + 1] /\ obj.db # NoObj
      BY <2>2, <3>1, WriteEffect DEF Put, Kinds, EditDb
    <3> QED
      BY <1>1, <3>2 DEF DbObj, OneUid
  <2>3. CASE MarkDeleting
    <3>1. obj'.db = [obj.db EXCEPT !.deleting = TRUE] /\ obj.db # NoObj
      BY <2>3, WriteEffect DEF MarkDeleting, Put, Kinds
    <3> QED
      BY <1>1, <3>1 DEF DbObj, OneUid
  <2>4. CASE PatchStatus /\ obj.db # NoObj /\ obj'.db = Patched(obj.db, describe(seen, err, got))
    BY <2>4, PatchEffect DEF PatchStatus, OneUid
  <2> QED
    BY <2>1, <2>2, <2>3, <2>4, DbMoves DEF OneUid
<1> QED
  BY <1>2, <1>3, <1>4 DEF OneUid

\* Every StatefulSet is of the one SereneDB and lets its claim go with it.
LEMMA StsDropsStep ==
  ASSUME EverythingDropped, TypeOK, TypeOK', [Next]_vars, OneUid, StsDrops
  PROVE  StsDrops'
<1>1. obj.statefulset \in StsObj \cup {NoObj}
  BY ObjectTypes DEF TypeOK, ClusterTypeOK
<1>2. ASSUME pc = "statefulset"
      PROVE  /\ seen.uid = 1 /\ RetentionPolicy(seen.spec) = "Delete"
             /\ seen.spec.claim = "template"
  <2>1. seen # NoObj /\ seen.spec \in Specs
    BY <1>2, SeenTypes DEF Steps
  <2> QED
    BY <2>1 DEF OneUid, EverythingDropped, RetentionPolicy
<1>3. CASE obj'.statefulset \in {obj.statefulset, NoObj}
  BY <1>3 DEF StsDrops
<1>4. CASE pc = "statefulset" /\ obj'.statefulset = NewSts
  BY <1>2, <1>4 DEF NewSts, StsDrops
<1>5. CASE pc = "statefulset" /\ obj.statefulset # NoObj
           /\ obj'.statefulset = ChangedSts(obj.statefulset)
  <2>1. /\ ChangedSts(obj.statefulset).owner = seen.uid
        /\ ChangedSts(obj.statefulset).policy = RetentionPolicy(seen.spec)
        /\ ChangedSts(obj.statefulset).claim = obj.statefulset.claim
    BY <1>1, <1>5 DEF ChangedSts, StsObj
  <2> QED
    BY <1>2, <1>5, <2>1 DEF StsDrops
<1>6. CASE /\ obj.statefulset # NoObj
           /\ obj'.statefulset = [obj.statefulset EXCEPT !.status = StsStatusNow]
  BY <1>1, <1>6 DEF StsDrops, StsObj
<1> QED
  BY <1>3, <1>4, <1>5, <1>6, StsMoves

\* A StatefulSet goes by removal only, which leaves the claim without its owner.
LEMMA StsGoes ==
  ASSUME TypeOK, TypeOK', [Next]_vars, obj.statefulset # NoObj, obj'.statefulset = NoObj
  PROVE  Orphan /\ UNCHANGED served /\ obj'.db = obj.db /\ obj'.secret = obj.secret
<1>1. {"db", "statefulset", "configmap", "secret"} \subseteq Kinds /\ Children \subseteq Kinds
  BY DEF Kinds, Children
<1>2. obj.statefulset \in StsObj
  BY ObjectTypes DEF TypeOK, ClusterTypeOK
<1>3. CASE Removal
  <2>1. PICK k \in Kinds : Remove(k)
    BY <1>3 DEF Removal
  <2>2. k = "statefulset"
    BY <1>1, <2>1, WriteEffect DEF Remove, Put
  <2> QED
    BY <1>1, <2>1, <2>2, WriteEffect DEF Remove, Put
<1>4. CASE Within
  <2>1. PICK new : pc \in Children /\ Wanted(pc, new) /\ Put(pc, new)
    BY <1>4 DEF Within, cluster
  <2>2. pc = "statefulset" /\ new = NoObj
    BY <1>1, <2>1, WriteEffect DEF Put
  <2>3. new = ChangedSts(cache.statefulset) /\ cache.statefulset = obj.statefulset
    BY <2>1, <2>2 DEF Wanted
  <2>4. new \in StsObj
    BY <1>2, <2>2, <2>3, StsBuilt DEF Steps
  <2> QED
    BY <2>2, <2>4, ClusterAssumption
<1>5. CASE StsReport
  <2>1. obj'.statefulset = [obj.statefulset EXCEPT !.status = StsStatusNow]
    BY <1>1, <1>5, WriteEffect DEF StsReport, StsReportStatus, Put
  <2>2. obj.statefulset.gen \in Nat /\ obj.statefulset.template \in Templates
        /\ obj.statefulset.status.current \in Maybe(Templates)
    BY <1>2 DEF StsObj, StsStatus
  <2>3. StsStatusNow \in StsStatus
    BY <2>2 DEF StsStatusNow, StsStatus, Maybe
  <2>4. obj'.statefulset \in StsObj
    BY <1>2, <2>1, <2>3 DEF StsObj
  <2> QED
    BY <2>4, ClusterAssumption
<1>6. CASE Reconcile \/ PodStep \/ Delivery \/ Restart \/ UNCHANGED vars
  BY <1>6 DEF Reconcile, PodStep, Delivery, Deliver, Restart, vars, cluster
<1>7. CASE PatchStatus \/ CreateDb \/ EditDb \/ MarkDeleting
  <2>1. UNCHANGED obj \/ \E new : Write("db", new)
    BY <1>7 DEF PatchStatus, CreateDb, EditDb, MarkDeleting, Put
  <2> QED
    BY <1>1, <2>1, WriteEffect
<1>8. CASE OtherWriting
  <2>1. PICK k \in {"auth", "tls", "networkpolicy"} : \E new : Put(k, new)
    BY <1>8 DEF OtherWriting
  <2>2. k \in Kinds /\ k # "statefulset"
    BY DEF Kinds, Children
  <2> QED
    BY <1>1, <2>1, <2>2, WriteEffect DEF Put
<1> QED
  BY <1>3, <1>4, <1>5, <1>6, <1>7, <1>8, StepCases

\* A volume made from a claim template belongs to the StatefulSet, until that goes.
LEMMA OwnVolumeStep ==
  ASSUME TypeOK, TypeOK', [Next]_vars, StsDrops, OwnVolume
  PROVE  OwnVolume'
<1>1. /\ pod \in PodObj \cup {NoObj} /\ vol.template \in VolObj \cup {NoObj}
      /\ vol.existing \in VolObj \cup {NoObj}
      /\ vol \in [template : Maybe(VolObj), existing : Maybe(VolObj)]
  BY DEF TypeOK, ClusterTypeOK, Maybe
<1>2. (pod # NoObj => pod.claim = "template")'
  <2>1. CASE Boot
    BY <1>1, <2>1 DEF Boot, Bootable, OwnVolume, PodObj
  <2>2. CASE pod # NoObj /\ pod' = [pod EXCEPT !.owner = "gone"]
    BY <1>1, <2>2 DEF OwnVolume, PodObj
  <2>3. CASE pod # NoObj /\ pod' = [pod EXCEPT !.ready = FALSE]
    BY <1>1, <2>3 DEF OwnVolume, PodObj
  <2> QED
    BY <2>1, <2>2, <2>3, PodMoves DEF OwnVolume, StsDrops
<1> SUFFICES (/\ vol.existing # NoObj => vol.existing.src # "secret"
              /\ vol.template # NoObj =>
                   /\ vol.template.owner \in {"sts", "gone"}
                   /\ vol.template.owner = "sts" => obj.statefulset # NoObj)'
  BY <1>2 DEF OwnVolume
<1>3. CASE Orphan
  <2>1. vol'.existing = vol.existing
    BY <1>1, <1>3 DEF Orphan
  <2>2. CASE vol.template # NoObj /\ vol.template.owner = "sts"
    <3>1. vol'.template = [vol.template EXCEPT !.owner = "gone"]
      BY <1>1, <1>3, <2>2 DEF Orphan
    <3>2. vol'.template.owner = "gone"
      BY <1>1, <2>2, <3>1 DEF VolObj
    <3> QED
      BY <2>1, <3>2 DEF OwnVolume
  <2>3. CASE ~(vol.template # NoObj /\ vol.template.owner = "sts")
    <3>1. vol'.template = vol.template
      BY <1>1, <1>3, <2>3 DEF Orphan
    <3> QED
      BY <2>1, <2>3, <3>1 DEF OwnVolume
  <2> QED
    BY <2>2, <2>3
<1>4. CASE UNCHANGED vol
  BY <1>3, <1>4, StsGoes DEF OwnVolume
<1>5. CASE CollectVolume
  BY <1>1, <1>5 DEF CollectVolume, OwnVolume
<1>6. CASE StsCreatePod
  <2>1. ClaimOwner = "sts" /\ UNCHANGED obj /\ obj.statefulset # NoObj
    BY <1>6 DEF StsCreatePod, ClaimOwner, StsDrops
  <2>2. [Blank EXCEPT !.owner = ClaimOwner].owner = "sts"
    BY <2>1 DEF Blank
  <2> QED
    BY <1>1, <1>6, <2>1, <2>2 DEF StsCreatePod, OwnVolume
<1>7. CASE StsSyncClaim
  <2>1. ClaimOwner = "sts"
    BY <1>7 DEF StsSyncClaim, ClaimOwner, StsDrops
  <2> QED
    BY <1>7, <2>1 DEF StsSyncClaim, OwnVolume
<1>8. CASE Boot
  <2>1. pod.claim = "template" /\ vol.template \in VolObj /\ vol.template # NoObj /\ UNCHANGED obj
    BY <1>1, <1>8 DEF Boot, Bootable, OwnVolume
  <2>2. vol'.existing = vol.existing
    BY <1>1, <1>8, <2>1 DEF Boot
  <2>3. vol'.template.owner = vol.template.owner
    BY <1>1, <1>8, <2>1 DEF Boot, VolObj
  <2> QED
    BY <2>1, <2>2, <2>3 DEF OwnVolume
<1> QED
  BY <1>3, <1>4, <1>5, <1>6, <1>7, <1>8, VolumeSteps

\* A SereneDB that lives after a step and was not created by it lived before.
LEMMA LivedBefore ==
  ASSUME TypeOK, [Next]_vars, ~CreateDb, Alive(1)'
  PROVE  Alive(1)
<1>1. obj.db \in DbObj \cup {NoObj} /\ "db" \in Kinds
  BY ObjectTypes DEF TypeOK, ClusterTypeOK, Kinds
<1>2. CASE obj'.db \in {obj.db, NoObj}
  BY <1>2 DEF Alive
<1>3. CASE EditDb
  <2>1. PICK s \in Specs : Put("db", [obj.db EXCEPT !.spec = s, !.gen = @ + 1])
    BY <1>3 DEF EditDb
  <2>2. obj'.db = [obj.db EXCEPT !.spec = s, !.gen = @ + 1] /\ obj.db # NoObj
    BY <1>1, <1>3, <2>1, WriteEffect DEF Put, EditDb
  <2> QED
    BY <1>1, <2>2 DEF Alive, DbObj
<1>4. CASE MarkDeleting
  <2>1. obj'.db = [obj.db EXCEPT !.deleting = TRUE] /\ obj.db # NoObj
    BY <1>1, <1>4, WriteEffect DEF MarkDeleting, Put
  <2> QED
    BY <1>1, <2>1 DEF Alive, DbObj
<1>5. CASE PatchStatus /\ obj.db # NoObj /\ obj'.db = Patched(obj.db, describe(seen, err, got))
  BY <1>1, <1>5 DEF Patched, Alive, DbObj
<1> QED
  BY <1>2, <1>3, <1>4, <1>5, DbMoves

\* While the SereneDB lives, its volume finds its password.
LEMMA SecretDropsStep ==
  ASSUME EverythingDropped, MaxUid <= 1, TypeOK, TypeOK', [Next]_vars, FirstInv, OneUid, SecretDrops
  PROVE  SecretDrops'
<1>1. obj.secret \in SecretObj \cup {NoObj}
  BY ObjectTypes DEF TypeOK, ClusterTypeOK
<1>2. ASSUME pc = "secret", seen.spec.auth = "generated"
      PROVE  SecretOwner = 1
  <2>1. seen # NoObj /\ seen.spec \in Specs
    BY <1>2, SeenTypes DEF Steps
  <2> QED
    BY <1>2, <2>1 DEF OneUid, EverythingDropped, SecretOwner, SecretOwnedByDatabase
<1>3. (obj.secret # NoObj => obj.secret.owner = 1)'
  <2>1. CASE /\ pc = "secret" /\ seen.spec.auth = "generated"
             /\ \E p \in Passwords :
                  obj'.secret = [owner |-> SecretOwner, pw |-> p, key |-> seen.spec.key]
    BY <1>2, <2>1
  <2>2. CASE /\ pc = "secret" /\ seen.spec.auth = "generated" /\ obj.secret # NoObj
             /\ obj'.secret = [obj.secret EXCEPT !.owner = SecretOwner]
    BY <1>1, <1>2, <2>2 DEF SecretObj
  <2> QED
    BY <2>1, <2>2, SecretMoves DEF SecretDrops
<1> SUFFICES ASSUME Alive(1)', vol'.template # NoObj, vol'.template.src = "secret"
             PROVE  obj'.secret # NoObj /\ obj'.secret.pw = vol'.template.pw
  BY <1>3 DEF SecretDrops
<1>4. ~CreateDb
  <2> SUFFICES ASSUME CreateDb PROVE FALSE
    OBVIOUS
  <2>1. uids \in Nat /\ MaxUid \in Nat /\ uids < MaxUid
    BY BoundsAssumption DEF CreateDb, TypeOK
  <2>2. uids = 0
    BY <2>1
  <2>3. vol'.template = NoObj
    BY <2>2 DEF CreateDb, FirstInv, NothingYet
  <2> QED
    BY <2>3
<1>5. Alive(1)
  BY <1>4, LivedBefore
<1>6. VolumeKept("template")
  BY VolumesKept
<1>7. CASE obj'.secret = obj.secret
  BY <1>5, <1>6, <1>7 DEF VolumeKept, SecretDrops
<1>8. ~Collectable("secret")
  BY <1>5 DEF Collectable, Controlled, SecretDrops
<1>9. CASE UNCHANGED vol /\ obj.secret = NoObj
  BY <1>5, <1>9 DEF SecretDrops
<1>10. CASE /\ UNCHANGED vol /\ obj.secret # NoObj
            /\ pc = "secret" /\ seen.spec.auth = "generated"
            /\ obj'.secret = [obj.secret EXCEPT !.owner = SecretOwner]
  <2>1. obj'.secret \in SecretObj \cup {NoObj} /\ obj.secret \in SecretObj
    BY <1>1, <1>10, ObjectTypes DEF TypeOK, ClusterTypeOK
  <2>2. obj'.secret.pw = obj.secret.pw
    BY <1>10, <2>1 DEF SecretObj
  <2>3. obj'.secret # NoObj
    <3>1. obj'.secret \in SecretObj
      <4>1. SecretOwner \in Owners
        BY <1>2, <1>10 DEF Owners
      <4> QED
        BY <1>10, <2>1, <4>1 DEF SecretObj
    <3> QED
      BY <3>1, ClusterAssumption
  <2> QED
    BY <1>5, <1>10, <2>2, <2>3 DEF SecretDrops
<1> QED
  BY <1>7, <1>8, <1>9, <1>10, SecretMoves

\* Every step preserves the whole invariant.
LEMMA NextDrop ==
  ASSUME EverythingDropped, MaxUid <= 1
  PROVE  TypeOK /\ DropInv /\ [Next]_vars => (TypeOK /\ DropInv)'
<1> SUFFICES ASSUME TypeOK, DropInv, [Next]_vars PROVE (TypeOK /\ DropInv)'
  OBVIOUS
<1>1. TypeOK'
  BY NextType
<1>2. FirstInv'
  BY FirstStep DEF DropInv
<1>3. OneUid'
  BY <1>1, OneUidStep DEF DropInv
<1>4. StsDrops'
  BY <1>1, StsDropsStep DEF DropInv
<1>5. OwnVolume'
  BY <1>1, OwnVolumeStep DEF DropInv
<1>6. SecretDrops'
  BY <1>1, SecretDropsStep DEF DropInv
<1> QED
  BY <1>1, <1>2, <1>3, <1>4, <1>5, <1>6 DEF DropInv

\* The invariant holds initially: there is no SereneDB and no volume of it.
LEMMA InitDrop == Init => DropInv
<1> SUFFICES ASSUME Init PROVE DropInv
  OBVIOUS
<1>1. FirstInv /\ uids = 0
  BY FirstInit DEF Init
<1>2. NothingYet
  BY <1>1 DEF FirstInv
<1>3. vol.existing.src # "secret"
  BY DEF Init, ClusterInit, Blank
<1> QED
  BY <1>1, <1>2, <1>3 DEF DropInv, NothingYet, OneUid, StsDrops, OwnVolume, SecretDrops

\* If every SereneDB lets its volume be deleted with it, the generated Secret goes
\* with the volume and not without it: once the garbage collector has nothing left
\* to do, a volume that is still there has the Secret its password came from.
\* That is so for any Secrets, edits, stale caches, failed calls, restarts and
\* losses of other objects, in the life of one SereneDB of the name.
THEOREM PasswordGoesWithVolume ==
  ASSUME EverythingDropped, MaxUid <= 1
  PROVE  Spec => []PasswordOutlivesVolume
<1>1. Init => TypeOK /\ DropInv
  BY InitType, InitDrop
<1>2. TypeOK /\ DropInv /\ [Next]_vars => (TypeOK /\ DropInv)'
  BY NextDrop
<1>3. TypeOK /\ DropInv => PasswordOutlivesVolume
  <2> SUFFICES ASSUME TypeOK, DropInv, Collected PROVE NoLockout
    BY DEF PasswordOutlivesVolume
  <2>1. DOMAIN vol = {"template", "existing"}
    BY DEF TypeOK, ClusterTypeOK
  <2> SUFFICES ASSUME vol.template # NoObj, vol.template.src = "secret"
               PROVE  obj.secret # NoObj /\ obj.secret.pw = vol.template.pw
    BY <2>1 DEF NoLockout, DropInv, OwnVolume
  <2>2. obj.statefulset # NoObj
    BY DEF Collected, DropInv, OwnVolume
  <2>3. ~Collectable("statefulset")
    BY DEF Collected, Children
  <2>4. Alive(1)
    BY <2>2, <2>3 DEF Collectable, Controlled, DropInv, StsDrops
  <2> QED
    BY <2>4 DEF DropInv, SecretDrops
<1> QED
  BY <1>1, <1>2, <1>3, PTL DEF Spec
=============================================================================
