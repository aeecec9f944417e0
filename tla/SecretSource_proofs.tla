-------------------------- MODULE SecretSource_proofs --------------------------
(***************************************************************************)
(* Lemmas about what DatabaseRole and ServerSecret add to a dependent.     *)
(***************************************************************************)
EXTENDS SecretSource, Dependent_proofs

\* A status with a version is one the shared code can work with.
LEMMA VersionedStatusSet ==
  /\ StatusSet(VersionedStatus)
  /\ NewStatus \in VersionedStatus
<1>1. ASSUME NEW s \in VersionedStatus, NEW c \in Condition
      PROVE  [s EXCEPT !.ready = c] \in VersionedStatus
  BY DEF VersionedStatus
<1>2. ASSUME NEW n \in VersionedStatus, NEW s \in VersionedStatus, NEW o \in VersionedStatus
      PROVE  [f \in DOMAIN n |-> IF n[f] # s[f] THEN n[f] ELSE o[f]] \in VersionedStatus
  BY DEF VersionedStatus
<1>3. NewStatus \in VersionedStatus
  BY DEF VersionedStatus, NewStatus, Condition
<1> QED
  BY <1>1, <1>2, <1>3, NoObjAssumption DEF StatusSet

\* The version of the Secret that was read is a number.
LEMMA VersionTypes ==
  ASSUME SecretSourceTypeOK
  PROVE  Version \in Nat
BY DEF SecretSourceTypeOK, Version, Maybe, Contents

\* apply returns without an error.
LEMMA FinishAppliedTypes ==
  ASSUME SecretSourceTypeOK, WorkerOK(VersionedStatus), pc # "idle", FinishApplied
  PROVE  WorkerOK(VersionedStatus)'
<1>1. outcome("Applied") \in Condition /\ Version \in Nat
  BY OutcomeTypes, VersionTypes
<1>2. next' \in VersionedStatus
  BY <1>1 DEF FinishApplied, VersionedStatus
<1> QED
  BY <1>2 DEF FinishApplied, WorkerOK

\* Steps of the shared code.
LEMMA PlainTypes ==
  ASSUME SecretSourceTypeOK, read' = IF pc' = "idle" THEN NoObj ELSE read, UNCHANGED secrets
  PROVE  SecretSourceTypeOK'
BY DEF SecretSourceTypeOK, secrets, Maybe

\* Reading the Secret.
LEMMA readSecretTypes ==
  ASSUME DependentTypeOK(VersionedStatus), SecretSourceTypeOK,
         NEW missing \in Reasons, NEW otherwise \in Reasons, NEW usable,
         readSecret(missing, usable, otherwise)
  PROVE  /\ DependentTypeOK(VersionedStatus)' /\ SecretSourceTypeOK'
         /\ UNCHANGED rows /\ pc' \in {"connect", "status"}
<1> DEFINE S == VersionedStatus
<1>1. WorldOK(S) /\ WorkerOK(S) /\ pc # "idle" /\ seen.spec.secret \in BOOLEAN /\ StatusSet(S)
  BY Halves, SeenTypes, SecretSourceAssumption, VersionedStatusSet DEF readSecret
<1> HIDE DEF S
<1>2. WorldOK(S)' /\ UNCHANGED rows
  BY <1>1, WorldKept DEF readSecret, server, budget, WorldOK
<1>3. WorkerOK(S)' /\ pc' \in {"connect", "status"}
  <2>1. CASE Finish(missing) \/ Finish(otherwise)
    BY <1>1, <2>1, FinishTypes DEF Finish
  <2>2. CASE Goto("connect")
    BY <1>1, <2>2, GotoTypes DEF Goto
  <2> QED
    BY <2>1, <2>2 DEF readSecret
<1>4. read' \in Maybe(Contents)
  BY <1>1 DEF readSecret, SecretSourceTypeOK, Maybe
<1>5. SecretSourceTypeOK'
  BY <1>4 DEF SecretSourceTypeOK, readSecret, secrets
<1> QED
  BY <1>2, <1>3, <1>5, Joined DEF S

\* The user and the informer of the Secret.
LEMMA SecretStepTypes ==
  ASSUME DependentTypeOK(VersionedStatus), SecretSourceTypeOK,
         NEW forms \in SUBSET Forms, WriteSecret(forms) \/ DeleteSecret \/ DeliverSecret
  PROVE  /\ DependentTypeOK(VersionedStatus)' /\ SecretSourceTypeOK'
         /\ UNCHANGED <<api, dbs, server, worker, budget, read>>
<1>1. UNCHANGED <<api, dbs, server, worker, budget, read>>
  BY DEF WriteSecret, DeleteSecret, DeliverSecret
<1>2. queued' \subseteq Keys
  BY DEF WriteSecret, DeleteSecret, DeliverSecret, PutSecret, Readers, DependentTypeOK
<1>3. DependentTypeOK(VersionedStatus)'
  BY <1>1, <1>2 DEF DependentTypeOK, api, dbs, server, worker, budget
<1>4. /\ secret' \in Maybe(Contents) /\ secretCache' \in Maybe(Contents) /\ writes' \in Nat
  <2>1. CASE WriteSecret(forms)
    <3>1. PICK f \in forms : PutSecret([rv |-> writes + 1, form |-> f])
      BY <2>1 DEF WriteSecret
    <3>2. [rv |-> writes + 1, form |-> f] \in Contents /\ writes' \in Nat
      BY <2>1 DEF WriteSecret, SecretSourceTypeOK, Contents
    <3> QED
      BY <3>1, <3>2 DEF PutSecret, SecretSourceTypeOK, Maybe
  <2>2. CASE DeleteSecret
    BY <2>2 DEF DeleteSecret, PutSecret, SecretSourceTypeOK, Maybe
  <2>3. CASE DeliverSecret
    BY <2>3 DEF DeliverSecret, SecretSourceTypeOK
  <2> QED
    BY <2>1, <2>2, <2>3
<1> QED
  BY <1>1, <1>3, <1>4 DEF SecretSourceTypeOK

\* A restart.
LEMMA RestartAllTypes ==
  ASSUME DependentTypeOK(VersionedStatus), SecretSourceTypeOK, RestartAll
  PROVE  /\ DependentTypeOK(VersionedStatus)' /\ SecretSourceTypeOK'
         /\ UNCHANGED rows /\ pc' = "idle"
<1>1. DependentTypeOK(VersionedStatus)' /\ pc' = "idle" /\ UNCHANGED rows
  BY RestartTypes DEF RestartAll, Restart, server
<1>2. SecretSourceTypeOK'
  BY DEF RestartAll, SecretSourceTypeOK, Maybe
<1> QED
  BY <1>1, <1>2

\* Reading the Secret changes nothing but the worker.
LEMMA readSecretHarmless ==
  ASSUME DependentTypeOK(VersionedStatus), SharedInv, NEW missing, NEW usable, NEW otherwise,
         readSecret(missing, usable, otherwise)
  PROVE  Harmless
<1>1. pc = "secret" /\ ~seen.deleting /\ UNCHANGED <<api, dbs, uids, clusters, rows>>
  BY DEF readSecret, SharedInv, PathInv, LiveSteps, server, budget
<1>2. pc' \in {"connect", "status"} /\ UNCHANGED <<key, seen>>
  BY DEF readSecret, Finish, Goto
<1>3. PathInv'
  BY <1>1, <1>2, GotoPath DEF SharedInv, DeletingSteps
<1> QED
  BY <1>1, <1>2, <1>3, VersionedStatusSet, WorkerHarmless DEF RowsLost, SessionSteps
=============================================================================
