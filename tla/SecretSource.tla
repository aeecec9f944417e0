----------------------------- MODULE SecretSource -----------------------------
(***************************************************************************)
(* What DatabaseRole and ServerSecret add to a dependent: a Kubernetes     *)
(* Secret of the user's that a spec may refer to (passwordSecret,          *)
(* valuesFrom), its informer, and the copy a reconcile read.  Of its       *)
(* contents only their resourceVersion matters, and what keeps the kind    *)
(* from using them.                                                        *)
(***************************************************************************)
EXTENDS Dependent

CONSTANT MaxWrites   \* times the user creates or updates the Secret

ASSUME SecretSourceAssumption ==
  MaxWrites \in Nat /\ \A s \in Specs : s.secret \in BOOLEAN

VARIABLES secret,       \* the Secret in the API server
          secretCache,  \* the operator's copy
          read,         \* the copy the reconcile read, or NoObj if it needs none
          writes        \* resourceVersions given out

secrets == <<secret, secretCache, writes>>
vars    == <<base, secrets, read>>

\* Contents the kind can use, without the key it looks for, or with a value or a
\* key that no statement can hold.
Forms    == {"usable", "keyless", "unsound"}
Contents == [rv : Nat \ {0}, form : Forms]

SecretSourceTypeOK ==
  /\ secret \in Maybe(Contents) /\ secretCache \in Maybe(Contents)
  /\ read \in Maybe(Contents)
  /\ writes \in Nat

SecretSourceInit ==
  secret = NoObj /\ secretCache = NoObj /\ read = NoObj /\ writes = 0

\* The status of a kind that notes which resourceVersion it applied, 0 for none.
VersionedStatus == [ready : Condition, version : Nat]
NewStatus ==
  [ready |-> [status |-> "Unknown", reason |-> "None", gen |-> 0], version |-> 0]

ASSUME NoObjAssumption == NoObj \notin Objects(VersionedStatus) \cup Contents

Version == IF read = NoObj THEN 0 ELSE read.rv

\* apply returns without an error: the version goes into the status, too.
FinishApplied ==
  /\ pc' = "status"
  /\ next' = [ready |-> outcome("Applied"), version |-> Version]
  /\ session' = FALSE
  /\ UNCHANGED <<key, seen, queued>>

\* The first step of apply: get the Secret if the spec names one, and make sure
\* that what is known so far can be used.
readSecret(missing, usable, otherwise) ==
  /\ pc = "secret"
  /\ IF seen.spec.secret /\ secretCache = NoObj THEN Finish(missing) /\ read' = NoObj
     ELSE IF usable
     THEN Goto("connect") /\ read' = IF seen.spec.secret THEN secretCache ELSE NoObj
     ELSE Finish(otherwise) /\ read' = NoObj
  /\ UNCHANGED <<api, dbs, server, budget, secrets>>

readFails == pc = "secret" /\ seen.spec.secret /\ GetFails({"secret"})

\* Steps of the shared code leave the Secret alone and forget it at the end.
Plain(A) ==
  /\ A
  /\ read' = IF pc' = "idle" THEN NoObj ELSE read
  /\ UNCHANGED secrets

(***************************************************************************)
(* The user and the informer of the Secret.                                *)
(***************************************************************************)
\* requestsByIndex on the name of the Secret, over the cached objects.
Readers == {k \in Keys : cache[k] # NoObj /\ cache[k].spec.secret}

PutSecret(s) ==
  /\ secret' = s
  /\ secretCache' = IF "secrets" \in Lagging THEN secretCache ELSE s
  /\ queued' = IF "secrets" \in Lagging THEN queued ELSE queued \cup Readers

\* The user creates or updates the Secret, with contents of one of the forms.
WriteSecret(forms) ==
  /\ writes < MaxWrites
  /\ writes' = writes + 1
  /\ \E f \in forms : PutSecret([rv |-> writes + 1, form |-> f])
  /\ UNCHANGED <<api, dbs, server, worker, budget, read>>

DeleteSecret ==
  /\ secret # NoObj
  /\ PutSecret(NoObj)
  /\ UNCHANGED <<api, dbs, server, worker, budget, read, writes>>

DeliverSecret ==
  /\ secretCache # secret
  /\ secretCache' = secret
  /\ queued' = queued \cup Readers
  /\ UNCHANGED <<api, dbs, server, worker, budget, secret, read, writes>>

\* A restart lists the Secrets, too.
RestartAll ==
  /\ Restart
  /\ read' = NoObj /\ secretCache' = secret
  /\ UNCHANGED <<secret, writes>>
=============================================================================
