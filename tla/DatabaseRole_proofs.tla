-------------------------- MODULE DatabaseRole_proofs --------------------------
(***************************************************************************)
(* Proofs about DatabaseRole for every set of keys, SereneDBs, specs,      *)
(* groups and lagging informers, and every bound.                          *)
(***************************************************************************)
EXTENDS DatabaseRole, SecretSource_proofs

(***************************************************************************)
(* Types.                                                                  *)
(***************************************************************************)
RolesOK == rows \in [Clusters -> [Names -> Maybe(Roles)]]

\* What the shared code's lemmas ask for.
LEMMA SharedTypesOK ==
  ASSUME TypeOK
  PROVE  /\ StatusSet(VersionedStatus) /\ DependentTypeOK(VersionedStatus)
         /\ NewStatus \in VersionedStatus /\ SecretSourceTypeOK /\ RolesOK
         /\ current \subseteq Groups
BY VersionedStatusSet DEF TypeOK, RolesOK

\* The memberships to remember.
LEMMA RememberTypes ==
  ASSUME NEW now, Remember(now), now \subseteq Groups \/ pc' \notin {"grant", "revoke"}
  PROVE  current' \subseteq Groups
BY DEF Remember

\* Reading the Secret of the password.
LEMMA passwordTypes ==
  ASSUME TypeOK, password
  PROVE  /\ DependentTypeOK(VersionedStatus)' /\ SecretSourceTypeOK'
         /\ UNCHANGED rows /\ pc' \in {"connect", "status"}
<1> DEFINE usable == seen.spec.secret => secretCache.form # "keyless"
<1>1. readSecret("PasswordSecretMissing", usable, "PasswordSecretMissing")
  BY DEF password
<1>2. "PasswordSecretMissing" \in Reasons
  BY DEF Reasons
<1> HIDE DEF usable
<1> QED
  BY <1>1, <1>2, SharedTypesOK, readSecretTypes

\* What a statement may leave in the row: a role again.
LEMMA renderTypes ==
  ASSUME TypeOK, pc # "idle", NEW role \in Roles, NEW present \in BOOLEAN
  PROVE  render(role, present) \in Roles
<1>1. seen.spec \in Specs /\ Version \in Nat
  BY SharedTypesOK, Halves, SeenTypes, VersionTypes
<1>2. seen.spec.login \in BOOLEAN /\ seen.spec.until \in Untils
  BY <1>1, DatabaseRoleAssumption DEF SpecType, Untils
<1> QED
  BY <1>1, <1>2 DEF render, Roles

\* The row in hand is a role, if it is there.
LEMMA RowTypes ==
  ASSUME TypeOK, pc # "idle"
  PROVE  Row # NoObj => Row \in Roles
BY SharedTypesOK, Halves, SeenTypes DEF RolesOK, Row, Maybe

\* The statements write roles.
LEMMA StatementRows ==
  ASSUME TypeOK, pc # "idle"
  PROVE  /\ CreateRole \in [Clusters -> [Names -> Maybe(Roles)]]
         /\ Row # NoObj => AlterRole \in [Clusters -> [Names -> Maybe(Roles)]]
         /\ \A g \in Groups : Row # NoObj =>
              GrantMembership(g) \in [Clusters -> [Names -> Maybe(Roles)]]
         /\ \A g : Row # NoObj =>
              RevokeMembership(g) \in [Clusters -> [Names -> Maybe(Roles)]]
         /\ With(NoObj) \in [Clusters -> [Names -> Maybe(Roles)]]
<1>1. ASSUME NEW row \in Maybe(Roles)
      PROVE  With(row) \in [Clusters -> [Names -> Maybe(Roles)]]
  BY SharedTypesOK, Halves, WithRows DEF RolesOK
<1>2. render([login |-> FALSE, until |-> "", pw |-> 0, groups |-> {}], FALSE) \in Roles
  <2>1. [login |-> FALSE, until |-> "", pw |-> 0, groups |-> {}] \in Roles
    <3>1. "" \in Untils
      BY DEF Untils
    <3> QED
      BY <3>1 DEF Roles
  <2> QED
    BY <2>1, renderTypes
<1>3. Row # NoObj => render(Row, TRUE) \in Roles
  BY RowTypes, renderTypes
<1>4. ASSUME NEW g \in Groups, Row # NoObj
      PROVE  [Row EXCEPT !.groups = @ \cup {g}] \in Roles
  BY <1>4, RowTypes DEF Roles
<1>5. ASSUME NEW g, Row # NoObj
      PROVE  [Row EXCEPT !.groups = @ \ {g}] \in Roles
  BY <1>5, RowTypes DEF Roles
<1>6. \A r \in Roles : r \in Maybe(Roles)
  BY DEF Maybe
<1>7. NoObj \in Maybe(Roles)
  BY DEF Maybe
<1>8. Row # NoObj => AlterRole \in [Clusters -> [Names -> Maybe(Roles)]]
  BY <1>1, <1>3, <1>6 DEF AlterRole
<1>9. CreateRole \in [Clusters -> [Names -> Maybe(Roles)]]
  BY <1>1, <1>2, <1>6 DEF CreateRole
<1>10. \A g \in Groups : Row # NoObj =>
         GrantMembership(g) \in [Clusters -> [Names -> Maybe(Roles)]]
  BY <1>1, <1>4, <1>6 DEF GrantMembership
<1>11. \A g : Row # NoObj => RevokeMembership(g) \in [Clusters -> [Names -> Maybe(Roles)]]
  BY <1>1, <1>5, <1>6 DEF RevokeMembership
<1> QED
  BY <1>1, <1>7, <1>8, <1>9, <1>10, <1>11

\* What is left to do once the memberships are known.
LEMMA ConvergeTypes ==
  ASSUME SecretSourceTypeOK, WorkerOK(VersionedStatus), pc # "idle", NEW now, Converge(now)
  PROVE  WorkerOK(VersionedStatus)' /\ pc' \in {"grant", "revoke", "status"}
<1>1. CASE \E step \in {"grant", "revoke"} : Goto(step)
  BY <1>1, GotoTypes DEF Goto
<1>2. CASE FinishApplied
  BY <1>2, FinishAppliedTypes DEF FinishApplied
<1> QED
  BY <1>1, <1>2 DEF Converge

\* The statements of apply.
LEMMA applyTypes ==
  ASSUME TypeOK, exists \/ create \/ alter
  PROVE  DependentTypeOK(VersionedStatus)' /\ pc' \in Steps \cup {"idle"} /\ RolesOK'
<1> DEFINE S == VersionedStatus
<1>1. StatusSet(S) /\ WorldOK(S) /\ WorkerOK(S) /\ pc # "idle" /\ SecretSourceTypeOK /\ RolesOK
  BY SharedTypesOK, Halves DEF exists, create, alter
<1> HIDE DEF S
<1>2. WorldOK(S)'
  BY <1>1, FaultTypes, WorldKept
     DEF exists, create, alter, Query, Exec, Refused, server, budget
<1>3. WorkerOK(S)' /\ pc' \in Steps \cup {"idle"}
  <2>1. CASE Finish("InvalidSpec")
    <3>1. "InvalidSpec" \in Reasons
      BY DEF Reasons
    <3>2. WorkerOK(S)'
      BY <1>1, <2>1, <3>1, FinishTypes
    <3> QED
      BY <2>1, <3>2 DEF Finish, Steps
  <2>2. CASE \E step \in {"create", "alter", "members"} : Goto(step)
    BY <1>1, <2>2, GotoTypes DEF Goto, Steps
  <2>3. CASE Error
    BY <1>1, <2>3, ErrorTypes, SeenTypes DEF Steps
  <2> QED
    BY <2>1, <2>2, <2>3 DEF exists, create, alter, Query, Exec, Refused
<1>4. RolesOK'
  <2>1. \/ UNCHANGED rows
        \/ rows' = CreateRole
        \/ Row # NoObj /\ rows' = AlterRole
    BY DEF exists, create, alter, Query, Exec, Refused, server
  <2> QED
    BY <1>1, <2>1, StatementRows DEF RolesOK
<1> QED
  BY <1>2, <1>3, <1>4, Joined DEF S

\* The memberships.
LEMMA convergeTypes ==
  ASSUME TypeOK, converge
  PROVE  /\ DependentTypeOK(VersionedStatus)' /\ pc' \in Steps \cup {"idle"} /\ RolesOK'
         /\ current' \subseteq Groups
<1> DEFINE S == VersionedStatus
<1>1. /\ StatusSet(S) /\ WorldOK(S) /\ WorkerOK(S) /\ pc # "idle" /\ SecretSourceTypeOK
      /\ RolesOK /\ current \subseteq Groups
  BY SharedTypesOK, Halves DEF converge
<1>2. RoleMemberships \subseteq Groups
  BY <1>1, RowTypes DEF RoleMemberships, Roles
<1>3. PICK new, now :
        /\ Refused \/ Exec(new, Converge(now))
        /\ Remember(now)
        /\ Refused \/ now \subseteq Groups
        /\ Refused \/ new \in [Clusters -> [Names -> Maybe(Roles)]]
  <2>1. CASE pc = "members"
    BY <1>1, <1>2, <2>1 DEF converge, Query, RolesOK
  <2>2. CASE pc = "grant"
    <3>1. PICK g \in seen.spec.inRoles \ current :
            /\ IF Row = NoObj \/ g \notin Groups THEN Refused
               ELSE Exec(GrantMembership(g), Converge(current \cup {g}))
            /\ Remember(current \cup {g})
      BY <2>2 DEF converge
    <3>2. CASE Row = NoObj \/ g \notin Groups
      BY <3>1, <3>2
    <3>3. CASE Row # NoObj /\ g \in Groups
      <4>1. GrantMembership(g) \in [Clusters -> [Names -> Maybe(Roles)]]
        BY <1>1, <3>3, StatementRows
      <4>2. current \cup {g} \subseteq Groups
        BY <1>1, <3>3
      <4> QED
        BY <3>1, <3>3, <4>1, <4>2
    <3> QED
      BY <3>2, <3>3
  <2>3. CASE pc = "revoke"
    <3>1. PICK g \in current \ seen.spec.inRoles :
            /\ IF Row = NoObj THEN Refused
               ELSE Exec(RevokeMembership(g), Converge(current \ {g}))
            /\ Remember(current \ {g})
      BY <2>3 DEF converge
    <3>2. CASE Row = NoObj
      BY <3>1, <3>2
    <3>3. CASE Row # NoObj
      <4>1. RevokeMembership(g) \in [Clusters -> [Names -> Maybe(Roles)]]
        BY <1>1, <3>3, StatementRows
      <4>2. current \ {g} \subseteq Groups
        BY <1>1
      <4> QED
        BY <3>1, <3>3, <4>1, <4>2
    <3> QED
      BY <3>2, <3>3
  <2> QED
    BY <2>1, <2>2, <2>3 DEF converge
<1> HIDE DEF S
<1>4. WorldOK(S)'
  BY <1>1, <1>3, FaultTypes, WorldKept DEF Exec, Refused, server, budget
<1>5. /\ WorkerOK(S)' /\ pc' \in {"idle", "grant", "revoke", "status"}
      /\ Refused => pc' \in {"idle", "status"}
  <2>1. Error => WorkerOK(S)' /\ pc' \in {"idle", "status"}
    BY <1>1, ErrorTypes, SeenTypes
  <2>2. Converge(now) => WorkerOK(S)' /\ pc' \in {"grant", "revoke", "status"}
    BY <1>1, ConvergeTypes DEF S
  <2> QED
    BY <1>3, <2>1, <2>2 DEF Exec, Refused
<1>6. RolesOK'
  BY <1>1, <1>3 DEF Exec, Refused, server, RolesOK
<1>7. current' \subseteq Groups
  BY <1>3, <1>5, RememberTypes
<1> QED
  BY <1>4, <1>5, <1>6, <1>7, Joined DEF S, Steps

\* The shared steps of a reconcile.
LEMMA SharedStepTypes ==
  ASSUME TypeOK, NEW wanted,
         \/ ensureFinalizer
         \/ finalize(wanted) \/ dropRole \/ removeFinalizer
         \/ openSession(IF seen.deleting THEN "dropExists" ELSE "exists")
         \/ GetFails({"finalize", "connect"}) \/ readFails
         \/ PatchStatus
         \/ \E k \in Keys : Begin(k, "secret")
  PROVE  DependentTypeOK(VersionedStatus)' /\ pc' \in Steps \cup {"idle"} /\ RolesOK'
<1> DEFINE S == VersionedStatus
<1>1. StatusSet(S) /\ DependentTypeOK(S) /\ RolesOK
  BY SharedTypesOK
<1> HIDE DEF S
<1>2. CASE ensureFinalizer \/ removeFinalizer \/ PatchStatus
  BY <1>1, <1>2, ensureFinalizerTypes, removeFinalizerTypes, PatchStatusTypes
     DEF S, ensureFinalizer, removeFinalizer, Update, PatchStatus, server, RolesOK
<1>3. CASE finalize(wanted)
  BY <1>1, <1>3, finalizeTypes DEF S, Steps, finalize, server, RolesOK
<1>4. ASSUME NEW step \in {"dropExists", "exists"}, openSession(step)
      PROVE  DependentTypeOK(S)' /\ pc' \in Steps \cup {"idle"} /\ UNCHANGED rows
  BY <1>1, <1>4, openSessionTypes DEF Steps, openSession, server
<1>5. ASSUME NEW steps, "idle" \notin steps, GetFails(steps)
      PROVE  DependentTypeOK(S)' /\ pc' \in Steps \cup {"idle"} /\ UNCHANGED rows
  BY <1>1, <1>5, GetFailsTypes DEF Steps, GetFails, server
<1>6. ASSUME NEW k \in Keys, Begin(k, "secret")
      PROVE  DependentTypeOK(S)' /\ pc' \in Steps \cup {"idle"} /\ UNCHANGED rows
  <2>1. DependentTypeOK(S)' /\ pc' \in {"idle", "finalize", "guard", "secret"}
    BY <1>1, <1>6, BeginTypes
  <2>2. UNCHANGED rows
    BY <1>6 DEF Begin, server
  <2> QED
    BY <2>1, <2>2 DEF Steps
<1>7. CASE dropExists
  BY <1>1, <1>7, dropExistsTypes DEF S, Steps, RolesOK
<1>8. CASE drop
  <2>1. /\ DependentTypeOK(S)' /\ rows' \in {rows, With(NoObj)}
        /\ pc' \in {"idle", "status", "release"}
    BY <1>1, <1>8, dropTypes
  <2>2. With(NoObj) \in [Clusters -> [Names -> Maybe(Roles)]]
    BY <1>8, StatementRows DEF drop
  <2> QED
    BY <1>1, <2>1, <2>2 DEF S, Steps, RolesOK
<1> QED
  BY <1>1, <1>2, <1>3, <1>4, <1>5, <1>6, <1>7, <1>8 DEF S, dropRole, readFails, RolesOK

\* Everybody else.
LEMMA OthersTypes ==
  ASSUME TypeOK,
         \/ \E k \in Keys : Create(k, NewStatus)
         \/ \E c \in Clusters, n \in Names : HandAlter(c, n)
         \/ Surroundings \/ Hold \/ LetGo
  PROVE  DependentTypeOK(VersionedStatus)' /\ UNCHANGED pc /\ RolesOK'
<1> DEFINE S == VersionedStatus
<1>1. DependentTypeOK(S) /\ NewStatus \in S /\ RolesOK
  BY SharedTypesOK
<1>2. CASE \E c \in Clusters, n \in Names : HandAlter(c, n)
  <2>0. PICK c \in Clusters, n \in Names : HandAlter(c, n)
    BY <1>2
  <2>1. PICK login \in BOOLEAN, groups \in SUBSET Groups :
          /\ rows[c][n] # NoObj
          /\ rows' = [rows EXCEPT ![c][n].login = login, ![c][n].groups = groups]
    BY <2>0 DEF HandAlter
  <2>2. DependentTypeOK(S)' /\ UNCHANGED pc
    <3>1. UNCHANGED <<api, dbs, held, queued, worker, uids, edits, faults, clusters>> /\ drift' \in Nat
      BY <1>1, <1>2 DEF HandAlter, DependentTypeOK
    <3> QED
      BY <1>1, <3>1 DEF DependentTypeOK, api, dbs, worker
  <2>3. [rows[c][n] EXCEPT !.login = login, !.groups = groups] \in Roles
    <3>1. rows[c][n] \in Roles
      BY <1>1, <2>1 DEF RolesOK, Maybe
    <3> QED
      BY <3>1 DEF Roles
  <2>4. rows' = [rows EXCEPT ![c][n] = [rows[c][n] EXCEPT !.login = login, !.groups = groups]]
    BY <1>1, <2>1 DEF RolesOK
  <2> QED
    BY <1>1, <2>2, <2>3, <2>4 DEF RolesOK, Maybe
<1>3. CASE (\E k \in Keys : Create(k, NewStatus)) \/ Surroundings
  <2>1. DependentTypeOK(S)' /\ UNCHANGED pc
    BY <1>1, <1>3, UserStepTypes, SurroundingsTypes DEF worker
  <2> QED
    BY <1>1, <1>3, <2>1, SurroundingRows DEF Create, server, RolesOK
<1>4. CASE Hold \/ LetGo
  BY <1>1, <1>4, HandStepTypes DEF Hold, LetGo, worker, RolesOK
<1> QED
  BY <1>2, <1>3, <1>4

\* Every step preserves the types.
LEMMA NextTypes ==
  ASSUME TypeOK, [Next]_roleVars
  PROVE  TypeOK'
<1>1. CASE UNCHANGED roleVars
  BY <1>1 DEF TypeOK, DependentTypeOK, SecretSourceTypeOK, roleVars, vars, secrets, base, api, dbs,
              server, worker, budget
<1>2. ASSUME DependentTypeOK(VersionedStatus)', SecretSourceTypeOK', RolesOK',
             pc' \in Steps \cup {"idle"}, Remember(current)
      PROVE  TypeOK'
  BY <1>2, SharedTypesOK, RememberTypes DEF TypeOK, RolesOK
<1>3. ASSUME read' = IF pc' = "idle" THEN NoObj ELSE read, UNCHANGED secrets
      PROVE  SecretSourceTypeOK'
  BY <1>3, SharedTypesOK, PlainTypes
<1>4. CASE Calm(password)
  BY <1>2, <1>4, SharedTypesOK, passwordTypes DEF Calm, Steps, RolesOK
<1>5. CASE Calm(Plain(\/ ensureFinalizer
                      \/ finalize(seen.spec.reclaimPolicy = "Delete")
                      \/ dropRole \/ removeFinalizer
                      \/ openSession(IF seen.deleting THEN "dropExists" ELSE "exists")
                      \/ GetFails({"finalize", "connect"}) \/ readFails
                      \/ exists \/ create \/ alter
                      \/ PatchStatus))
  BY <1>2, <1>3, <1>5, SharedStepTypes, applyTypes DEF Calm, Plain
<1>6. CASE Plain(converge)
  BY <1>3, <1>6, convergeTypes DEF Plain, TypeOK, RolesOK
<1>7. CASE Calm(Plain(\E k \in Keys : Begin(k, "secret")))
  BY <1>2, <1>3, <1>7, SharedStepTypes DEF Calm, Plain
<1>8. CASE Calm(Plain(\/ \E k \in Keys : Create(k, NewStatus)
                      \/ \E c \in Clusters, n \in Names : HandAlter(c, n)
                      \/ Surroundings \/ Hold \/ LetGo))
  BY <1>2, <1>3, <1>8, OthersTypes DEF Calm, Plain, TypeOK
<1>9. CASE Calm(WriteSecret(Forms) \/ DeleteSecret \/ DeliverSecret)
  BY <1>2, <1>9, SharedTypesOK, SecretStepTypes DEF Calm, TypeOK, server, worker, RolesOK
<1>10. CASE Calm(RestartAll)
  BY <1>2, <1>10, SharedTypesOK, RestartAllTypes DEF Calm, RolesOK
<1> QED
  BY <1>1, <1>4, <1>5, <1>6, <1>7, <1>8, <1>9, <1>10 DEF Next, Worker, Reconcile, Calm

\* The type invariant holds for every value of the constants: no order of outages,
\* lost answers, restarts, edits, rotations and changes by hand leaves a reconcile
\* without the object it works on, or with a membership
\* to revoke that is of no role.
THEOREM TypeCorrect == Spec => []TypeOK
<1>1. Init => TypeOK
  <2> SUFFICES ASSUME Init PROVE TypeOK
    OBVIOUS
  <2>1. DependentTypeOK(VersionedStatus) /\ rows \in [Clusters -> [Names -> Maybe(Roles)]]
    BY InitTypes DEF Init
  <2>2. SecretSourceTypeOK
    BY DEF Init, SecretSourceInit, SecretSourceTypeOK, Maybe
  <2> QED
    BY <2>1, <2>2 DEF Init, DependentInit, TypeOK
<1>2. TypeOK /\ [Next]_roleVars => TypeOK'
  BY NextTypes
<1> QED
  BY <1>1, <1>2, PTL DEF Spec

(***************************************************************************)
(* Copies and steps, as Dependent_proofs has them: whatever becomes of the *)
(* SereneDBs.                                                              *)
(***************************************************************************)
CoreInv == CopiesInv /\ PathInv

\* Statements change neither the objects nor the object in hand.
LEMMA StatementCore ==
  ASSUME TypeOK, CoreInv, exists \/ create \/ alter \/ converge
  PROVE  /\ CoreInv' /\ CopiesKept /\ UNCHANGED <<api, uids, key, seen>>
         /\ pc \in {"exists", "create", "alter", "members", "grant", "revoke"}
         /\ pc' \in {"create", "alter", "members", "grant", "revoke", "status"}
<1>1. StatusSet(VersionedStatus) /\ DependentTypeOK(VersionedStatus)
  BY SharedTypesOK
<1>2. pc \in {"exists", "create", "alter", "members", "grant", "revoke"}
  BY DEF exists, create, alter, converge
<1>3. ~seen.deleting
  BY <1>2 DEF CoreInv, PathInv, LiveSteps
<1>4. Error => pc' = "status" /\ UNCHANGED <<key, seen>>
  BY <1>3 DEF Error, Blocked, Finish
<1>5. ASSUME NEW now, Converge(now)
      PROVE  pc' \in {"grant", "revoke", "status"} /\ UNCHANGED <<key, seen>>
  BY <1>5 DEF Converge, Goto, FinishApplied
<1>6. /\ UNCHANGED <<api, uids, key, seen>>
      /\ pc' \in {"create", "alter", "members", "grant", "revoke", "status"}
  <2>1. CASE exists \/ create \/ alter
    BY <1>4, <2>1 DEF exists, create, alter, Query, Exec, Refused, Goto, Finish, budget
  <2>2. CASE converge
    BY <1>4, <1>5, <2>2 DEF converge, Query, Exec, Refused, budget
  <2> QED
    BY <2>1, <2>2
<1>7. PathInv'
  BY <1>2, <1>3, <1>6, GotoPath DEF CoreInv, DeletingSteps
<1>8. CopiesKept
  BY <1>1, <1>2, <1>6, QuietCopies DEF CoreInv
<1> QED
  BY <1>2, <1>6, <1>7, <1>8 DEF CoreInv, CopiesKept, CopiesKeptBut

\* So does reading the Secret.
LEMMA passwordCore ==
  ASSUME TypeOK, CoreInv, password
  PROVE  /\ CoreInv' /\ CopiesKept /\ UNCHANGED <<api, uids, rows, key, seen>>
         /\ pc = "secret" /\ ~seen.deleting /\ pc' \in {"connect", "status"}
         /\ next'.version = next.version
<1>1. StatusSet(VersionedStatus) /\ DependentTypeOK(VersionedStatus)
  BY SharedTypesOK
<1>2. pc = "secret" /\ ~seen.deleting
  BY DEF password, readSecret, CoreInv, PathInv, LiveSteps
<1>3. UNCHANGED <<api, uids, rows, key, seen>> /\ pc' \in {"connect", "status"}
  BY DEF password, readSecret, Finish, Goto, budget, server
<1>4. PathInv'
  BY <1>2, <1>3, GotoPath DEF CoreInv, DeletingSteps
<1>5. CopiesKept
  BY <1>1, <1>2, <1>3, QuietCopies DEF CoreInv
<1>6. next \in VersionedStatus
  BY <1>1, <1>2, Halves, SeenTypes
<1>7. next'.version = next.version
  BY <1>6 DEF password, readSecret, Finish, Goto, VersionedStatus
<1> QED
  BY <1>2, <1>3, <1>4, <1>5, <1>7 DEF CoreInv, CopiesKept, CopiesKeptBut

\* The shared steps of a reconcile.
LEMMA SharedStepCore ==
  ASSUME TypeOK, CoreInv, NEW wanted,
         \/ ensureFinalizer
         \/ finalize(wanted) \/ dropRole \/ removeFinalizer
         \/ openSession(IF seen.deleting THEN "dropExists" ELSE "exists")
         \/ GetFails({"finalize", "connect"}) \/ readFails
         \/ PatchStatus
         \/ \E k \in Keys : Begin(k, "secret")
  PROVE  CoreInv' /\ \A k \in Keys : cache'[k] \in {cache[k], obj'[k]}
<1> DEFINE S == VersionedStatus
<1>1. StatusSet(S) /\ DependentTypeOK(S) /\ CopiesInv /\ PathInv
  BY SharedTypesOK DEF CoreInv
<1>2. "exists" \in LiveSteps
  BY DEF LiveSteps
<1> HIDE DEF S
<1> SUFFICES PathInv' /\ (CopiesKept \/ CopiesKeptBut({key}))
  BY DEF CoreInv, CopiesKept, CopiesKeptBut
<1>3. CASE ensureFinalizer
  BY <1>1, <1>2, <1>3, SharedPath, ensureFinalizerCopies
<1>4. CASE removeFinalizer
  <2>1. seen.deleting
    BY <1>1, <1>4 DEF PathInv, DeletingSteps, removeFinalizer
  <2> QED
    BY <1>1, <1>2, <1>4, <2>1, SharedPath, removeFinalizerCopies
<1>5. CASE PatchStatus
  BY <1>1, <1>2, <1>5, SharedPath, PatchStatusCopies
<1>6. CASE \/ finalize(wanted) \/ dropRole
           \/ openSession(IF seen.deleting THEN "dropExists" ELSE "exists")
  <2>1. PathInv'
    BY <1>1, <1>2, <1>6, SharedPath DEF dropRole
  <2>2. UNCHANGED <<api, uids>> /\ pc # "idle"
    BY <1>6 DEF finalize, dropRole, dropExists, drop, openSession, Query, Exec, Refused, budget
  <2>3. pc' = "idle" \/ UNCHANGED <<key, seen>>
    BY <1>6 DEF finalize, dropRole, dropExists, drop, openSession, Query, Exec, Refused,
                Goto, Error, Blocked, Finish, Again, Idle
  <2> QED
    BY <1>1, <2>1, <2>2, <2>3, QuietCopies
<1>7. ASSUME NEW steps, steps \cap {"idle", "guard"} = {}, GetFails(steps)
      PROVE  PathInv' /\ CopiesKept
  <2>1. PathInv'
    BY <1>1, <1>7, GetFailsPath
  <2>2. UNCHANGED <<api, uids>> /\ pc # "idle" /\ (pc' = "idle" \/ UNCHANGED <<key, seen>>)
    BY <1>7 DEF GetFails, Error, Blocked, Finish, Again, Idle
  <2> QED
    BY <1>1, <2>1, <2>2, QuietCopies
<1>8. CASE GetFails({"finalize", "connect"}) \/ readFails
  BY <1>7, <1>8 DEF readFails
<1>9. CASE \E k \in Keys : Begin(k, "secret")
  BY <1>1, <1>9, BeginPath, BeginCopies
<1> QED
  BY <1>3, <1>4, <1>5, <1>6, <1>8, <1>9

\* Everybody else.
LEMMA OthersCore ==
  ASSUME TypeOK, CoreInv,
         \/ \E k \in Keys : Create(k, NewStatus)
         \/ \E c \in Clusters, n \in Names : HandAlter(c, n)
         \/ Surroundings \/ Hold \/ LetGo
         \/ UNCHANGED <<api, uids, worker>>
  PROVE  CoreInv' /\ UNCHANGED <<pc, key, seen, next>>
         /\ \A k \in Keys : cache'[k] \in {cache[k], obj'[k]}
<1> DEFINE S == VersionedStatus
<1>1. StatusSet(S) /\ DependentTypeOK(S) /\ CopiesInv /\ PathInv /\ NewStatus \in S
  BY SharedTypesOK DEF CoreInv
<1> HIDE DEF S
<1>2. CASE \E k \in Keys : Create(k, NewStatus) \/ Edit(k) \/ Delete(k)
  <2>1. PICK k \in Keys : Create(k, NewStatus) \/ Edit(k) \/ Delete(k)
    BY <1>2
  <2>2. CopiesKept /\ UNCHANGED worker
    BY <1>1, <2>1, UserStepCopies, UserStepTypes
  <2> QED
    BY <1>1, <2>2, KeptPath DEF CoreInv, CopiesKept, CopiesKeptBut, worker
<1>3. CASE \E k \in Keys : Deliver(k)
  <2>1. PICK k \in Keys : Deliver(k)
    BY <1>3
  <2>2. CopiesKept /\ UNCHANGED worker
    BY <1>1, <2>1, DeliverCopies DEF Deliver
  <2> QED
    BY <1>1, <2>2, KeptPath DEF CoreInv, CopiesKept, CopiesKeptBut, worker
<1>4. CASE UNCHANGED <<api, uids, pc, key, seen, next>>
  BY <1>1, <1>4, KeptPath, QuietCopies DEF CoreInv, CopiesKept, CopiesKeptBut
<1>5. ASSUME NEW c \in Clusters,
             DeliverDb(c) \/ CreateDb(c) \/ Serve(c) \/ Outage(c) \/ DeleteDb(c) \/ RemoveDb(c)
      PROVE  UNCHANGED <<api, uids, pc, key, seen, next>>
  BY <1>5 DEF DeliverDb, CreateDb, Serve, Outage, DeleteDb, RemoveDb, Broken, worker, budget
<1>6. ASSUME NEW c \in Clusters, NEW n \in Names, HandDrop(c, n) \/ HandAlter(c, n)
      PROVE  UNCHANGED <<api, uids, pc, key, seen, next>>
  BY <1>6 DEF HandDrop, HandAlter, worker
<1>7. Hold \/ LetGo \/ UNCHANGED <<api, uids, worker>> => UNCHANGED <<api, uids, pc, key, seen, next>>
  BY DEF Hold, LetGo, worker, budget
<1> QED
  BY <1>2, <1>3, <1>4, <1>5, <1>6, <1>7 DEF Surroundings

\* A restart.
LEMMA RestartCore ==
  ASSUME TypeOK, CoreInv, Restart
  PROVE  CoreInv' /\ \A k \in Keys : cache'[k] \in {cache[k], obj'[k]}
<1>1. pc' = "idle"
  BY DEF Restart, Idle
<1> QED
  BY <1>1, SharedTypesOK, RestartCopies, KeptPath DEF CoreInv, CopiesKept, CopiesKeptBut

(***************************************************************************)
(* Versions of the Secret.                                                 *)
(***************************************************************************)
\* The oldest version that is still to be used: the one read, or the one to be read
\* next.
Latest == IF read # NoObj THEN read.rv
          ELSE IF secretCache # NoObj THEN secretCache.rv
          ELSE IF secret # NoObj THEN secret.rv
          ELSE writes

\* What was read is not newer than the operator's copy, and that not newer than
\* the Secret.
ChainInv ==
  /\ secret # NoObj => secret.rv <= writes
  /\ secretCache # NoObj => /\ secretCache.rv <= writes
                            /\ secret # NoObj => secretCache.rv <= secret.rv
  /\ read # NoObj => /\ read.rv <= writes
                     /\ secret # NoObj => read.rv <= secret.rv
                     /\ secretCache # NoObj => read.rv <= secretCache.rv

\* No status says more than that.
VersionsInv ==
  /\ \A k \in Keys : /\ obj[k] # NoObj => obj[k].status.version <= Latest
                     /\ cache[k] # NoObj => cache[k].status.version <= Latest
  /\ pc # "idle" => seen.status.version <= Latest /\ next.version <= Latest

\* The versions are numbers.
LEMMA SecretTypes ==
  ASSUME SecretSourceTypeOK
  PROVE  /\ writes \in Nat /\ Version \in Nat /\ Latest \in Nat
         /\ secret # NoObj => secret.rv \in Nat
         /\ secretCache # NoObj => secretCache.rv \in Nat
         /\ read # NoObj => read.rv \in Nat /\ Version = read.rv
         /\ read = NoObj => Version = 0
<1>1. /\ writes \in Nat
      /\ secret # NoObj => secret.rv \in Nat
      /\ secretCache # NoObj => secretCache.rv \in Nat
      /\ read # NoObj => read.rv \in Nat
  BY DEF SecretSourceTypeOK, Maybe, Contents
<1> QED
  BY <1>1 DEF Version, Latest

\* The versions of the objects are.
LEMMA StatusTypes ==
  ASSUME TypeOK
  PROVE  /\ \A k \in Keys : /\ obj[k] # NoObj => obj[k].status.version \in Nat
                            /\ cache[k] # NoObj => cache[k].status.version \in Nat
         /\ pc # "idle" => seen.status.version \in Nat /\ next.version \in Nat
         /\ Latest \in Nat /\ Version \in Nat /\ Version <= Latest
<1>1. \A s \in VersionedStatus : s.version \in Nat
  BY DEF VersionedStatus
<1>2. \A o \in Objects(VersionedStatus) : o.status \in VersionedStatus
  BY DEF Objects
<1>3. \A k \in Keys : /\ obj[k] # NoObj => obj[k] \in Objects(VersionedStatus)
                      /\ cache[k] # NoObj => cache[k] \in Objects(VersionedStatus)
  BY SharedTypesOK DEF DependentTypeOK, Maybe
<1>4. pc # "idle" => seen \in Objects(VersionedStatus) /\ next \in VersionedStatus
  BY SharedTypesOK DEF DependentTypeOK
<1>5. Latest \in Nat /\ Version \in Nat /\ Version <= Latest
  BY SharedTypesOK, SecretTypes DEF Latest
<1> QED
  BY <1>1, <1>2, <1>3, <1>4, <1>5

\* As the Secret moves on, so does its latest version.
LEMMA LatestGrows ==
  ASSUME TypeOK, TypeOK', ChainInv,
         \/ UNCHANGED secrets /\ read' \in {read, NoObj, secretCache}
         \/ WriteSecret(Forms) \/ DeleteSecret \/ DeliverSecret \/ RestartAll
  PROVE  ChainInv' /\ Latest <= Latest'
<1>1. /\ writes \in Nat /\ Latest \in Nat
      /\ secret # NoObj => secret.rv \in Nat
      /\ secretCache # NoObj => secretCache.rv \in Nat
      /\ read # NoObj => read.rv \in Nat
  BY SharedTypesOK, SecretTypes
<1>2. CASE UNCHANGED secrets /\ read' \in {read, NoObj, secretCache}
  BY <1>1, <1>2 DEF ChainInv, Latest, secrets
<1>3. CASE WriteSecret(Forms)
  <2>1. PICK f \in Forms : PutSecret([rv |-> writes + 1, form |-> f])
    BY <1>3 DEF WriteSecret
  <2> DEFINE new == [rv |-> writes + 1, form |-> f]
  <2>2. new \in Contents /\ new.rv = writes + 1
    BY <1>1 DEF Contents
  <2>3. new # NoObj
    BY <2>2, NoObjAssumption
  <2>4. /\ secret' = new /\ secretCache' \in {secretCache, new} /\ writes' = writes + 1
        /\ UNCHANGED read
    BY <1>3, <2>1 DEF WriteSecret, PutSecret
  <2> HIDE DEF new
  <2> QED
    BY <1>1, <2>2, <2>3, <2>4 DEF ChainInv, Latest
<1>4. CASE DeleteSecret
  <2>1. secret' = NoObj /\ secretCache' \in {secretCache, NoObj} /\ UNCHANGED <<writes, read>>
    BY <1>4 DEF DeleteSecret, PutSecret
  <2> QED
    BY <1>1, <2>1 DEF ChainInv, Latest
<1>5. CASE DeliverSecret \/ RestartAll
  <2>1. secretCache' = secret /\ read' \in {read, NoObj} /\ UNCHANGED <<secret, writes>>
    BY <1>5 DEF DeliverSecret, RestartAll
  <2> QED
    BY <1>1, <2>1 DEF ChainInv, Latest
<1> QED
  BY <1>2, <1>3, <1>4, <1>5

\* The statuses of the objects come from before, are new, or are what the reconcile
\* computed from what it read.
StatusesFollow ==
  /\ \A k \in Keys : obj'[k] # NoObj =>
       \/ obj'[k].status.version = 0
       \/ obj[k] # NoObj /\ obj'[k].status.version = obj[k].status.version
       \/ pc # "idle" /\ obj'[k].status.version = next.version
  /\ \A k \in Keys : cache'[k] \in {cache[k], obj'[k]}
  /\ pc' # "idle" =>
       /\ \/ pc # "idle" /\ UNCHANGED seen
          \/ \E k \in Keys : cache[k] # NoObj /\ seen' = cache[k]
       /\ \/ pc # "idle" /\ next'.version = next.version
          \/ next'.version = seen'.status.version
          \/ next'.version = Version

\* Then none of them is newer than what is still to be used.
LEMMA VersionsKept ==
  ASSUME TypeOK, TypeOK', VersionsInv, Latest <= Latest', StatusesFollow
  PROVE  VersionsInv'
<1>1. /\ Latest \in Nat /\ Latest' \in Nat /\ Version \in Nat /\ Version <= Latest
      /\ \A k \in Keys : /\ obj[k] # NoObj => obj[k].status.version \in Nat
                         /\ cache[k] # NoObj => cache[k].status.version \in Nat
      /\ pc # "idle" => seen.status.version \in Nat /\ next.version \in Nat
  <2>1. Latest' \in Nat
    BY DEF TypeOK, SecretSourceTypeOK, Latest, Maybe, Contents
  <2> QED
    BY <2>1, StatusTypes
<1>2. \A k \in Keys : obj'[k] # NoObj => obj'[k].status.version <= Latest'
  BY <1>1 DEF VersionsInv, StatusesFollow
<1>3. \A k \in Keys : cache'[k] # NoObj => cache'[k].status.version <= Latest'
  BY <1>1, <1>2 DEF VersionsInv, StatusesFollow
<1>4. pc' # "idle" => seen'.status.version <= Latest'
  BY <1>1 DEF VersionsInv, StatusesFollow
<1>5. pc' # "idle" => next'.version <= Latest'
  BY <1>1, <1>4 DEF VersionsInv, StatusesFollow
<1> QED
  BY <1>2, <1>3, <1>4, <1>5 DEF VersionsInv

(***************************************************************************)
(* Passwords, when no two objects share a role and no edit moves a role or *)
(* changes whether it has a password.                                      *)
(***************************************************************************)
\* An apply that needs the Secret has read it.
ReadInv ==
  /\ \/ pc \in {"exists", "create", "alter", "members", "grant", "revoke"}
     \/ pc = "connect" /\ ~seen.deleting
  /\ seen.spec.secret
  => read # NoObj

\* Once its statement has run, the role has the password that was read, or the one
\* the status had already noted; a version is only noted then.
HandInv ==
  /\ pc \in {"members", "grant", "revoke"} /\ Row # NoObj /\ Version # seen.status.version
       => Row.pw >= Version
  /\ pc # "idle" /\ next.version # seen.status.version
       => pc = "status" /\ (Row # NoObj => Row.pw >= next.version)

\* The role of an object has the password its status notes.
Noted(k) ==
  obj[k] # NoObj /\ obj[k].spec.secret /\ RowOf(k) # NoObj => RowOf(k).pw >= obj[k].status.version
PwInv == \A k \in Keys : Noted(k)

PasswordInv == ReadInv /\ HandInv /\ PwInv

\* No password is written.
PasswordsKept ==
  \A c \in Clusters, n \in Names :
    rows'[c][n] # NoObj => rows[c][n] # NoObj /\ rows'[c][n].pw = rows[c][n].pw

\* No version is noted, and roles stay where they are.
StatusesKept ==
  \A k \in Keys : obj'[k] # NoObj =>
    \/ obj'[k].status.version = 0
    \/ /\ obj[k] # NoObj
       /\ obj'[k].status.version = obj[k].status.version
       /\ obj'[k].spec.cluster = obj[k].spec.cluster /\ obj'[k].spec.name = obj[k].spec.name
       /\ obj'[k].spec.secret = obj[k].spec.secret

\* The reconcile ends, or goes on with what it has and has applied.
GoesOn ==
  \/ pc' = "idle"
  \/ /\ pc # "idle"
     /\ UNCHANGED <<key, seen>> /\ next'.version = next.version
     /\ pc = "status" => pc' = "status"
     /\ pc' \in {"members", "grant", "revoke"} => pc \in {"members", "grant", "revoke"}
     /\ pc' \in {"exists", "create", "alter"} => pc \in {"exists", "create", "alter", "connect"}
     /\ pc' \in {"exists", "create", "alter"} => ~seen.deleting
     /\ pc' = "connect" => pc = "connect" \/ seen.deleting

\* Where the role of an object is.
LEMMA PlaceTypes ==
  ASSUME TypeOK
  PROVE  /\ \A k \in Keys : obj[k] # NoObj => /\ obj[k].spec \in Specs
                                              /\ obj[k].spec.cluster \in Clusters
                                              /\ NameOf(k, obj[k].spec) \in Names
         /\ pc # "idle" => key \in Keys /\ seen.spec \in Specs /\ Home \in Clusters /\ Name \in Names
         /\ \A c \in Clusters, n \in Names : rows[c][n] # NoObj => rows[c][n].pw \in Nat
<1>1. \A k \in Keys : obj[k] # NoObj => obj[k] \in Objects(VersionedStatus)
  BY SharedTypesOK DEF DependentTypeOK, Maybe
<1>2. \A c \in Clusters, n \in Names : rows[c][n] # NoObj => rows[c][n].pw \in Nat
  BY SharedTypesOK DEF RolesOK, Maybe, Roles
<1>3. pc # "idle" => key \in Keys /\ seen.spec \in Specs /\ Home \in Clusters /\ Name \in Names
  BY SharedTypesOK, Halves, SeenTypes
<1> QED
  BY <1>1, <1>2, <1>3, ObjectTypes

\* The same in the next state.
LEMMA NextPlaceTypes ==
  ASSUME TypeOK'
  PROVE  /\ \A k \in Keys : obj'[k] # NoObj => /\ obj'[k].spec.cluster \in Clusters
                                               /\ NameOf(k, obj'[k].spec) \in Names
         /\ \A c \in Clusters, n \in Names : rows'[c][n] # NoObj => rows'[c][n].pw \in Nat
<1>1. \A k \in Keys : obj'[k] # NoObj => obj'[k] \in Objects(VersionedStatus)
  BY DEF TypeOK, DependentTypeOK, Maybe
<1>2. \A c \in Clusters, n \in Names : rows'[c][n] # NoObj => rows'[c][n].pw \in Nat
  BY DEF TypeOK, Maybe, Roles
<1> QED
  BY <1>1, <1>2, ObjectTypes

\* The role of an object keeps its password, and the object its version.
LEMMA NotedKept ==
  ASSUME TypeOK, TypeOK', PwInv, PasswordsKept, StatusesKept
  PROVE  PwInv'
<1> SUFFICES ASSUME NEW k \in Keys, obj'[k] # NoObj, obj'[k].spec.secret, RowOf(k)' # NoObj
             PROVE  RowOf(k)'.pw >= obj'[k].status.version
  BY DEF PwInv, Noted
<1> DEFINE c == obj'[k].spec.cluster
           n == NameOf(k, obj'[k].spec)
<1>1. /\ c \in Clusters /\ n \in Names /\ rows'[c][n] # NoObj /\ rows'[c][n].pw \in Nat
      /\ RowOf(k)' = rows'[c][n]
  BY NextPlaceTypes DEF RowOf, NameOf
<1>2. rows[c][n] # NoObj /\ rows'[c][n].pw = rows[c][n].pw
  BY <1>1 DEF PasswordsKept
<1>3. CASE obj'[k].status.version = 0
  <2>1. RowOf(k)'.pw \in Nat
    BY <1>1
  <2> QED
    BY <1>3, <2>1
<1>4. CASE /\ obj[k] # NoObj
           /\ obj'[k].status.version = obj[k].status.version
           /\ obj'[k].spec.cluster = obj[k].spec.cluster /\ obj'[k].spec.name = obj[k].spec.name
           /\ obj'[k].spec.secret = obj[k].spec.secret
  <2>1. obj[k].spec.cluster = c /\ NameOf(k, obj[k].spec) = n
    BY <1>4 DEF NameOf
  <2>2. rows[c][n].pw >= obj[k].status.version
    BY <1>2, <1>4, <2>1 DEF PwInv, Noted, RowOf
  <2> QED
    BY <1>1, <1>2, <1>4, <2>2
<1> QED
  BY <1>3, <1>4 DEF StatusesKept

\* Steps that write no password and note no version.
LEMMA QuietPasswords ==
  ASSUME TypeOK, TypeOK', PasswordInv, PasswordsKept, StatusesKept, GoesOn,
         pc' # "idle" => UNCHANGED read
  PROVE  PasswordInv'
<1>1. PwInv'
  BY NotedKept DEF PasswordInv
<1>2. CASE pc' = "idle"
  BY <1>1, <1>2 DEF PasswordInv, ReadInv, HandInv
<1>3. CASE pc' # "idle"
  <2>1. /\ pc # "idle" /\ UNCHANGED <<key, seen, read>> /\ next'.version = next.version
        /\ Home' = Home /\ Name' = Name /\ Version' = Version
    BY <1>3 DEF GoesOn, Home, Name, NameOf, Version
  <2>2. Home \in Clusters /\ Name \in Names /\ Row = rows[Home][Name] /\ Row' = rows'[Home][Name]
    BY <2>1, PlaceTypes DEF Row
  <2>3. Row' # NoObj => Row # NoObj /\ Row'.pw = Row.pw
    BY <2>2 DEF PasswordsKept
  <2>4. ReadInv'
    BY <1>3, <2>1 DEF PasswordInv, ReadInv, GoesOn
  <2>5. HandInv'
    BY <1>3, <2>1, <2>3 DEF PasswordInv, HandInv, GoesOn
  <2> QED
    BY <1>1, <2>4, <2>5 DEF PasswordInv
<1> QED
  BY <1>2, <1>3

\* A reconcile that cannot go on reports it and notes nothing, or ends.
LEMMA EndsGoOn ==
  ASSUME TypeOK, pc # "idle", NEW reason, Finish(reason) \/ Blocked(reason) \/ Error
  PROVE  GoesOn /\ (pc' = "idle" \/ (pc' = "status" /\ UNCHANGED <<key, seen>>
                                       /\ next'.version = next.version))
<1>1. next \in VersionedStatus
  BY SharedTypesOK, Halves, SeenTypes
<1>2. CASE pc' = "idle"
  BY <1>2 DEF GoesOn
<1>3. CASE \E r : Finish(r)
  <2>1. pc' = "status" /\ UNCHANGED <<key, seen>> /\ next'.version = next.version
    BY <1>1, <1>3 DEF Finish, VersionedStatus
  <2> QED
    BY <2>1 DEF GoesOn
<1> QED
  BY <1>2, <1>3 DEF Blocked, Error, Again, Idle

\* A step that changes neither the objects nor a password.
LEMMA QuietStatuses ==
  ASSUME TypeOK, UNCHANGED obj \/ StatusesKept, \A k \in Keys : cache'[k] \in {cache[k], obj'[k]},
         GoesOn
  PROVE  StatusesKept /\ StatusesFollow
<1>1. StatusesKept
  BY DEF StatusesKept
<1>2. pc' # "idle" => pc # "idle" /\ UNCHANGED seen /\ next'.version = next.version
  BY DEF GoesOn
<1> QED
  BY <1>1, <1>2 DEF StatusesKept, StatusesFollow

\* What the users do to the statuses.
LEMMA UserStatuses ==
  ASSUME TypeOK, EditsKeepHome, EditsKeepSecret, NEW k \in Keys,
         Create(k, NewStatus) \/ Edit(k) \/ Delete(k) \/ Deliver(k)
  PROVE  StatusesKept
<1>1. obj \in [Keys -> Maybe(Objects(VersionedStatus))]
  BY SharedTypesOK DEF DependentTypeOK
<1>2. CASE Create(k, NewStatus)
  <2>1. PICK s \in Specs : Put(k, [uid |-> uids + 1, gen |-> 1, spec |-> s, finalizer |-> FALSE,
                                   deleting |-> FALSE, status |-> NewStatus])
    BY <1>2 DEF Create
  <2> DEFINE o == [uid |-> uids + 1, gen |-> 1, spec |-> s, finalizer |-> FALSE,
                   deleting |-> FALSE, status |-> NewStatus]
  <2>2. o.status.version = 0
    BY DEF NewStatus
  <2>3. obj' = [obj EXCEPT ![k] = o]
    BY <2>1 DEF Put
  <2> HIDE DEF o
  <2> QED
    BY <1>1, <2>2, <2>3 DEF StatusesKept
<1>3. CASE Edit(k)
  <2>1. PICK s \in Specs :
          MayEdit(obj[k].spec, s) /\ Put(k, [obj[k] EXCEPT !.spec = s, !.gen = @ + 1])
    BY <1>3 DEF Edit
  <2>2. obj[k] # NoObj /\ obj[k] \in Objects(VersionedStatus) /\ MaxEdits # 0
    <3>1. obj[k] # NoObj /\ edits < MaxEdits
      BY <1>3 DEF Edit
    <3>2. edits \in Nat /\ MaxEdits \in Nat
      BY SharedTypesOK, DependentAssumption DEF DependentTypeOK
    <3> QED
      BY <1>1, <3>1, <3>2 DEF Maybe
  <2> DEFINE o == [obj[k] EXCEPT !.spec = s, !.gen = @ + 1]
  <2>3. o.status = obj[k].status /\ o.spec = s /\ obj[k].spec \in Specs
    BY <2>2 DEF Objects
  <2>4. obj' = [obj EXCEPT ![k] = o]
    BY <2>1 DEF Put
  <2> HIDE DEF o
  <2>5. s.cluster = obj[k].spec.cluster /\ s.name = obj[k].spec.name /\ s.secret = obj[k].spec.secret
    BY <2>1, <2>2, <2>3 DEF EditsKeepHome, EditsKeepSecret
  <2> QED
    BY <1>1, <2>2, <2>3, <2>4, <2>5 DEF StatusesKept
<1>4. CASE Delete(k)
  <2> DEFINE d == [obj[k] EXCEPT !.deleting = TRUE, !.gen = @ + 1]
             o == IF obj[k].finalizer THEN d ELSE NoObj
  <2>1. obj[k] # NoObj /\ obj[k] \in Objects(VersionedStatus)
    BY <1>1, <1>4 DEF Delete, Maybe
  <2>2. d.status = obj[k].status /\ d.spec = obj[k].spec
    BY <2>1 DEF Objects
  <2>3. obj' = [obj EXCEPT ![k] = o]
    BY <1>4 DEF Delete, Put
  <2> HIDE DEF d
  <2> QED
    BY <1>1, <2>1, <2>2, <2>3 DEF StatusesKept
<1>5. CASE Deliver(k)
  BY <1>5 DEF Deliver, StatusesKept
<1> QED
  BY <1>2, <1>3, <1>4, <1>5

\* What others do to the passwords: nothing, but roles may go.
LEMMA OthersPasswords ==
  ASSUME TypeOK,
         \/ \E k \in Keys : Create(k, NewStatus)
         \/ \E c \in Clusters, n \in Names : HandAlter(c, n)
         \/ Surroundings \/ Hold \/ LetGo
  PROVE  PasswordsKept
<1>1. RolesOK
  BY SharedTypesOK
<1>2. CASE \E c \in Clusters, n \in Names : HandAlter(c, n)
  <2>1. PICK c \in Clusters, n \in Names : HandAlter(c, n)
    BY <1>2
  <2>2. PICK login \in BOOLEAN, groups \in SUBSET Groups :
          /\ rows[c][n] # NoObj
          /\ rows' = [rows EXCEPT ![c][n].login = login, ![c][n].groups = groups]
    BY <2>1 DEF HandAlter
  <2> DEFINE r == [rows[c][n] EXCEPT !.login = login, !.groups = groups]
  <2>3. rows' = [rows EXCEPT ![c][n] = r]
    BY <1>1, <2>2 DEF RolesOK
  <2>4. r.pw = rows[c][n].pw
    <3>1. rows[c][n] \in Roles
      BY <1>1, <2>2 DEF RolesOK, Maybe
    <3> QED
      BY <3>1 DEF Roles
  <2> HIDE DEF r
  <2> QED
    BY <1>1, <2>2, <2>3, <2>4 DEF RolesOK, PasswordsKept
<1>3. CASE UNCHANGED rows
  BY <1>3 DEF PasswordsKept
<1>4. ASSUME NEW c \in Clusters, RemoveDb(c)
      PROVE  PasswordsKept
  BY <1>1, <1>4 DEF RemoveDb, RolesOK, PasswordsKept
<1>5. ASSUME NEW c \in Clusters, NEW n \in Names, HandDrop(c, n)
      PROVE  PasswordsKept
  BY <1>1, <1>5 DEF HandDrop, RolesOK, PasswordsKept
<1>6. ASSUME NEW c \in Clusters,
             DeliverDb(c) \/ CreateDb(c) \/ Serve(c) \/ Outage(c) \/ DeleteDb(c)
      PROVE  UNCHANGED rows
  BY <1>6 DEF DeliverDb, CreateDb, Serve, Outage, DeleteDb, server
<1>7. ASSUME NEW k \in Keys, Create(k, NewStatus) \/ Edit(k) \/ Delete(k) \/ Deliver(k)
      PROVE  UNCHANGED rows
  BY <1>7 DEF Create, Edit, Delete, Deliver, server
<1>8. Hold \/ LetGo => UNCHANGED rows
  BY DEF Hold, LetGo
<1> QED
  BY <1>2, <1>3, <1>4, <1>5, <1>6, <1>7, <1>8 DEF Surroundings

\* The invariants of the passwords and their versions.
NotedInv == CoreInv /\ ChainInv /\ VersionsInv /\ PasswordInv

\* How they are preserved by a quiet step.
LEMMA QuietNoted ==
  ASSUME TypeOK, TypeOK', NotedInv, CoreInv',
         \A k \in Keys : cache'[k] \in {cache[k], obj'[k]},
         UNCHANGED obj \/ StatusesKept, PasswordsKept, GoesOn,
         UNCHANGED secrets, read' = IF pc' = "idle" THEN NoObj ELSE read
  PROVE  NotedInv'
<1>1. StatusesKept /\ StatusesFollow
  BY QuietStatuses
<1>2. ChainInv' /\ Latest <= Latest'
  BY LatestGrows DEF NotedInv
<1>3. VersionsInv'
  BY <1>1, <1>2, VersionsKept DEF NotedInv
<1>4. PasswordInv'
  BY <1>1, QuietPasswords DEF NotedInv
<1> QED
  BY <1>2, <1>3, <1>4 DEF NotedInv

\* Everybody else.
LEMMA OthersNoted ==
  ASSUME TypeOK, TypeOK', NotedInv, EditsKeepHome, EditsKeepSecret,
         \/ \E k \in Keys : Create(k, NewStatus)
         \/ \E c \in Clusters, n \in Names : HandAlter(c, n)
         \/ Surroundings \/ Hold \/ LetGo,
         UNCHANGED secrets, read' = IF pc' = "idle" THEN NoObj ELSE read
  PROVE  NotedInv'
<1>1. /\ CoreInv' /\ UNCHANGED <<pc, key, seen, next>>
      /\ \A k \in Keys : cache'[k] \in {cache[k], obj'[k]}
  BY OthersCore DEF NotedInv
<1>2. PasswordsKept
  BY OthersPasswords
<1>3. GoesOn
  <2>1. pc \in {"exists", "create", "alter"} => ~seen.deleting
    BY DEF NotedInv, CoreInv, PathInv, LiveSteps
  <2> QED
    BY <1>1, <2>1 DEF GoesOn
<1>4. UNCHANGED obj \/ StatusesKept
  <2>1. CASE \E k \in Keys : Create(k, NewStatus) \/ Edit(k) \/ Delete(k) \/ Deliver(k)
    BY <2>1, UserStatuses
  <2>2. ASSUME NEW c \in Clusters,
               DeliverDb(c) \/ CreateDb(c) \/ Serve(c) \/ Outage(c) \/ DeleteDb(c) \/ RemoveDb(c)
        PROVE  UNCHANGED obj
    BY <2>2 DEF DeliverDb, CreateDb, Serve, Outage, DeleteDb, RemoveDb, api
  <2>3. ASSUME NEW c \in Clusters, NEW n \in Names, HandDrop(c, n) \/ HandAlter(c, n)
        PROVE  UNCHANGED obj
    BY <2>3 DEF HandDrop, HandAlter, api
  <2>4. Hold \/ LetGo => UNCHANGED obj
    BY DEF Hold, LetGo, api
  <2> QED
    BY <2>1, <2>2, <2>3, <2>4 DEF Surroundings
<1> QED
  BY <1>1, <1>2, <1>3, <1>4, QuietNoted

\* The finalizer comes and goes without a word on the password.
LEMMA FinalizerNoted ==
  ASSUME TypeOK, TypeOK', NotedInv, ensureFinalizer \/ removeFinalizer,
         UNCHANGED secrets, read' = IF pc' = "idle" THEN NoObj ELSE read
  PROVE  NotedInv'
<1>1. /\ CoreInv' /\ \A k \in Keys : cache'[k] \in {cache[k], obj'[k]}
  BY SharedStepCore DEF NotedInv
<1>2. PasswordsKept
  BY DEF ensureFinalizer, removeFinalizer, Update, server, PasswordsKept
<1>3. GoesOn
  BY SharedTypesOK, ensureFinalizerTypes, removeFinalizerTypes DEF GoesOn
<1>4. StatusesKept
  <2> DEFINE g == [seen EXCEPT !.finalizer = TRUE]
  <2>1. /\ key \in Keys /\ seen \in Objects(VersionedStatus)
        /\ obj \in [Keys -> Maybe(Objects(VersionedStatus))]
    BY SharedTypesOK, Halves, SeenTypes DEF ensureFinalizer, removeFinalizer, WorldOK
  <2>2. g.status = seen.status /\ g.spec = seen.spec /\ seen # NoObj
    BY <2>1, SharedTypesOK DEF Objects, StatusSet
  <2>3. \/ UNCHANGED obj
        \/ obj[key] = seen /\ obj' = [obj EXCEPT ![key] = g]
        \/ obj' = [obj EXCEPT ![key] = NoObj]
    BY DEF ensureFinalizer, removeFinalizer, Update, Put, api
  <2> HIDE DEF g
  <2> QED
    BY <2>1, <2>2, <2>3 DEF StatusesKept
<1> QED
  BY <1>1, <1>2, <1>3, <1>4, QuietNoted

\* Nor do the other shared steps, and the query of apply, have one.
LEMMA WayNoted ==
  ASSUME TypeOK, TypeOK', NotedInv, NEW wanted,
         \/ finalize(wanted) \/ dropRole
         \/ openSession(IF seen.deleting THEN "dropExists" ELSE "exists")
         \/ GetFails({"finalize", "connect"}) \/ readFails
         \/ exists,
         UNCHANGED secrets, read' = IF pc' = "idle" THEN NoObj ELSE read
  PROVE  NotedInv'
<1>1. /\ CoreInv' /\ \A k \in Keys : cache'[k] \in {cache[k], obj'[k]}
  BY SharedStepCore, StatementCore DEF NotedInv, CopiesKept, CopiesKeptBut
<1>2. UNCHANGED obj /\ pc # "idle"
  BY DEF finalize, dropRole, dropExists, drop, openSession, exists, GetFails, readFails,
         Query, Exec, Refused, api
<1>3. PasswordsKept
  <2>1. CASE drop
    <3>1. RolesOK /\ DependentTypeOK(VersionedStatus)
      BY SharedTypesOK
    <3>2. UNCHANGED rows \/ rows' = With(NoObj)
      BY <2>1 DEF drop, Exec, Refused, server
    <3>3. rows' = With(NoObj) => \A c \in Clusters, n \in Names :
                                   rows'[c][n] = IF c = Home /\ n = Name THEN NoObj ELSE rows[c][n]
      BY <1>2, <3>1, WithEffect DEF RolesOK
    <3> QED
      BY <3>2, <3>3 DEF PasswordsKept
  <2>2. CASE ~drop
    <3>1. UNCHANGED rows
      BY <2>2 DEF finalize, dropRole, dropExists, openSession, exists, GetFails, readFails,
                  Query, Exec, Refused, server
    <3> QED
      BY <3>1 DEF PasswordsKept
  <2> QED
    BY <2>1, <2>2
<1>4. GoesOn
  <2>1. ASSUME NEW reason, Finish(reason) \/ Blocked(reason) \/ Error
        PROVE  GoesOn
    BY <1>2, <2>1, EndsGoOn
  <2>2. CASE finalize(wanted)
    <3>1. seen.deleting /\ pc = "finalize"
      BY <2>2 DEF finalize, NotedInv, CoreInv, PathInv, DeletingSteps
    <3> QED
      BY <2>2, <3>1 DEF finalize, Goto, GoesOn
  <2>3. CASE dropExists \/ drop
    BY <2>1, <2>3 DEF dropExists, drop, Query, Exec, Refused, Goto, GoesOn
  <2>4. CASE openSession(IF seen.deleting THEN "dropExists" ELSE "exists")
    <3> DEFINE d == dbCache[Home]
               reason == CASE d = NoObj             -> "ClusterNotFound"
                           [] d # NoObj /\ ~d.ready -> "ClusterNotReady"
                           [] OTHER                 -> reach[Home]
    <3>1. pc = "connect"
      BY <2>4 DEF openSession
    <3>2. \/ /\ pc' = IF seen.deleting THEN "dropExists" ELSE "exists"
             /\ UNCHANGED <<key, seen, next>>
          \/ Blocked(reason)
      BY <2>4 DEF openSession
    <3> HIDE DEF reason
    <3> QED
      BY <2>1, <3>1, <3>2 DEF GoesOn
  <2>5. CASE GetFails({"finalize", "connect"}) \/ readFails
    BY <2>1, <2>5 DEF GetFails, readFails
  <2>6. CASE exists
    <3>1. ~seen.deleting /\ pc = "exists"
      BY <2>6 DEF exists, NotedInv, CoreInv, PathInv, LiveSteps
    <3> QED
      BY <2>1, <2>6, <3>1 DEF exists, Query, Exec, Goto, GoesOn
  <2> QED
    BY <2>2, <2>3, <2>4, <2>5, <2>6 DEF dropRole
<1> QED
  BY <1>1, <1>2, <1>3, <1>4, QuietNoted

\* A reconcile begins with the version its copy notes.
LEMMA BeginNoted ==
  ASSUME TypeOK, TypeOK', NotedInv, NEW k \in Keys, Begin(k, "secret"),
         UNCHANGED secrets, read' = IF pc' = "idle" THEN NoObj ELSE read
  PROVE  NotedInv'
<1>1. /\ CoreInv' /\ \A j \in Keys : cache'[j] \in {cache[j], obj'[j]}
  BY SharedStepCore DEF NotedInv
<1>2. UNCHANGED <<obj, cache, rows>> /\ pc = "idle"
  BY DEF Begin, api, server
<1>3. CASE pc' = "idle"
  BY <1>1, <1>2, <1>3, QuietNoted DEF GoesOn, PasswordsKept
<1>4. CASE pc' # "idle"
  <2>1. /\ cache[k] # NoObj /\ seen' = cache[k] /\ next' = seen'.status
        /\ pc' \in {"finalize", "guard", "secret"}
    BY <1>2, <1>4 DEF Begin, worker
  <2>2. StatusesFollow
    BY <1>2, <2>1 DEF StatusesFollow
  <2>3. ChainInv' /\ Latest <= Latest'
    BY LatestGrows DEF NotedInv
  <2>4. VersionsInv'
    BY <2>2, <2>3, VersionsKept DEF NotedInv
  <2>5. ReadInv' /\ HandInv'
    BY <2>1 DEF ReadInv, HandInv
  <2>6. PwInv'
    BY <1>2, NotedKept DEF NotedInv, PasswordInv, PasswordsKept, StatusesKept
  <2> QED
    BY <1>1, <2>3, <2>4, <2>5, <2>6 DEF NotedInv, PasswordInv
<1> QED
  BY <1>3, <1>4

\* It reads the newest version there is.
LEMMA passwordNoted ==
  ASSUME TypeOK, TypeOK', NotedInv, password
  PROVE  NotedInv'
<1>1. /\ CoreInv' /\ CopiesKept /\ UNCHANGED <<api, uids, rows, key, seen>>
      /\ pc = "secret" /\ ~seen.deleting /\ pc' \in {"connect", "status"}
      /\ next'.version = next.version
  BY passwordCore DEF NotedInv
<1>2. /\ UNCHANGED secrets /\ read' \in {NoObj, secretCache}
      /\ pc' = "connect" /\ seen.spec.secret => read' # NoObj
  BY DEF password, readSecret, Finish, Goto
<1>3. ChainInv' /\ Latest <= Latest'
  BY <1>2, LatestGrows DEF NotedInv
<1>4. StatusesFollow
  BY <1>1 DEF StatusesFollow, api
<1>5. VersionsInv'
  BY <1>3, <1>4, VersionsKept DEF NotedInv
<1>6. PwInv'
  BY <1>1, NotedKept DEF NotedInv, PasswordInv, PasswordsKept, StatusesKept, api
<1>7. HandInv'
  BY <1>1 DEF NotedInv, PasswordInv, HandInv
<1>8. ReadInv'
  BY <1>1, <1>2 DEF ReadInv
<1> QED
  BY <1>1, <1>3, <1>5, <1>6, <1>7, <1>8 DEF NotedInv, PasswordInv

\* The password a statement leaves in the role.
LEMMA renderPassword ==
  ASSUME TypeOK, NEW role \in Roles, NEW present \in BOOLEAN
  PROVE  render(role, present).pw = IF withPassword(present) THEN Version ELSE role.pw
BY DEF render, Roles

\* CREATE ROLE sets the password that was read, ALTER ROLE unless it is noted.
LEMMA StatementPassword ==
  ASSUME TypeOK, create \/ alter, ~(UNCHANGED rows /\ Error)
  PROVE  \E r \in Roles :
           /\ \A c \in Clusters, n \in Names :
                rows'[c][n] = IF c = Home /\ n = Name THEN r ELSE rows[c][n]
           /\ read # NoObj /\ Version # seen.status.version => r.pw = Version
           /\ read # NoObj => r.pw = Version \/ (Row # NoObj /\ r.pw = Row.pw)
<1>1. RolesOK /\ DependentTypeOK(VersionedStatus) /\ pc # "idle"
  BY SharedTypesOK DEF create, alter
<1>2. ASSUME NEW r, rows' = With(r)
      PROVE  \A c \in Clusters, n \in Names :
               rows'[c][n] = IF c = Home /\ n = Name THEN r ELSE rows[c][n]
  BY <1>1, <1>2, WithEffect DEF RolesOK
<1>3. CASE create
  <2> DEFINE new == [login |-> FALSE, until |-> "", pw |-> 0, groups |-> {}]
             r   == render(new, FALSE)
  <2>1. new \in Roles
    <3>1. "" \in Untils
      BY DEF Untils
    <3> QED
      BY <3>1 DEF Roles
  <2>2. rows' = With(r)
    BY <1>3 DEF create, Exec, Refused, server, CreateRole
  <2> HIDE DEF new
  <2>3. r \in Roles /\ r.pw = IF withPassword(FALSE) THEN Version ELSE new.pw
    BY <1>1, <2>1, renderTypes, renderPassword
  <2> HIDE DEF r
  <2>4. read # NoObj => r.pw = Version
    BY <2>3 DEF withPassword
  <2> QED
    BY <1>2, <2>2, <2>3, <2>4
<1>4. CASE alter
  <2> DEFINE r == render(Row, TRUE)
  <2>1. rows' = With(r) /\ Row # NoObj
    BY <1>4 DEF alter, Exec, Refused, server, AlterRole
  <2>2. Row \in Roles
    BY <1>1, <2>1, RowTypes
  <2>3. r \in Roles /\ r.pw = IF withPassword(TRUE) THEN Version ELSE Row.pw
    BY <1>1, <2>2, renderTypes, renderPassword
  <2> HIDE DEF r
  <2> QED
    BY <1>2, <2>1, <2>3 DEF withPassword
<1> QED
  BY <1>3, <1>4

\* The object in hand is the one that was read, in its place.
LEMMA InHand ==
  ASSUME TypeOK, CoreInv, EditsKeepHome, EditsKeepSecret, pc \in LiveSteps \ {"guard"}
  PROVE  /\ pc # "idle" /\ key \in Keys /\ obj[key] # NoObj
         /\ obj[key].spec.cluster = Home /\ NameOf(key, obj[key].spec) = Name
         /\ obj[key].spec.secret = seen.spec.secret
<1>1. pc # "idle" /\ ~seen.deleting /\ seen.finalizer
  BY DEF CoreInv, PathInv, LiveSteps
<1>2. seen # NoObj /\ key \in Keys
  BY <1>1, SharedTypesOK, Halves, SeenTypes DEF StatusSet
<1>3. Copy(seen, obj[key], uids)
  BY <1>1 DEF CoreInv, CopiesInv
<1>4. obj[key] # NoObj /\ Evolves(seen, obj[key])
  BY <1>1, <1>2, <1>3 DEF Copy
<1> QED
  BY <1>1, <1>2, <1>4 DEF Evolves, Home, Name, NameOf

\* CREATE ROLE and ALTER ROLE.
LEMMA StatementNoted ==
  ASSUME TypeOK, TypeOK', NotedInv, OwnRows, EditsKeepHome, EditsKeepSecret, create \/ alter,
         UNCHANGED secrets, read' = IF pc' = "idle" THEN NoObj ELSE read
  PROVE  NotedInv'
<1>1. /\ CoreInv' /\ CopiesKept /\ UNCHANGED <<api, uids, key, seen>>
      /\ pc \in {"create", "alter"}
  BY StatementCore DEF NotedInv, create, alter
<1>2. pc' \in {"members", "status"} /\ next'.version = next.version
  <2>1. Error => pc' = "status" /\ next'.version = next.version
    <3>1. ~seen.deleting
      BY <1>1 DEF NotedInv, CoreInv, PathInv, LiveSteps
    <3>2. next \in VersionedStatus
      BY <1>1, SharedTypesOK, Halves, SeenTypes
    <3> QED
      BY <3>1, <3>2 DEF Error, Blocked, Finish, VersionedStatus
  <2>2. Goto("members") => pc' = "members" /\ next'.version = next.version
    BY DEF Goto
  <2> QED
    BY <2>1, <2>2 DEF create, alter, Exec, Refused
<1>3. ChainInv' /\ Latest <= Latest' /\ UNCHANGED read
  BY <1>2, LatestGrows DEF NotedInv
<1>4. VersionsInv'
  <2>1. StatusesFollow
    BY <1>1, <1>2 DEF StatusesFollow, api
  <2> QED
    BY <1>3, <2>1, VersionsKept DEF NotedInv
<1>5. ReadInv'
  BY <1>1, <1>2, <1>3 DEF NotedInv, PasswordInv, ReadInv
<1>6. next.version = seen.status.version /\ (seen.spec.secret => read # NoObj)
  BY <1>1 DEF NotedInv, PasswordInv, HandInv, ReadInv
<1>7. CASE UNCHANGED rows /\ Error
  <2>1. GoesOn
    BY <1>1, <1>7, EndsGoOn
  <2> QED
    BY <1>1, <1>7, <2>1, QuietNoted DEF PasswordsKept, CopiesKept, CopiesKeptBut, api
<1>8. CASE ~(UNCHANGED rows /\ Error)
  <2>1. PICK r \in Roles :
          /\ \A c \in Clusters, n \in Names :
               rows'[c][n] = IF c = Home /\ n = Name THEN r ELSE rows[c][n]
          /\ read # NoObj /\ Version # seen.status.version => r.pw = Version
          /\ read # NoObj => r.pw = Version \/ (Row # NoObj /\ r.pw = Row.pw)
    BY <1>8, StatementPassword
  <2>2. r.pw \in Nat /\ Version \in Nat /\ (read # NoObj => Version = Latest)
        /\ (read = NoObj => Version = 0)
    BY SharedTypesOK, SecretTypes DEF Roles, Latest
  <2>3. Home \in Clusters /\ Name \in Names /\ key \in Keys /\ seen.spec \in Specs
    BY <1>1, PlaceTypes
  <2>4. HandInv'
    <3>1. Row' = r /\ Version' = Version
      BY <1>1, <1>3, <2>1, <2>3 DEF Row, Home, Name, NameOf, Version
    <3>2. Version # seen.status.version => r.pw >= Version
      BY <2>1, <2>2
    <3> QED
      BY <1>1, <1>2, <1>6, <3>1, <3>2 DEF HandInv
  <2>5. PwInv'
    <3> SUFFICES ASSUME NEW k \in Keys, obj[k] # NoObj, obj[k].spec.secret, RowOf(k)' # NoObj
                 PROVE  RowOf(k)'.pw >= obj[k].status.version
      BY <1>1 DEF PwInv, Noted, api
    <3> DEFINE c == obj[k].spec.cluster
               n == NameOf(k, obj[k].spec)
    <3>1. c \in Clusters /\ n \in Names /\ obj[k].spec \in Specs /\ RowOf(k)' = rows'[c][n]
      BY <1>1, PlaceTypes DEF RowOf, NameOf, api
    <3>2. CASE c = Home /\ n = Name
      <4>1. k = key
        BY <2>3, <3>1, <3>2 DEF OwnRows, Home, Name
      <4>2. read # NoObj /\ Row = RowOf(k)
        <5>1. pc \in LiveSteps \ {"guard"}
          BY <1>1 DEF LiveSteps
        <5>2. seen.spec.secret
          BY <4>1, <5>1, InHand DEF NotedInv
        <5> QED
          BY <1>6, <3>2, <5>2 DEF Row, RowOf
      <4>3. Version >= obj[k].status.version /\ obj[k].status.version \in Nat
        BY <2>2, <4>2, StatusTypes DEF NotedInv, VersionsInv
      <4>4. Row # NoObj => Row.pw >= obj[k].status.version
        BY <4>2 DEF NotedInv, PasswordInv, PwInv, Noted
      <4>5. r.pw >= obj[k].status.version
        BY <2>1, <4>2, <4>3, <4>4
      <4> QED
        BY <2>1, <3>1, <3>2, <4>5
    <3>3. CASE ~(c = Home /\ n = Name)
      <4>1. RowOf(k)' = RowOf(k)
        BY <2>1, <3>1, <3>3 DEF RowOf
      <4> QED
        BY <4>1 DEF NotedInv, PasswordInv, PwInv, Noted
    <3> QED
      BY <3>2, <3>3
  <2> QED
    BY <1>1, <1>3, <1>4, <1>5, <2>4, <2>5 DEF NotedInv, PasswordInv
<1> QED
  BY <1>7, <1>8

\* The memberships keep the password; the version is noted once they are done.
LEMMA convergeNoted ==
  ASSUME TypeOK, TypeOK', NotedInv, converge,
         UNCHANGED secrets, read' = IF pc' = "idle" THEN NoObj ELSE read
  PROVE  NotedInv'
<1>1. /\ CoreInv' /\ CopiesKept /\ UNCHANGED <<api, uids, key, seen>>
      /\ pc \in {"members", "grant", "revoke"}
      /\ pc' \in {"create", "alter", "members", "grant", "revoke", "status"}
  BY StatementCore DEF NotedInv, converge
<1>2. PasswordsKept
  <2>1. RolesOK /\ DependentTypeOK(VersionedStatus)
    BY SharedTypesOK
  <2>2. \/ UNCHANGED rows
        \/ Row # NoObj /\ \E g : rows' = GrantMembership(g) \/ rows' = RevokeMembership(g)
    BY DEF converge, Query, Exec, Refused, server
  <2>3. ASSUME NEW r, rows' = With(r), Row # NoObj, r.pw = Row.pw
        PROVE  PasswordsKept
    <3>1. \A c \in Clusters, n \in Names :
            rows'[c][n] = IF c = Home /\ n = Name THEN r ELSE rows[c][n]
      BY <1>1, <2>1, <2>3, WithEffect DEF RolesOK
    <3> QED
      BY <2>3, <3>1 DEF PasswordsKept, Row
  <2>4. ASSUME NEW g, Row # NoObj
        PROVE  /\ [Row EXCEPT !.groups = @ \cup {g}].pw = Row.pw
               /\ [Row EXCEPT !.groups = @ \ {g}].pw = Row.pw
    BY <1>1, <2>4, RowTypes DEF Roles
  <2>5. CASE UNCHANGED rows
    BY <2>5 DEF PasswordsKept
  <2>6. CASE Row # NoObj /\ \E g : rows' = GrantMembership(g)
    BY <2>3, <2>4, <2>6 DEF GrantMembership
  <2>7. CASE Row # NoObj /\ \E g : rows' = RevokeMembership(g)
    BY <2>3, <2>4, <2>7 DEF RevokeMembership
  <2> QED
    BY <2>2, <2>5, <2>6, <2>7
<1>3. \/ GoesOn
      \/ pc' = "status" /\ next'.version = Version
  <2>1. Error => GoesOn
    BY <1>1, EndsGoOn
  <2>2. ASSUME NEW now, Converge(now)
        PROVE  GoesOn \/ (pc' = "status" /\ next'.version = Version)
    BY <1>1, <2>2 DEF Converge, Goto, FinishApplied, GoesOn
  <2> QED
    BY <2>1, <2>2 DEF converge, Query, Exec, Refused
<1>4. CASE GoesOn
  BY <1>1, <1>2, <1>4, QuietNoted DEF CopiesKept, CopiesKeptBut, api
<1>5. CASE pc' = "status" /\ next'.version = Version
  <2>1. ChainInv' /\ Latest <= Latest' /\ UNCHANGED read
    BY <1>5, LatestGrows DEF NotedInv
  <2>2. VersionsInv'
    <3>1. StatusesFollow
      BY <1>1, <1>5 DEF StatusesFollow, api
    <3> QED
      BY <2>1, <3>1, VersionsKept DEF NotedInv
  <2>3. PwInv'
    BY <1>1, <1>2, NotedKept DEF NotedInv, PasswordInv, StatusesKept, api
  <2>4. HandInv'
    <3>1. Home \in Clusters /\ Name \in Names /\ Home' = Home /\ Name' = Name
      BY <1>1, PlaceTypes DEF Home, Name, NameOf
    <3>2. Row = rows[Home][Name] /\ Row' = rows'[Home][Name]
      BY <3>1 DEF Row
    <3>3. Row' # NoObj => Row # NoObj /\ Row'.pw = Row.pw
      BY <1>2, <3>1, <3>2 DEF PasswordsKept
    <3> QED
      BY <1>1, <1>5, <3>3 DEF NotedInv, PasswordInv, HandInv
  <2>5. ReadInv'
    BY <1>5 DEF ReadInv
  <2> QED
    BY <1>1, <2>1, <2>2, <2>3, <2>4, <2>5 DEF NotedInv, PasswordInv
<1> QED
  BY <1>3, <1>4, <1>5

\* The version a patch leaves in the status of an object.
LEMMA PatchedVersion ==
  ASSUME TypeOK, pc # "idle", NEW o \in Objects(VersionedStatus)
  PROVE  /\ Patched(o).spec = o.spec
         /\ Patched(o).status.version = IF next.version # seen.status.version
                                        THEN next.version ELSE o.status.version
<1>1. next \in VersionedStatus
  BY SharedTypesOK, Halves, SeenTypes
<1>2. "version" \in DOMAIN next
  BY <1>1 DEF VersionedStatus
<1>3. Patched(o).status =
        [f \in DOMAIN next |-> IF next[f] # seen.status[f] THEN next[f] ELSE o.status[f]]
  BY DEF Patched, Objects
<1>4. Patched(o).status["version"] = IF next["version"] # seen.status["version"]
                                     THEN next["version"] ELSE o.status["version"]
  BY <1>2, <1>3
<1> QED
  BY <1>4, PatchedEvolves

\* The patch notes a version whose password is set.
LEMMA PatchNoted ==
  ASSUME TypeOK, TypeOK', NotedInv, EditsKeepHome, EditsKeepSecret, PatchStatus,
         UNCHANGED secrets, read' = IF pc' = "idle" THEN NoObj ELSE read
  PROVE  NotedInv'
<1>1. CoreInv' /\ \A k \in Keys : cache'[k] \in {cache[k], obj'[k]}
  BY SharedStepCore DEF NotedInv
<1>2. UNCHANGED rows /\ pc = "status" /\ pc' = "idle"
  BY SharedTypesOK, PatchStatusTypes DEF PatchStatus, server
<1>3. /\ key \in Keys /\ obj[key] # NoObj
      /\ obj[key].spec.cluster = Home /\ NameOf(key, obj[key].spec) = Name
  BY <1>2, InHand DEF NotedInv, LiveSteps
<1>4. obj \in [Keys -> Maybe(Objects(VersionedStatus))] /\ obj[key] \in Objects(VersionedStatus)
  BY <1>3, SharedTypesOK DEF DependentTypeOK, Maybe
<1> DEFINE p == Patched(obj[key])
<1>5. /\ p.spec = obj[key].spec
      /\ p.status.version = IF next.version # seen.status.version
                            THEN next.version ELSE obj[key].status.version
  BY <1>2, <1>4, PatchedVersion
<1>6. UNCHANGED obj \/ obj' = [obj EXCEPT ![key] = p]
  BY DEF PatchStatus, Put, api
<1> HIDE DEF p
<1>7. ChainInv' /\ Latest <= Latest'
  BY LatestGrows DEF NotedInv
<1>8. VersionsInv'
  <2>1. StatusesFollow
    BY <1>1, <1>2, <1>3, <1>4, <1>5, <1>6 DEF StatusesFollow
  <2> QED
    BY <1>7, <2>1, VersionsKept DEF NotedInv
<1>9. ReadInv' /\ HandInv'
  BY <1>2 DEF ReadInv, HandInv
<1>10. PwInv'
  <2> SUFFICES ASSUME NEW k \in Keys, obj'[k] # NoObj, obj'[k].spec.secret, RowOf(k)' # NoObj
               PROVE  RowOf(k)'.pw >= obj'[k].status.version
    BY DEF PwInv, Noted
  <2>1. CASE obj'[k] = obj[k]
    <3>1. RowOf(k)' = RowOf(k)
      BY <1>2, <2>1 DEF RowOf, NameOf
    <3> QED
      BY <2>1, <3>1 DEF NotedInv, PasswordInv, PwInv, Noted
  <2>2. CASE k = key /\ obj'[k] = p
    <3>1. RowOf(k)' = RowOf(k) /\ RowOf(k) = Row
      BY <1>2, <1>3, <1>5, <2>2 DEF RowOf, NameOf, Row
    <3>2. CASE next.version # seen.status.version
      <4>1. Row.pw >= next.version
        BY <1>2, <3>1, <3>2 DEF NotedInv, PasswordInv, HandInv
      <4> QED
        BY <1>5, <2>2, <3>1, <3>2, <4>1
    <3>3. CASE next.version = seen.status.version
      <4>1. RowOf(k).pw >= obj[k].status.version
        BY <1>3, <1>5, <2>2, <3>1 DEF NotedInv, PasswordInv, PwInv, Noted
      <4> QED
        BY <1>5, <2>2, <3>1, <3>3, <4>1
    <3> QED
      BY <3>2, <3>3
  <2> QED
    BY <1>4, <1>6, <2>1, <2>2
<1> QED
  BY <1>1, <1>7, <1>8, <1>9, <1>10 DEF NotedInv, PasswordInv

\* The user and the informer of the Secret, and steps that change nothing.
LEMMA SecretNoted ==
  ASSUME TypeOK, TypeOK', NotedInv,
         WriteSecret(Forms) \/ DeleteSecret \/ DeliverSecret \/ UNCHANGED vars
  PROVE  NotedInv'
<1>1. UNCHANGED <<api, server, worker, uids, read>>
  BY DEF WriteSecret, DeleteSecret, DeliverSecret, vars, base, budget
<1>2. CoreInv' /\ UNCHANGED <<obj, cache, rows, pc, key, seen, next>>
  BY <1>1, OthersCore DEF NotedInv, api, server, worker
<1>3. ChainInv' /\ Latest <= Latest'
  BY LatestGrows DEF NotedInv, vars
<1>4. VersionsInv'
  <2>1. StatusesFollow
    BY <1>2 DEF StatusesFollow
  <2> QED
    BY <1>3, <2>1, VersionsKept DEF NotedInv
<1>5. PasswordInv'
  BY <1>1, <1>2 DEF NotedInv, PasswordInv, ReadInv, HandInv, PwInv, Noted, RowOf, Row, Home, Name,
                    NameOf, Version
<1> QED
  BY <1>2, <1>3, <1>4, <1>5 DEF NotedInv

\* A restart.
LEMMA RestartNoted ==
  ASSUME TypeOK, TypeOK', NotedInv, RestartAll
  PROVE  NotedInv'
<1>1. /\ CoreInv' /\ pc' = "idle" /\ UNCHANGED <<obj, rows>>
      /\ \A k \in Keys : cache'[k] \in {cache[k], obj'[k]}
  BY RestartCore, SharedTypesOK, RestartTypes DEF NotedInv, RestartAll, Restart, server
<1>2. ChainInv' /\ Latest <= Latest'
  BY LatestGrows DEF NotedInv
<1>3. VersionsInv'
  <2>1. StatusesFollow
    BY <1>1 DEF StatusesFollow
  <2> QED
    BY <1>2, <2>1, VersionsKept DEF NotedInv
<1>4. PasswordInv'
  BY <1>1, QuietPasswords DEF NotedInv, GoesOn, PasswordsKept, StatusesKept
<1> QED
  BY <1>1, <1>2, <1>3, <1>4 DEF NotedInv

\* Every step preserves the invariants.
LEMMA NextNoted ==
  ASSUME TypeOK, TypeOK', NotedInv, OwnRows, EditsKeepHome, EditsKeepSecret, [Next]_roleVars
  PROVE  NotedInv'
<1>1. CASE UNCHANGED vars \/ WriteSecret(Forms) \/ DeleteSecret \/ DeliverSecret
  BY <1>1, SecretNoted
<1>2. CASE RestartAll
  BY <1>2, RestartNoted
<1>3. CASE password
  BY <1>3, passwordNoted
<1>4. ASSUME UNCHANGED secrets, read' = IF pc' = "idle" THEN NoObj ELSE read,
             \/ ensureFinalizer \/ removeFinalizer
             \/ finalize(seen.spec.reclaimPolicy = "Delete") \/ dropRole
             \/ openSession(IF seen.deleting THEN "dropExists" ELSE "exists")
             \/ GetFails({"finalize", "connect"}) \/ readFails
             \/ exists \/ create \/ alter \/ converge \/ PatchStatus
             \/ \E k \in Keys : Begin(k, "secret")
      PROVE  NotedInv'
  <2>1. CASE ensureFinalizer \/ removeFinalizer
    BY <1>4, <2>1, FinalizerNoted
  <2>2. CASE \/ finalize(seen.spec.reclaimPolicy = "Delete") \/ dropRole
             \/ openSession(IF seen.deleting THEN "dropExists" ELSE "exists")
             \/ GetFails({"finalize", "connect"}) \/ readFails
             \/ exists
    <3>1. PICK wanted : wanted = (seen.spec.reclaimPolicy = "Delete")
      OBVIOUS
    <3> QED
      BY <1>4, <2>2, <3>1, WayNoted
  <2>3. CASE create \/ alter
    BY <1>4, <2>3, StatementNoted
  <2>4. CASE converge
    BY <1>4, <2>4, convergeNoted
  <2>5. CASE PatchStatus
    BY <1>4, <2>5, PatchNoted
  <2>6. CASE \E k \in Keys : Begin(k, "secret")
    BY <1>4, <2>6, BeginNoted
  <2> QED
    BY <1>4, <2>1, <2>2, <2>3, <2>4, <2>5, <2>6
<1>5. ASSUME UNCHANGED secrets, read' = IF pc' = "idle" THEN NoObj ELSE read,
             \/ \E k \in Keys : Create(k, NewStatus)
             \/ \E c \in Clusters, n \in Names : HandAlter(c, n)
             \/ Surroundings \/ Hold \/ LetGo
      PROVE  NotedInv'
  BY <1>5, OthersNoted
<1> QED
  BY <1>1, <1>2, <1>3, <1>4, <1>5 DEF Next, Worker, Reconcile, Calm, Plain, roleVars

\* A role on a server never has an older password than the status of its object
\* says, for all objects, servers, lags, failures, restarts, rotations, roles dropped
\* or changed by hand and volumes that outlive their SereneDB, if no two objects share
\* a role and no edit moves one or adds or removes its passwordSecret.
THEOREM NotedPasswordHolds ==
  ASSUME OwnRows, EditsKeepHome, EditsKeepSecret
  PROVE  Spec => []NotedPasswordIsSet
<1>1. Init => NotedInv
  <2> SUFFICES ASSUME Init PROVE NotedInv
    OBVIOUS
  <2>1. CoreInv
    BY InitCopies, InitKnown DEF Init, CoreInv
  <2>2. ChainInv /\ VersionsInv
    BY DEF Init, DependentInit, SecretSourceInit, ChainInv, VersionsInv
  <2>3. PasswordInv
    BY DEF Init, DependentInit, PasswordInv, ReadInv, HandInv, PwInv, Noted
  <2> QED
    BY <2>1, <2>2, <2>3 DEF NotedInv
<1>2. TypeOK /\ TypeOK' /\ NotedInv /\ [Next]_roleVars => NotedInv'
  BY NextNoted
<1>3. NotedInv => NotedPasswordIsSet
  BY DEF NotedInv, PasswordInv, PwInv, Noted, NotedPasswordIsSet
<1> QED
  BY <1>1, <1>2, <1>3, TypeCorrect, PTL DEF Spec
=============================================================================
