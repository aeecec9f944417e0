# TLA+ models of serenedb-operator

The operator runs [SereneDB](../src/README.md) servers on Kubernetes. It is five
reconcilers in one process: level-triggered loops that read objects from an
informer cache, write objects to the API server (and, for four of them, SQL to a
server), patch a status, and come back on a watch event or a delay. Its hard
part is not any single step but what happens *between* two of them: edits,
deletions, re-creations, crashes, stale reads and Kubernetes' own controllers.
That is what these modules model.

Paths below are relative to the repository root, `src/`.

## 1. Inventory

| Component | State | Operations | Interacts with |
|---|---|---|---|
| SereneDB reconciler, `internal/controller/serenedb_controller.go` | the SereneDB's status; owned Secret, ConfigMap, two Services, StatefulSet, NetworkPolicy | `Reconcile` = Secret, TLS check, ConfigMap, Services, StatefulSet, NetworkPolicy, status | builders; StatefulSet controller, garbage collector, kubelet |
| Resource builders, `internal/resources` | none | spec to objects; config hash; random password; snapshot request and outcome | used by the SereneDB and Backup reconcilers |
| Backup controller, `backup_controller.go` | phase, startedAt, snapshot name; the VolumeSnapshot | `start` (CHECKPOINT, create snapshot), `observe` | `openSession`; CSI snapshot controller; watches SereneDB |
| ScheduledBackup controller, `scheduledbackup_controller.go` | lastScheduleTime, nextScheduleTime; Backups with its label | `tick`: `due`, `createBackup`, `prune` | cron, the clock, Backups |
| Dependents' shared code, `dependent.go` | finalizer | `openSession`, `finalize`, `ensureFinalizer`, `outcome`, `requestsByIndex` | SereneDB status and Secret, SQL sessions |
| Database, DatabaseRole, ServerSecret controllers | status, finalizer; databases, roles, grants, secrets on the server; `passwordSecretVersion` | create, converge, drop | dependents, statements |
| SQL statements and sessions, `internal/statements`, `internal/sqlexec` | a connection | rendering, exec, query | serened |
| API types, `api/v1alpha1` | specs and statuses, validation rules | | all |
| Manager, `cmd/main.go` | flags | wiring, leader election, probes | all |

Hard behaviours and what correctness means for each component:

* **SereneDB.** A reconcile is eight steps over a copy read from the cache. It
  must converge on the spec after any failure or stale read; its status must not
  claim what did not happen; it must not fight the garbage collector; it must
  not delete what is not its own; and, because `serened` takes its superuser
  password on first boot only, the generated password must live exactly as long
  as the data volume.
* **Backup.** CHECKPOINT, snapshot, phase: a crash between any two, a snapshot of
  the same name, a watch that is not there. A Backup must end, its snapshot must hold
  what was committed, and Completed must mean that there was one.
* **ScheduledBackup.** One delayed requeue stands between a schedule and silence;
  one lost patch between a run and a duplicate; pruning must spare the newest
  usable Backups.
* **Dependents.** A Database, DatabaseRole or ServerSecret spans two systems, the API
  server and a SQL server, with no transaction over both. A finalizer must not let
  go before the drop and must not hold for ever; a reclaim policy read from a stale
  copy must not cost a database; a statement that fails half way, a role altered by
  hand or a rotated password must be repaired, although the server wakes nobody up.

`PROJECT.json` lists the hazards line by line, with the properties that cover
them.

## 2. Modules

| Module | What it is |
|---|---|
| `Resources` | the builders as functions of a spec |
| `Cluster` | Kubernetes around one SereneDB: objects, informer cache, queue, garbage collector, StatefulSet controller, kubelet (external, but for the watches of `SetupWithManager`) |
| `SereneDB` | the SereneDB reconciler in that cluster, users, failures; fairness; properties |
| `MCSereneDB` | spec sets for the runs |
| `SereneDB_proofs` | type correctness; the password outlives a retained volume and goes with a dropped one; the status is earned; the configuration rolls out |
| `Backup` | the Backup reconciler, its VolumeSnapshot, the CSI driver, the server |
| `Backup_proofs` | type correctness, freshness of snapshots, what a Completed Backup stands for |
| `ScheduledBackup`, `MCScheduledBackup` | the ScheduledBackup reconciler, its Backups, the clock |
| `ScheduledBackup_proofs` | type correctness, what `prune` spares, Backups per run |
| `Dependent` | what the three kinds below share: objects and finalizer, queue and cache, `openSession`, `finalize`, status; SereneDBs, servers and users around them |
| `SecretSource` | extends it by a Kubernetes Secret that a spec refers to |
| `Database`, `MCDatabase` | the Database reconciler: `Dependent` with its rows, `apply` and drop |
| `ServerSecret`, `MCServerSecret` | the ServerSecret reconciler, over `SecretSource` |
| `DatabaseRole`, `MCDatabaseRole` | the DatabaseRole reconciler, over `SecretSource` |
| `Guarded` | abstract specification: what a finalizer promises about an object and its row |
| `Dependent_proofs`, `SecretSource_proofs` | lemmas about the shared steps: types, copies of objects, the path to a statement, SereneDBs known to the operator |
| `Database_proofs` | type correctness, what is dropped and when |
| `ServerSecret_proofs` | type correctness, no orphaned row, refinement of `Guarded` |
| `DatabaseRole_proofs` | type correctness, the noted password is the one on the server |

### State and actions, against the code

**The worker.** controller-runtime runs one reconcile per key at a time, so `pc`
is the step the running reconcile is at and `seen` the copy it works on. Every
call that writes is a step of its own; its reads are reads of `cache` in that
step. `Call` in `SereneDB` gives every write three outcomes: done, not done with
an error, done with the answer lost. `GetFails` is a read that fails. `Restart`
drops all of it and lists afresh. A returned error, `RequeueAfter` and a watch
event all set `queued`: how long the delay is does not matter to the properties.
(In `ScheduledBackup` it does; there `wake` is the delayed entry.)

**The cache.** `cache[k]` is the operator's copy of `obj[k]`. For the kinds in
`Lagging` it stays behind until `Deliver`, which jumps to the present object; the
others are always up to date. An update based on a stale copy is refused
(`CreateOrUpdate` sends the resourceVersion it read; here: the object differs).
Merge patches (`Patched`) carry no resourceVersion in this code and land on
whatever object has the name. So does a delete: none in this code has a
precondition. `deleteOwnedNetworkPolicy` is one step, in which the owner is looked up
in the cache and the delete goes to the object; with `"networkpolicy"` in `Lagging`
the two may differ by any number of changes, which is all that a change between the
Get and the Delete could add. VolumeSnapshots are unstructured, which
controller-runtime's client reads from the API server, never from the cache.

**`CreateOrUpdate`** models controllerutil's: get, mutate, compare, create or
update, with `SetControllerReference` inside. That one refuses an object
controlled by something else (`Other`), and adopts one whose controller has the
same kind and name but an older UID: it compares names. Builders that leave
server-defaulted fields unset make the comparison differ each time; the update
is then sent and changes nothing.

**`Cluster`.** The StatefulSet controller creates, replaces and reports the one
pod and sets the claim's owner according to the retention policy. The kubelet
boots the pod when Secret, key, ConfigMap, TLS Secret and volume are there; at
boot the pod reads the flagfile, and an empty volume takes the password. The
collector removes what its owner (by UID) does not outlive. Background deletion
removes the SereneDB first, foreground deletion last.

**`Backup`.** `committed` counts transactions, `durable` those in the data files
after the last CHECKPOINT; a snapshot captures at least `durable`, at some time
after it was requested. `captured` is a history variable: every snapshot that became
ready, with its owner and what it holds. `start` is split at the call that creates the snapshot.
The unsupported-method branch is unreachable: the CRD's enum admits one method.

**`ScheduledBackup`.** The clock ticks in seconds, the unit of the Backup's name
and of the times in the status. `Runs` are the times the cron expression matches;
the last instant of the clock stands for all later ones. Both informers may lag:
`cache` is the operator's ScheduledBackup (`Lag`), `listed` its Backups (`ListLag`),
which is what `r.List` reads. `prune` deletes by name whatever has the name then.
`pruned`, `dropped` and `keeps` are history: what `prune` and what users deleted, and
each `spec.keep` that `prune` went by.

**`Dependent`.** One worker per kind (the controllers keep the default of one
concurrent reconcile), so one `pc`, `key`, `seen` and `next`, the status it computes. `Begin` is `Reconcile` up to its
first branch: object gone, deleting, without finalizer, or to be applied.
`ensureFinalizer` and `removeFinalizer` are updates that carry a resourceVersion: they
are refused when the object differs from `seen`. After the finalizer was added the
reconcile returns and the update's own event brings the key back. `Blocked` and
`Error` differ by where they happen: under `finalize` there is no status to write and
the key comes back, under `apply` the outcome goes into the Ready condition.
`RequeueAfter` is 30 s for what is missing and 600 s once applied; both mean that the
key comes back some time, which is why a hand-made change is repaired at all.
`openSession` reads the SereneDB from the cache and then tries the server as it is
(`reach`); `session` is whether the connection is still alive, and `Exec` gives each
statement its outcomes: done, refused because the session is dead, failed without
effect, or done with the answer lost. A server refuses a DROP while `held` (sessions
on a database, objects a role owns). What a server stores is `rows`, by server-side
name; `rows` live on the volume and may outlast the SereneDB. A SereneDB is deleted in
the foreground (it is there, deleting, until its server is gone) or in the background
(it is gone at once, and the server answers and keeps its sessions until `RemoveDb`).
Two simplifications: a name is used again only when the server before is gone, and a
server that was already down when its SereneDB went in the background keeps its
volume. A name or value with a
NUL byte is `Nul`: the CRD accepts it and `internal/statements` refuses it.

**`SecretSource`.** Of the Kubernetes Secret only its resourceVersion and what keeps
the kind from using its contents are kept: it is `usable`, `keyless` (the password's
key is not there) or `unsound` (a password with a NUL byte, a key that is no option
name: the statement cannot be rendered). The kinds that note the version applied put it into the status with the
outcome (`FinishApplied`).

**`DatabaseRole`.** `login` stands for the five attributes every statement names,
`until` for the two that a statement names only if the spec has them. `converge`
reads the memberships once (`current`) and then grants and revokes one by one; the
order, the spec's list for grants and a map's iteration for revokes, is any.

**`Database`, `ServerSecret`.** A row carries the uid of the object that wrote it, which
the server does not store: it is a history variable for the properties.

**Abstractions.** A spec has the nine fields control flow or properties depend
on. Labels, annotations, probes, host and port of the status, messages, and the
Progressing condition (a function of the same outcome as Ready) are left out.
Node ports and the merge of labels keep foreign values and are not modelled yet.
The digest of the ConfigMap is injective.

## 3. Runs

All runs say `CHECK_DEADLOCK FALSE`: once users and failures have spent their
budgets and the queue is empty, an operator at rest is the intended end.

| Run | Checks | Instance, and what it shows |
|---|---|---|
| `rollout` | `StatusIsEarned`, `PodRunsHashedFlagfile`, `EventuallyServes`, `EventuallyBlocked` | four specs: a plain one, one that needs Secrets of the user's for password and TLS (they come late, never, or with the wrong key), one with TLS but no Secret name, one with another key in the generated Secret; one edit from any to any other, one failure or restart, lagging StatefulSet informer. Ready and version are never claimed early; the operator converges, or says what it waits for |
| `drift` | `EventuallyServes` | lagging SereneDB informer, one edit, one container failure, one object deleted or one foreign NetworkPolicy |
| `retain` | `TypeOK`, `NoLockout` | two SereneDBs in a row, two passwords, lagging Secret informer, both ways of deletion |
| `deletion` | `PasswordOutlivesVolume`, `DeletionCompletes` | `whenDeleted: Delete`, lagging SereneDB informer, both ways of deletion |
| `backup` | `OwnSnapshotIsFresh`, `CompletedIsCovered`, `BackupFinishes` | VolumeSnapshot API installed late, lagging informer, one outage, one failure, one CSI error or deleted snapshot, one commit |
| `schedule` | `EveryRunBackedUp` | runs at 1 and 2, edits between active, suspended and invalid, lagging informer, one failure |
| `prune` | `TypeOK`, `ExtraBackupsBounded`, `PruneKeepsNewest` | runs at 2 and 3 and, with `keep: 1`, an immediate Backup; lagging Backup informer, one edit of `keep` between 1 and 2, one failure or restart, one Backup that a user deletes; Backups complete, some late |
| `database` | `TypeOK`, `DropIsAskedFor`, `DeleteMeansDropped`, `EventuallyApplied`, `DeletionEnds` | policies Retain and Delete, one edit, lagging object and SereneDB informers, one outage, failure or restart, one hand-made drop or one held database, a SereneDB deleted any time |
| `secret` | `TypeOK`, `NoOrphan`, `GuardsRows`, `EventuallyReplaced`, `DeletionEnds` | inline options, options from a Secret (sound or not), unusable ones; two objects in a row under one name, lagging object and Secret informers, one outage, failure or restart, one hand-made drop, a SereneDB deleted either way |
| `role` | `TypeOK`, `NotedPasswordIsSet`, `EventuallyMatches` | a role with password, validity and a group, and one whose name cannot be rendered; the Secret written twice, each time usable, keyless or unsound, behind a lagging informer; one failure or restart, one hand-made drop or change of attributes and groups, a SereneDB deleted either way |

Two runs are expected to be violated. Each checks one property that the repository
states, in the smallest instance that leads there.

| Run | Violates | Instance |
|---|---|---|
| `own_claim` | `PasswordOutlivesVolume` | `existingClaim` with `whenDeleted: Delete` |
| `backup_recreated` | `CompletedOwnsSnapshot` | a Backup re-created under its name |

**Bounds.** `MaxUid`, `MaxEdits`, `MaxFaults`, `MaxPodFailures`, `MaxDrift`,
`MaxCommits`, `MaxOutages`, `MaxErrors`, `MaxDrops`, `MaxTime`, `MaxClusters` and
`MaxWrites` bound what users, failures and the clock may do; the operator and
Kubernetes are not bounded. `MaxClusters` counts the SereneDBs created under one name. In the dependents' runs `MaxFaults` counts outages, too. One
disturbance suffices to reach every window between two steps, since it may fall
into any of them; a second SereneDB or Backup under the same name is what the
re-creation hazards need. `Symmetric` is used in the one run with two passwords,
which has no liveness property. `prune` lets no Backup fail and `schedule` does not let
the list lag, to stay small: prune treats a failed Backup like one still running, and
what it deletes does not bear on when a Backup is created. `role` has no outages and no
group that does not exist; a session that breaks there is one to a SereneDB that goes,
and a GRANT fails as a failed call. `database` and `secret` have the outages.

**Fairness.** Weak fairness of the worker (a Go process that is scheduled, a
queue that hands out its keys), of informers, of each of Kubernetes' controllers,
for Backups, of a server that comes back up and a CSI driver that works, and, for
dependents, of a server that comes back up (`Serve`) and a SereneDB that goes once it
is being deleted (`RemoveDb`). No fairness is given to users, failures, restarts, the
installation of an API, or whatever holds a database (`LetGo`): a SereneDB without
its Secret stays blocked, since nothing makes the user create it, and
`Database!DeletionEnds` is stated for databases that are not held for ever.

**Mutants.** For each property `PROJECT.json` names a slip of the code that
breaks it: a forgotten `Owns`, a predicate on generations, a status taken at face
value, ConfigMap and StatefulSet swapped, and so on. They are the definitions
commented as plausible slips.

## 4. Findings

1. `own_claim`. With `existingClaim` the StatefulSet has no retention policy and
   the claim stays, but `SecretOwnedByDatabase` looks at `whenDeleted` alone:
   deleting such a SereneDB with `whenDeleted: Delete` collects the only copy of
   the password of a volume that remains.
2. `backup_recreated`. `start` takes AlreadyExists for success, whoever owns the
   snapshot. A Backup deleted and re-created under its name completes on the old
   Backup's snapshot, which the garbage collector then removes.

Other places where the code does less than a line of the repository says. They were
met with TLC in instances of these modules, of the bounds named; the properties above
are stated so that they say what holds.

* A serving SereneDB that is edited to a spec with a missing precondition goes on
  serving, for the reconcile returns before the StatefulSet; `describe` writes
  `readyReplicas: 0`, where `api/v1alpha1/serenedb_types.go:377` says "the number of
  serving database pods". `EventuallyBlocked` speaks of the condition only.
* Whether the NetworkPolicy is the operator's is looked up in the cache, and the delete
  goes by name. With `"networkpolicy"` in `Lagging` and `MaxDrift = 2`, a policy of
  somebody else that has taken the name since is deleted;
  `internal/controller/serenedb_controller_test.go:278` expects it to be left alone.
* With `Lag = TRUE` in `Backup`, a reconcile that reads Running from a stale cache turns
  Completed into Failed if the snapshot is gone or reports an error by then;
  `docs/src/reference/backup.md:29` calls both phases final.
* Completed Backups A, B, C and `keep: 1`: B is deleted, the delete of A fails, `keep` is
  raised to 2. With `ListLag = TRUE` the retry may go by a list that still has B, and
  deletes A, although C is the only other one left;
  `api/v1alpha1/scheduledbackup_types.go:40` says `keep` is how many to retain. The
  instance of `prune` contains this; what holds there is that as many newer ones are left
  as some `keep` that prune went by.
* Surplus Backups are deleted newest first; `docs/src/reference/scheduledbackup.md:32`
  says oldest first. It matters when a delete fails: the oldest are what is left.

Some properties hold only within their run's bounds, and there the bound is part of
what the run says. With larger bounds they fail as follows:

* `StatusIsEarned` with `MaxUid = 2`: the status patch carries no UID, so a
  reconcile of a deleted SereneDB reports into its successor, which is Ready, at
  generation 1, before it has a pod; the next reconcile corrects it.
* `PodRunsHashedFlagfile` with `MaxEdits = 2`: an edit of the configuration that is
  reverted leaves a pod that started between the ConfigMap's and the
  StatefulSet's update with the edit's flagfile, under the old hash.
* `PasswordOutlivesVolume` with an edit of `whenDeleted` shortly before the deletion: the
  Secret's owner and the StatefulSet's retention policy follow it in two writes of a
  later reconcile. Also with a re-creation before the old claim is collected.
* `CompletedIsCovered` with `MaxUid = 2`, as finding 2 says: the snapshot completed on is
  another Backup's.
* `startedAt` is the time of the last CHECKPOINT; after a retry the snapshot may
  be of an earlier one. `OwnSnapshotIsFresh` is stated relative to the creation of
  the Backup for that reason.
* `keep` is exceeded by one between two runs, since pruning comes right after the
  creation of a Backup, which is not Completed then.
* Changing `auth.existingSecret` changes the pod template, so the pod is replaced;
  the upgrade guide lists `auth` as applied without a restart.
* A Backup is named after the second of its creation. If the status patch (or
  pruning) fails after it was created, the retry creates another one for the same
  run. `ExtraBackupsBounded` says how many: one more per failure.
* `ExtraBackupsBounded` with `Lag = TRUE`: a reconcile that does not see the patch of
  the one before takes the run again, without any failure.
* `DeleteMeansDropped`, `NoOrphan` and `GuardsRows` with `MaxClusters = 2`: a SereneDB
  re-created on the volume of an earlier one brings back rows whose objects were let
  go with that one. `NoOrphan` and `GuardsRows` with an edit of `spec.cluster`, or of
  `spec.name` from or to empty (the rule that makes it immutable compares two names
  that are set): the row under the old name stays. `secret` has no edits.
* Two objects may share a server-side name; deleting one drops the other's row.
* An object with policy Delete, or a ServerSecret, whose name has a NUL byte cannot be
  deleted: its drop cannot be rendered. `Database!DeletionEnds` leaves it out, and the specs of
  `secret` and `database` have no such name; `role` has one, to see it reported.
* A DROP that the server refuses is never reported. `finalize` returns the error, the
  key is retried with back-off and Ready stays True; the guide
  (`docs/src/guide/databases-roles.md:64`) promises the `SQLError` reason on the
  deleting object "instead of looping".
* A `validUntil` or `connectionLimit` that is removed from a spec stays on the server:
  the statement names them only when they are set, where the guide (line 52) says
  "each in its positive or negative form". `EventuallyMatches` compares `until` only
  when the spec has it.
* Only the resourceVersion of the Secret tells whether the password must be sent. A
  change of `passwordSecret.key`, a password set by hand, or a volume restored with an
  older password goes unnoticed; so does a role that was dropped by hand while the
  reference to the Secret was absent, if the status patch that forgets the version is
  lost and the reference is then restored. `role` therefore has no edits.
* A user-provided Secret that vanishes after the rollout is not noticed: it is
  neither owned nor watched. `EventuallyBlocked` is therefore checked without drift.

## 5. Proofs

`tlapm` checks these for every value of the constants: any number of objects, names,
specs, edits, failures, restarts and clock ticks, and any set of lagging informers,
but for the hypotheses named. Every invariant, action property and refinement that a
passing run checks is stated by a theorem here. The strengthenings were checked by TLC, as
invariants of the same instances, before they were proved.

| Theorem | Statement | Argument |
|---|---|---|
| `SereneDB_proofs!TypeCorrect` | `Spec => []TypeOK` | `TypeOK` is inductive: its conjunct "a running reconcile holds a SereneDB" is what lets every step read `seen`. One lemma per step of the worker, per environment action, per user action |
| `SereneDB_proofs!RetainNeverLocksOut` | `GeneratedIsRetained` implies `Spec => []NoLockout` | `RetainInv` adds what `NoLockout` lacks: the generated Secret is unowned, so the collector never takes it; neither `syncSecretOwnership` nor a create from a stale cache changes that, and a password once there is kept by every step |
| `SereneDB_proofs!PasswordGoesWithVolume` | `EverythingDropped` and `MaxUid <= 1` imply `Spec => []PasswordOutlivesVolume` | `DropInv`: everything carries the UID 1 (`OneUid`), the StatefulSet owns its claim with policy Delete (`StsDrops`), so a claim without a StatefulSet is one the collector takes (`OwnVolume`), and while the SereneDB lives the Secret holds the password of the volume (`SecretDrops`) |
| `SereneDB_proofs!StatusAlwaysEarned` | `MaxUid <= 1` implies `Spec => []StatusIsEarned` | `EarnedInv` follows "has been serving" along the copies: a ready pod's revision, then the StatefulSet's status in the API server and in the cache (with `observed <= gen`: that is why generations are compared), then `got`, then the condition of a copy that is not newer than the SereneDB |
| `SereneDB_proofs!ConfigurationRolls` | `MaxUid <= 1` and `MaxEdits <= 1` imply `Spec => []PodRunsHashedFlagfile` | `ConfigInv`, for the latest flagfile `f`: whoever still sees an earlier one has written nothing of `f` (`BehindInv`), the ConfigMap holds `f` before any hash of it is written (`WrittenFirst`: the order of the two steps), hence a ready pod with that hash runs `f` (`RunsHashed`). `QueueInv`: at rest the StatefulSet's template is that of the cached SereneDB |
| `Backup_proofs!TypeCorrect` | `Spec => []TypeOK` | inductive |
| `Backup_proofs!OwnSnapshotAlwaysFresh` | `Spec => []OwnSnapshotIsFresh` | `FreshInv`: UIDs in use are at most `uids`, so a new Backup finds no snapshot of its own; whenever a reconcile is about to request a snapshot, or one of this Backup exists uncut, `durable` has reached what was committed when the Backup was created |
| `Backup_proofs!CompletedAlwaysCovered` | `MaxUid <= 1` implies `Spec => []CompletedIsCovered` | `CoveredInv`, with `FreshInv`: a snapshot that is ready has been recorded as captured; from the moment a reconcile has read it as ready, what it is about to report is covered, and stays so through lost answers, restarts and patches from an old copy, whatever becomes of the snapshot |
| `ScheduledBackup_proofs!TypeCorrect` | `Spec => []TypeOK` | not inductive alone: `wake` is a time only because the next run found lies after `at`, and `at` is not after `now` (`AheadInv`) |
| `ScheduledBackup_proofs!PruneKeepsTheNewest` | `Spec => []PruneKeepsNewest` | `EnoughInv`: everything that was or is about to be pruned has enough newer completed Backups left. A list that lags may count one that is pruned already as spared; but that one had enough newer ones itself, and they are newer than the next victim. `ListInv`: a completed Backup on the list is there or is accounted for as deleted. `NameInv` and `BirthInv`: a name on the list that stands for another Backup by now is that of the newest, which is never a victim. One that completes or is deleted by a user meanwhile takes nothing away |
| `ScheduledBackup_proofs!ExtraBackupsAlwaysBounded` | `Lag = FALSE` implies `Spec => []ExtraBackupsBounded` | `CountInv`: a run that the recorded time does not cover yet has at most `faults` Backups, so the one about to be created keeps to `1 + faults`; the patch that follows covers it or costs a fault. `ReadInv`: the recorded time is the one `due` was computed from |
| `Database_proofs!TypeCorrect` | `Spec => []TypeOK` | from the lemmas on the shared steps |
| `Database_proofs!DeletionDrops` | `MaxClusters <= 1` implies `Spec => DeleteMeansDropped` | `ReleaseInv`: at `release`, with policy Delete, the row is in the clear (absent, or its server goes). The update that lets go carries a resourceVersion, so `seen` is the object |
| `Database_proofs!DropsAreAskedFor` | `MaxClusters <= 1` and `OwnRows` imply `Spec => DropIsAskedFor` | `DropInv`: a copy that asks for a drop, in the cache or in the reconcile's hands, is of the object in the API server, or that object is gone and its row with it. A deleting object is not edited back, so a stale copy asks for nothing new |
| `ServerSecret_proofs!TypeCorrect` | `Spec => []TypeOK` | as for `Database` |
| `ServerSecret_proofs!NoOrphanHolds` | `MaxClusters <= 1` and `EditsKeepHome` imply `Spec => []NoOrphan` | `RowInv`: each row is of an object that has its finalizer and its place; `ReleaseInv` when the finalizer goes; `KnownInv` when the operator takes a SereneDB for gone |
| `ServerSecret_proofs!PromiseImplemented` | the same hypotheses imply `Spec => GuardsRows` | the refinement of `Guarded`, step by step, from the same invariant: a replaced row is a `Store`, a drop or a SereneDB's end a `Lose`, the release a `Leave`; the other steps stutter |
| `DatabaseRole_proofs!TypeCorrect` | `Spec => []TypeOK` | as for `Database` |
| `DatabaseRole_proofs!NotedPasswordHolds` | `OwnRows`, `EditsKeepHome` and `EditsKeepSecret` imply `Spec => []NotedPasswordIsSet` | `NotedInv`: what was read is not newer than the operator's copy of the Secret, nor that than the Secret (`ChainInv`); no status notes a later version (`VersionsInv`); and the role has the password of the version its status notes or is about to note, or a later one (`PasswordInv`) |

The proofs of the dependents rest on `Dependent_proofs!SharedInv`. `CopiesInv`: a
cached or seen copy is of the present object or of one before it, and of the present
one if it is alive and has its finalizer; the cache is never behind the running
reconcile. `PathInv`: a drop is of a deleting object, an apply is not,
and neither begins before the finalizer is there. `KnownInv`:
the operator knows of every SereneDB whose server it wrote to.

The hypotheses are the bounds without which the properties fail, as section 4 says:

* `GeneratedIsRetained`: every spec with a generated password retains its volume.
  `EverythingDropped`, its counterpart: every spec has a claim template and
  `whenDeleted: Delete`. A policy edited between the two is outside of both.
* `MaxUid <= 1`: one SereneDB (or Backup) of the name. A status patch carries no UID,
  and an old claim or snapshot may still be there when the name is used again.
* `MaxEdits <= 1`: a reverted edit brings the old hash back.
* `Lag = FALSE`, for `ExtraBackupsBounded` alone: a reconcile that does not see its own
  patch takes the run again.
* `MaxClusters <= 1`: a SereneDB re-created on an old volume finds rows of objects that
  are gone.
* `OwnRows`: no two objects share a server-side name. `EditsKeepHome`: no edit moves the
  row. `EditsKeepSecret`: no edit changes where the password comes from.

The assumptions on constants say that bounds are numbers, that specs are of their type
and that `NoObj` is no object: `ClusterAssumption`, `BoundsAssumption`,
`BackupAssumption`, `ScheduleAssumption`, `DependentAssumption`, `NoDbAssumption`,
`DatabaseAssumption`, `NoDatabaseAssumption`, `SecretSourceAssumption`,
`ServerSecretAssumption`, `DatabaseRoleAssumption`, and `NoObjAssumption` in `Backup`,
`ScheduledBackup` and `SecretSource`. TLC evaluates them in the runs.

Only model-checked: the liveness properties (the prover has no rules for fairness or
`ENABLED`), and the violations. Statements about what a recursive definition
computes are out of the prover's reach; the models need none. The next run of a
schedule is a minimum, whose existence is the well-foundedness of the naturals; what
the proofs say about counted sets follows from adding or removing one element.

## 6. Not modelled, and the plan

Not modelled: the manager's wiring in `cmd/main.go` (flags, TLS options and probes,
without state of their own; one leader-elected operator is assumed), the SQL driver
(I/O), the text of flagfile and SQL and its quoting, generated deepcopy code,
manifests, samples and end-to-end tests. Node ports kept over updates and the merge of
labels are not modelled either: a Service is its owner and one port.

Next, in this order:

1. Weaker hypotheses: `StatusIsEarned` of the SereneDB whose UID the status was computed
   for, over any number of SereneDBs of the name; `PasswordOutlivesVolume` over edits of
   `whenDeleted` that have been reconciled; `NoOrphan` of rows on the volume of the
   present SereneDB.
2. Composition: SereneDB's Ready condition as Backup and Dependent read it, in place
   of `Serve` and `Outage`.
3. Two SereneDBs whose Service names collide, node ports, two objects of one
   server-side name.
