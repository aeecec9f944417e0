-------------------------------- MODULE Backup --------------------------------
(***************************************************************************)
(* BackupReconciler (internal/controller/backup_controller.go): a Backup,  *)
(* its VolumeSnapshot and the server whose volume is snapshotted.  Each    *)
(* call to the API server or to serened is a step of its own; commits,     *)
(* the CSI driver, the garbage collector, users and a crash of the         *)
(* operator interleave with them.  Backups and SereneDBs are read from the *)
(* informer cache, VolumeSnapshots (unstructured) from the API server.     *)
(***************************************************************************)
EXTENDS Integers

CONSTANTS Lag,         \* may the Backup informer lag behind the API server?
          Served,      \* is the VolumeSnapshot API there when the operator starts?
          NoObj,       \* "not found"
          MaxUid,      \* Backups of the same name the user creates in a row
          MaxCommits,  \* transactions committed on the server
          MaxOutages,  \* times the server stops being ready
          MaxFaults,   \* failed calls and operator restarts
          MaxErrors    \* errors the CSI driver reports

ASSUME BackupAssumption ==
  /\ Lag \in BOOLEAN /\ Served \in BOOLEAN
  /\ {MaxUid, MaxCommits, MaxOutages, MaxFaults, MaxErrors} \subseteq Nat

VARIABLES backup,     \* the Backup in the API server, or NoObj
          cache,      \* the operator's copy of it
          snap,       \* the VolumeSnapshot of the same name, or NoObj
          served,     \* is the VolumeSnapshot API served?
          watching,   \* does the operator watch VolumeSnapshots?
          queued,     \* is the Backup's key in the work queue?
          ready,      \* the SereneDB exists, is Ready and accepts a session
          committed,  \* transactions committed so far
          durable,    \* transactions the last CHECKPOINT put into the data files
          pc,         \* next step of the running reconcile, or "idle"
          seen,       \* the Backup the reconcile read from the cache
          next,       \* the status it computed
          captured,   \* history: snapshots that became ready to use
          uids, outages, faults, errors   \* what the bounds count

api    == <<backup, cache, snap, served, captured>>
server == <<ready, committed, durable>>
worker == <<watching, pc, seen, next>>
budget == <<uids, outages, faults, errors>>
vars   == <<api, server, worker, queued, budget>>

NoCut == -1   \* the CSI driver has not captured the volume yet

Phases    == {"New", "Pending", "Running", "Completed", "Failed"}
Status    == [phase : Phases, started : Nat \cup {NoCut}]
\* since is history: what was committed when the user asked for the Backup.
BackupObj == [uid : Nat \ {0}, since : Nat, deleting : BOOLEAN, status : Status]
Capture   == [owner : Nat \ {0}, cut : Nat]
SnapObj   == [owner : Nat \ {0}, cut : Nat \cup {NoCut}, ready : BOOLEAN, error : BOOLEAN]

ASSUME NoObjAssumption == NoObj \notin BackupObj \cup SnapObj

NewStatus == [phase |-> "New", started |-> NoCut]

TypeOK ==
  /\ backup \in BackupObj \cup {NoObj}
  /\ cache \in BackupObj \cup {NoObj}
  /\ snap \in SnapObj \cup {NoObj}
  /\ captured \subseteq Capture
  /\ served \in BOOLEAN /\ watching \in BOOLEAN /\ queued \in BOOLEAN /\ ready \in BOOLEAN
  /\ committed \in Nat /\ durable \in 0..committed
  /\ pc \in {"idle", "start", "create", "observe", "status"}
  /\ seen \in BackupObj \cup {NoObj}
  /\ pc # "idle" => seen # NoObj
  /\ next \in Status
  /\ uids \in Nat /\ outages \in Nat /\ faults \in Nat /\ errors \in Nat

Init ==
  /\ backup = NoObj /\ cache = NoObj /\ snap = NoObj /\ captured = {}
  /\ served = Served /\ watching = Served
  /\ queued = FALSE
  /\ ready = FALSE /\ committed = 0 /\ durable = 0
  /\ pc = "idle" /\ seen = NoObj /\ next = NewStatus
  /\ uids = 0 /\ outages = 0 /\ faults = 0 /\ errors = 0

(***************************************************************************)
(* API server, informers, work queue.                                      *)
(***************************************************************************)
\* For(Backup): every change of the Backup enqueues it once the informer sees it.
PutBackup(b) ==
  /\ backup' = b
  /\ cache' = IF Lag THEN cache ELSE b

BackupEvent(b) == ~Lag /\ b # backup

Deliver ==
  /\ cache # backup
  /\ cache' = backup
  /\ queued' = TRUE
  /\ UNCHANGED <<backup, snap, served, captured, server, worker, budget>>

\* Owns(VolumeSnapshot), if the API was served when the operator started: the
\* snapshot's controller is a Backup of this name.
SnapEvent == watching

PutSnap(s) == snap' = s /\ queued' = (queued \/ SnapEvent)

(***************************************************************************)
(* The reconciler.                                                         *)
(***************************************************************************)
Idle == pc' = "idle" /\ seen' = NoObj /\ next' = NewStatus

\* The call failed: the error is returned and the key comes back.
Fault ==
  /\ faults < MaxFaults
  /\ faults' = faults + 1

\* A plausible slip: Failed Backups are tried again.
OnlyCompleted(phase) == phase = "Completed"

\* Completed and Failed: nothing more to do.
Final(phase) == phase \in {"Completed", "Failed"}

Gone(b) == b = NoObj \/ b.deleting

Reconcile ==
  /\ pc = "idle" /\ queued
  /\ queued' = FALSE
  /\ IF Gone(cache) \/ (cache # NoObj /\ Final(cache.status.phase))
     THEN UNCHANGED <<pc, seen, next>>
     ELSE /\ pc' = IF cache.status.phase = "Running" THEN "observe" ELSE "start"
          /\ seen' = cache
          /\ next' = cache.status
  /\ UNCHANGED <<watching, api, server, budget>>

pending(s) == [s EXCEPT !.phase = "Pending"]
fail(s)    == [s EXCEPT !.phase = "Failed"]

\* CHECKPOINT, and the time it ran at, told by what is durable then.
Checkpointed == durable' = committed /\ UNCHANGED <<ready, committed>>

\* A plausible slip: the snapshot does not wait for the CHECKPOINT.
startUnflushed ==
  /\ pc = "start"
  /\ \/ /\ ready
        /\ pc' = "create" /\ next' = [next EXCEPT !.started = committed]
        /\ UNCHANGED <<server, faults>>
     \/ /\ ~ready
        /\ pc' = "status" /\ next' = pending(next)
        /\ UNCHANGED <<server, faults>>
  /\ UNCHANGED <<api, watching, seen, queued, uids, outages, errors>>

\* start up to CHECKPOINT.  No SereneDB, one that is not Ready, one that refuses
\* the session and a CHECKPOINT that fails (done or not) all leave it Pending.
\* The CRD admits one method only, so it is never unsupported.
start ==
  /\ pc = "start"
  /\ \/ /\ ready
        /\ Checkpointed
        /\ pc' = "create" /\ next' = [next EXCEPT !.started = committed]
        /\ UNCHANGED faults
     \/ /\ ~ready
        /\ pc' = "status" /\ next' = pending(next)
        /\ UNCHANGED <<server, faults>>
     \/ /\ ready /\ Fault
        /\ Checkpointed \/ UNCHANGED server
        /\ pc' = "status" /\ next' = pending(next)
  /\ UNCHANGED <<api, watching, seen, queued, uids, outages, errors>>

\* Reading the SereneDB, its password Secret or the VolumeSnapshot fails.
GetFails ==
  /\ pc \in {"start", "observe"}
  /\ Fault
  /\ Idle /\ queued' = TRUE
  /\ UNCHANGED <<api, server, watching, uids, outages, errors>>

VolumeSnapshot == [owner |-> seen.uid, cut |-> NoCut, ready |-> FALSE, error |-> FALSE]

\* The rest of start: request the snapshot; AlreadyExists counts as requested.
createSnapshot ==
  /\ pc = "create"
  /\ \/ /\ ~served
        /\ pc' = "status" /\ next' = fail(seen.status)
        /\ UNCHANGED <<snap, queued, seen, faults>>
     \/ /\ served
        /\ IF snap = NoObj THEN PutSnap(VolumeSnapshot) ELSE UNCHANGED <<snap, queued>>
        /\ pc' = "status" /\ next' = [next EXCEPT !.phase = "Running"]
        /\ UNCHANGED <<seen, faults>>
     \/ /\ served /\ Fault
        /\ Idle /\ queued' = TRUE
        /\ \/ UNCHANGED snap
           \/ snap = NoObj /\ snap' = VolumeSnapshot
  /\ UNCHANGED <<backup, cache, served, captured, server, watching, uids, outages, errors>>

\* A plausible slip: a snapshot without an error is taken for a usable one.
OutcomeUnlessError(s) == IF s.error THEN "failure" ELSE "ready"

\* SnapshotOutcome: a reported error comes before readyToUse.
SnapshotOutcome(s) ==
  IF s.error THEN "failure" ELSE IF s.ready THEN "ready" ELSE "waiting"

observe ==
  /\ pc = "observe"
  /\ pc' = "status"
  /\ next' =
       IF snap = NoObj THEN fail(next)
       ELSE CASE SnapshotOutcome(snap) = "failure" -> fail(next)
              [] SnapshotOutcome(snap) = "ready"   -> [next EXCEPT !.phase = "Completed"]
              [] SnapshotOutcome(snap) = "waiting" -> next
  /\ UNCHANGED <<api, server, watching, seen, queued, budget>>

\* A JSON merge patch of the fields that differ from the copy that was read,
\* applied to whatever Backup of that name now exists.
Patched(b) ==
  [b EXCEPT !.status =
     [f \in DOMAIN next |-> IF next[f] # seen.status[f] THEN next[f] ELSE b.status[f]]]

\* A plausible slip: the operator relies on the snapshot watch alone.
RequeuePending(phase) == phase = "Pending"

\* RequeueAfter: a Pending Backup is tried again, a Running one is polled.
Requeue(phase) == phase \in {"Pending", "Running"}

PatchStatus ==
  /\ pc = "status"
  /\ Idle
  /\ \/ /\ backup # NoObj
        /\ PutBackup(Patched(backup))
        /\ queued' = (queued \/ BackupEvent(Patched(backup)) \/ Requeue(next.phase))
        /\ UNCHANGED faults
     \/ /\ backup = NoObj                               \* NotFound
        /\ queued' = TRUE
        /\ UNCHANGED <<backup, cache, faults>>
     \/ /\ Fault
        /\ queued' = TRUE
        /\ \/ UNCHANGED <<backup, cache>>
           \/ backup # NoObj /\ PutBackup(Patched(backup))
  /\ UNCHANGED <<snap, served, captured, server, watching, uids, outages, errors>>

\* The operator process is replaced; SetupWithManager looks for the API again.
Restart ==
  /\ Fault
  /\ Idle
  /\ cache' = backup
  /\ queued' = (backup # NoObj)
  /\ watching' = served
  /\ UNCHANGED <<backup, snap, served, captured, server, uids, outages, errors>>

Worker == Reconcile \/ start \/ createSnapshot \/ observe \/ GetFails \/ PatchStatus

(***************************************************************************)
(* Server, CSI driver, garbage collector, users.                           *)
(***************************************************************************)
Commit ==
  /\ ready
  /\ committed < MaxCommits
  /\ committed' = committed + 1
  /\ UNCHANGED <<api, ready, durable, worker, queued, budget>>

\* Watches(SereneDB): a change of its status enqueues every Backup of it.
ServerReady ==
  /\ ~ready
  /\ ready' = TRUE
  /\ queued' = (queued \/ cache # NoObj)
  /\ UNCHANGED <<api, committed, durable, worker, budget>>

ServerDown ==
  /\ ready
  /\ outages < MaxOutages
  /\ outages' = outages + 1
  /\ ready' = FALSE
  /\ queued' = (queued \/ cache # NoObj)
  /\ UNCHANGED <<api, committed, durable, worker, uids, faults, errors>>

InstallSnapshotApi ==
  /\ ~served
  /\ served' = TRUE
  /\ UNCHANGED <<backup, cache, snap, captured, server, worker, queued, budget>>

\* The driver captures the volume: at least what is in the data files.
Cut ==
  /\ snap # NoObj /\ snap.cut = NoCut
  /\ PutSnap([snap EXCEPT !.cut = durable])
  /\ UNCHANGED <<backup, cache, served, captured, server, worker, budget>>

SnapReady ==
  /\ snap # NoObj /\ snap.cut # NoCut /\ (~snap.ready \/ snap.error)
  /\ PutSnap([snap EXCEPT !.ready = TRUE, !.error = FALSE])
  /\ captured' = captured \cup {[owner |-> snap.owner, cut |-> snap.cut]}
  /\ UNCHANGED <<backup, cache, served, server, worker, budget>>

SnapError ==
  /\ snap # NoObj /\ ~snap.ready /\ ~snap.error
  /\ errors < MaxErrors
  /\ errors' = errors + 1
  /\ PutSnap([snap EXCEPT !.error = TRUE])
  /\ UNCHANGED <<backup, cache, served, captured, server, worker, uids, outages, faults>>

\* The snapshot goes: its Backup is gone, or somebody deletes it.
Alive(uid) == backup # NoObj /\ backup.uid = uid /\ ~backup.deleting

CollectSnap ==
  /\ snap # NoObj /\ ~Alive(snap.owner)
  /\ PutSnap(NoObj)
  /\ UNCHANGED <<backup, cache, served, captured, server, worker, budget>>

DeleteSnap ==
  /\ snap # NoObj
  /\ errors < MaxErrors
  /\ errors' = errors + 1
  /\ PutSnap(NoObj)
  /\ UNCHANGED <<backup, cache, served, captured, server, worker, uids, outages, faults>>

CreateBackup ==
  /\ backup = NoObj
  /\ uids < MaxUid
  /\ uids' = uids + 1
  /\ LET b == [uid |-> uids + 1, since |-> committed, deleting |-> FALSE, status |-> NewStatus]
     IN PutBackup(b) /\ queued' = (queued \/ BackupEvent(b))
  /\ UNCHANGED <<snap, served, captured, server, worker, outages, faults, errors>>

\* In the background, or in the foreground: then it stays, deleting, until its
\* snapshot is collected.
DeleteBackup ==
  /\ backup # NoObj /\ ~backup.deleting
  /\ \E b \in {NoObj, [backup EXCEPT !.deleting = TRUE]} :
       PutBackup(b) /\ queued' = (queued \/ BackupEvent(b))
  /\ UNCHANGED <<snap, served, captured, server, worker, budget>>

CollectBackup ==
  /\ backup # NoObj /\ backup.deleting
  /\ snap # NoObj => snap.owner # backup.uid
  /\ PutBackup(NoObj) /\ queued' = (queued \/ BackupEvent(NoObj))
  /\ UNCHANGED <<snap, served, captured, server, worker, budget>>

Environment ==
  \/ Deliver \/ Commit \/ ServerReady \/ ServerDown \/ InstallSnapshotApi
  \/ Cut \/ SnapReady \/ SnapError \/ CollectSnap \/ DeleteSnap
  \/ CreateBackup \/ DeleteBackup \/ CollectBackup

Next == Worker \/ Restart \/ Environment

Spec == Init /\ [][Next]_vars

\* The worker, the informer, the snapshot controller and the garbage collector
\* keep running, and a server that is down comes back.
Fairness ==
  /\ WF_vars(Worker) /\ WF_vars(Deliver) /\ WF_vars(ServerReady)
  /\ WF_vars(Cut) /\ WF_vars(SnapReady) /\ WF_vars(CollectSnap) /\ WF_vars(CollectBackup)

FairSpec == Spec /\ Fairness

(***************************************************************************)
(* Properties.                                                             *)
(***************************************************************************)
\* A snapshot taken for this Backup holds everything that was committed when the
\* user asked for the Backup: CHECKPOINT, in this reconcile or an earlier one,
\* came between.
OwnSnapshotIsFresh ==
  backup # NoObj /\ snap # NoObj /\ snap.owner = backup.uid /\ snap.cut # NoCut
    => snap.cut >= backup.since

\* A Completed Backup can be relied on: a snapshot of its own has become ready to
\* use and holds everything that was committed when the user asked for it, however
\* old the copy of the Backup was and whatever was tried again on the way.
CompletedIsCovered ==
  backup # NoObj /\ backup.status.phase = "Completed"
    => \E c \in captured : c.owner = backup.uid /\ c.cut >= backup.since

\* A Completed Backup is about a snapshot of its own.
CompletedOwnsSnapshot ==
  backup # NoObj /\ backup.status.phase = "Completed" /\ snap # NoObj
    => snap.owner = backup.uid

\* A Backup nobody deletes is eventually over, whether snapshots are watched or
\* polled and whatever failed on the way.
BackupFinishes ==
  \A u \in 1..MaxUid :
    backup # NoObj /\ backup.uid = u
      ~> (backup # NoObj /\ backup.uid = u => Final(backup.status.phase))
=============================================================================
