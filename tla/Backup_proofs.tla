----------------------------- MODULE Backup_proofs -----------------------------
(***************************************************************************)
(* Proofs about Backup for every bound: the types, the freshness of a      *)
(* Backup's own snapshot, and what a Completed Backup can be relied on for.*)
(***************************************************************************)
EXTENDS Backup, TLAPS

(***************************************************************************)
(* Type correctness.                                                       *)
(***************************************************************************)
\* The statuses a reconcile computes are statuses.
LEMMA StatusTypes ==
  ASSUME NEW s \in Status
  PROVE  /\ pending(s) \in Status /\ fail(s) \in Status
         /\ \A p \in Phases : [s EXCEPT !.phase = p] \in Status
         /\ \A n \in Nat : [s EXCEPT !.started = n] \in Status
  BY DEF Status, pending, fail, Phases

\* The merge patch takes each field from one of two statuses.
LEMMA PatchedType ==
  ASSUME NEW b \in BackupObj, next \in Status
  PROVE  /\ Patched(b) \in BackupObj
         /\ Patched(b).uid = b.uid /\ Patched(b).since = b.since
         /\ Patched(b).deleting = b.deleting
         /\ Patched(b).status.phase =
              IF next.phase # seen.status.phase THEN next.phase ELSE b.status.phase
<1> DEFINE merged == [f \in DOMAIN next |->
                        IF next[f] # seen.status[f] THEN next[f] ELSE b.status[f]]
<1>1. b.status \in Status
  BY DEF BackupObj
<1>2. /\ merged \in Status
      /\ merged.phase = IF next.phase # seen.status.phase THEN next.phase ELSE b.status.phase
  BY <1>1 DEF Status
<1> HIDE DEF merged
<1>3. Patched(b) = [b EXCEPT !.status = merged]
  BY DEF Patched, merged
<1> QED
  BY <1>2, <1>3 DEF BackupObj

\* How a reconcile leaves the Backup: as it was, or patched.
LEMMA PatchStatusEffect ==
  ASSUME TypeOK, PatchStatus
  PROVE  /\ \/ UNCHANGED <<backup, cache>>
            \/ /\ backup \in BackupObj
               /\ backup' = Patched(backup)
               /\ cache' = IF Lag THEN cache ELSE backup'
         /\ faults' \in Nat
<1>1. faults' = faults \/ faults' = faults + 1
  BY DEF PatchStatus, Fault
<1>2. \/ UNCHANGED <<backup, cache>>
      \/ backup # NoObj /\ backup' = Patched(backup) /\ cache' = IF Lag THEN cache ELSE backup'
  BY Zenon DEF PatchStatus, PutBackup
<1> QED
  BY <1>1, <1>2 DEF TypeOK

\* The Boolean variables.
Flags == served \in BOOLEAN /\ watching \in BOOLEAN /\ queued \in BOOLEAN /\ ready \in BOOLEAN

\* They stay Boolean, whatever happens.
LEMMA FlagTypes ==
  ASSUME TypeOK, Next
  PROVE  Flags'
<1> USE DEF Flags, TypeOK, api, server, worker, budget
<1>1. CASE Reconcile
  BY <1>1, Zenon DEF Reconcile
<1>2. CASE start
  BY <1>2, Zenon DEF start, Checkpointed
<1>3. CASE createSnapshot
  BY <1>3, Zenon DEF createSnapshot, PutSnap
<1>4. CASE observe
  BY <1>4, Zenon DEF observe
<1>5. CASE PatchStatus
  BY <1>5, Zenon DEF PatchStatus
<1>6. CASE Restart
  BY <1>6, Zenon DEF Restart
<1>7. CASE Deliver
  BY <1>7, Zenon DEF Deliver
<1>8. CASE Commit
  BY <1>8, Zenon DEF Commit
<1>9. CASE ServerReady
  BY <1>9, Zenon DEF ServerReady
<1>10. CASE ServerDown
  BY <1>10, Zenon DEF ServerDown
<1>11. CASE InstallSnapshotApi
  BY <1>11, Zenon DEF InstallSnapshotApi
<1>12. CASE Cut \/ SnapReady \/ SnapError \/ CollectSnap \/ DeleteSnap
  BY <1>12, Zenon DEF Cut, SnapReady, SnapError, CollectSnap, DeleteSnap, PutSnap
<1>13. CASE CreateBackup \/ DeleteBackup \/ CollectBackup
  BY <1>13, Zenon DEF CreateBackup, DeleteBackup, CollectBackup
<1>14. CASE GetFails
  BY <1>14, Zenon DEF GetFails
<1> QED
  BY <1>1, <1>2, <1>3, <1>4, <1>5, <1>6, <1>7, <1>8, <1>9, <1>10, <1>11, <1>12, <1>13, <1>14
     DEF Next, Worker, Environment

\* The steps of the worker preserve the types.
LEMMA WorkerType ==
  ASSUME TypeOK, Worker
  PROVE  TypeOK'
<1>0. Flags'
  BY FlagTypes DEF Next
<1>1. CASE Reconcile
  <2>1. cache # NoObj => cache.status \in Status
    BY DEF TypeOK, BackupObj
  <2>2. CASE UNCHANGED <<pc, seen, next>>
    BY <1>1, <2>2 DEF Reconcile, TypeOK, api, server, budget
  <2>3. CASE cache # NoObj /\ pc' \in {"observe", "start"} /\ seen' = cache /\ next' = cache.status
    BY <1>1, <2>1, <2>3 DEF Reconcile, TypeOK, api, server, budget
  <2> QED
    BY <1>1, <2>2, <2>3 DEF Reconcile, Gone
<1>2. CASE start
  <2>1. pending(next) \in Status /\ [next EXCEPT !.started = committed] \in Status
    BY StatusTypes DEF TypeOK
  <2> QED
    BY <1>2, <2>1 DEF start, TypeOK, Checkpointed, Fault, api, server
<1>3. CASE createSnapshot
  <2>1. seen \in BackupObj /\ seen.status \in Status /\ seen.uid \in Nat \ {0}
    BY <1>3 DEF createSnapshot, TypeOK, BackupObj
  <2>2. fail(seen.status) \in Status /\ [next EXCEPT !.phase = "Running"] \in Status
    BY <2>1, StatusTypes DEF TypeOK, Phases
  <2>3. VolumeSnapshot \in SnapObj
    BY <2>1 DEF VolumeSnapshot, SnapObj
  <2>4. NewStatus \in Status
    BY DEF NewStatus, Status, Phases
  <2> QED
    BY <1>0, <1>3, <2>2, <2>3, <2>4
       DEF createSnapshot, Flags, TypeOK, PutSnap, Fault, Idle, server
<1>4. CASE observe
  <2>1. fail(next) \in Status /\ [next EXCEPT !.phase = "Completed"] \in Status
    BY StatusTypes DEF TypeOK, Phases
  <2>2. next' \in Status
    BY <1>4, <2>1 DEF observe, SnapshotOutcome, TypeOK
  <2> QED
    BY <1>4, <2>2 DEF observe, TypeOK, api, server, budget
<1>5. CASE PatchStatus
  <2>1. backup' \in BackupObj \cup {NoObj} /\ cache' \in BackupObj \cup {NoObj}
    BY <1>5, PatchStatusEffect, PatchedType DEF TypeOK
  <2>2. NewStatus \in Status
    BY DEF NewStatus, Status, Phases
  <2> QED
    BY <1>0, <1>5, <2>1, <2>2, PatchStatusEffect DEF PatchStatus, Flags, TypeOK, Idle, server
<1>6. CASE GetFails
  <2>1. NewStatus \in Status
    BY DEF NewStatus, Status, Phases
  <2> QED
    BY <1>0, <1>6, <2>1 DEF GetFails, Flags, TypeOK, Fault, Idle, api, server
<1> QED
  BY <1>1, <1>2, <1>3, <1>4, <1>5, <1>6 DEF Worker

\* What the other actors write is well formed.
LEMMA OthersType ==
  ASSUME TypeOK, Restart \/ Environment
  PROVE  TypeOK'
<1>0. Flags'
  BY FlagTypes DEF Next
<1>1. CASE Restart
  <2>1. NewStatus \in Status
    BY DEF NewStatus, Status, Phases
  <2> QED
    BY <1>1, <2>1 DEF Restart, TypeOK, Fault, Idle, server
<1>2. CASE Deliver \/ Commit \/ ServerReady \/ ServerDown \/ InstallSnapshotApi
  BY <1>0, <1>2 DEF Deliver, Commit, ServerReady, ServerDown, InstallSnapshotApi, Flags,
                    TypeOK, api, server, worker, budget
<1>3. CASE Cut \/ SnapReady \/ SnapError \/ CollectSnap \/ DeleteSnap
  <2>1. snap' \in SnapObj \cup {NoObj}
    <3>1. CASE Cut
      <4>1. durable \in Nat /\ snap \in SnapObj
        BY <3>1 DEF Cut, TypeOK
      <4> QED
        BY <3>1, <4>1 DEF Cut, PutSnap, SnapObj
    <3>2. CASE SnapReady
      BY <3>2 DEF SnapReady, PutSnap, TypeOK, SnapObj
    <3>3. CASE SnapError
      BY <3>3 DEF SnapError, PutSnap, TypeOK, SnapObj
    <3>4. CASE CollectSnap \/ DeleteSnap
      BY <3>4 DEF CollectSnap, DeleteSnap, PutSnap
    <3> QED
      BY <1>3, <3>1, <3>2, <3>3, <3>4
  <2>a. captured' \subseteq Capture
    <3>1. CASE SnapReady
      <4>1. snap \in SnapObj /\ snap.cut # NoCut
        BY <3>1 DEF SnapReady, TypeOK
      <4>2. [owner |-> snap.owner, cut |-> snap.cut] \in Capture
        BY <4>1 DEF SnapObj, Capture
      <4> QED
        BY <3>1, <4>2 DEF SnapReady, TypeOK
    <3>2. CASE Cut \/ SnapError \/ CollectSnap \/ DeleteSnap
      BY <3>2 DEF Cut, SnapError, CollectSnap, DeleteSnap, TypeOK
    <3> QED
      BY <1>3, <3>1, <3>2
  <2>2. errors' \in Nat
    BY <1>3 DEF Cut, SnapReady, SnapError, CollectSnap, DeleteSnap, TypeOK, budget
  <2> QED
    BY <1>0, <1>3, <2>1, <2>a, <2>2
       DEF Cut, SnapReady, SnapError, CollectSnap, DeleteSnap, Flags, TypeOK,
           server, worker, budget
<1>4. CASE CreateBackup \/ DeleteBackup \/ CollectBackup
  <2>1. NewStatus \in Status
    BY DEF NewStatus, Status, Phases
  <2>2. backup' \in BackupObj \cup {NoObj}
    <3>1. CASE CreateBackup
      BY <2>1, <3>1 DEF CreateBackup, PutBackup, TypeOK, BackupObj
    <3>2. CASE DeleteBackup
      BY <3>2 DEF DeleteBackup, PutBackup, TypeOK, BackupObj
    <3>3. CASE CollectBackup
      BY <3>3 DEF CollectBackup, PutBackup
    <3> QED
      BY <1>4, <3>1, <3>2, <3>3
  <2>3. cache' = cache \/ cache' = backup'
    BY <1>4, Zenon DEF CreateBackup, DeleteBackup, CollectBackup, PutBackup
  <2>4. uids' = uids \/ uids' = uids + 1
    BY <1>4, Zenon DEF CreateBackup, DeleteBackup, CollectBackup, budget
  <2> QED
    BY <1>0, <1>4, <2>2, <2>3, <2>4
       DEF CreateBackup, DeleteBackup, CollectBackup, Flags, TypeOK, server, worker, budget
<1> QED
  BY <1>1, <1>2, <1>3, <1>4 DEF Environment

\* Every step preserves the types.
LEMMA NextType == TypeOK /\ [Next]_vars => TypeOK'
<1> SUFFICES ASSUME TypeOK, [Next]_vars PROVE TypeOK'
  OBVIOUS
<1>1. CASE Next
  BY <1>1, WorkerType, OthersType DEF Next
<1>2. CASE UNCHANGED vars
  BY <1>2 DEF vars, api, server, worker, budget, TypeOK
<1> QED
  BY <1>1, <1>2

\* The initial state is well typed.
LEMMA InitType == Init => TypeOK
<1> SUFFICES ASSUME Init PROVE TypeOK
  OBVIOUS
<1>1. Flags
  BY BackupAssumption, Zenon DEF Init, Flags
<1> QED
  BY <1>1 DEF Init, Flags, TypeOK, NewStatus, Status, Phases, NoCut

\* Every variable of the Backup controller keeps its type in every behaviour: in
\* particular a running reconcile has a Backup in hand, and no more is durable
\* than was committed.
THEOREM TypeCorrect == Spec => []TypeOK
  BY InitType, NextType, PTL DEF Spec

(***************************************************************************)
(* Freshness of a Backup's own snapshot.                                   *)
(***************************************************************************)
\* UIDs are handed out in order, so nothing refers to a Backup yet to come.
UidsKnown ==
  /\ backup # NoObj => backup.uid <= uids /\ backup.since <= committed
  /\ cache # NoObj => cache.uid <= uids
  /\ seen # NoObj => seen.uid <= uids
  /\ snap # NoObj => snap.owner <= uids

\* Once a reconcile of this Backup has run CHECKPOINT, what was committed when
\* the Backup was created is in the data files, and stays there.
Flushed ==
  backup # NoObj =>
    /\ pc = "create" /\ seen.uid = backup.uid => durable >= backup.since
    /\ snap # NoObj /\ snap.owner = backup.uid => durable >= backup.since

\* OwnSnapshotIsFresh alone is not inductive: the cut is taken later, by another
\* actor, from what is durable then.
FreshInv == TypeOK /\ UidsKnown /\ Flushed /\ OwnSnapshotIsFresh

\* A step that may only move the status of the Backup, and neither what the
\* reconcile has read, unless it goes idle, nor the snapshot, unless it goes.
LEMMA QuietStep ==
  ASSUME FreshInv, TypeOK',
         uids' = uids, committed' = committed, durable' = durable,
         \/ backup' = NoObj
         \/ /\ backup # NoObj /\ backup' # NoObj
            /\ backup'.uid = backup.uid /\ backup'.since = backup.since,
         cache' = cache \/ cache' = backup \/ cache' = backup',
         \/ seen' = seen /\ pc' = pc
         \/ seen' = NoObj /\ pc' = "idle"
         \/ seen' = seen /\ pc' \in {"idle", "status", "start", "observe"}
         \/ seen' = cache /\ pc' \in {"start", "observe"},
         snap' = snap \/ snap' = NoObj
  PROVE  FreshInv'
<1>1. UidsKnown'
  BY DEF FreshInv, UidsKnown
<1>2. Flushed'
  BY DEF FreshInv, Flushed
<1>3. OwnSnapshotIsFresh'
  BY DEF FreshInv, OwnSnapshotIsFresh
<1> QED
  BY <1>1, <1>2, <1>3 DEF FreshInv

\* The steps of the worker preserve the invariant.
LEMMA WorkerFresh ==
  ASSUME FreshInv, Worker
  PROVE  FreshInv'
<1>0. TypeOK'
  BY WorkerType DEF FreshInv
<1>1. CASE Reconcile
  <2>1. (UNCHANGED <<pc, seen>>) \/ (seen' = cache /\ pc' \in {"start", "observe"})
    BY <1>1 DEF Reconcile
  <2>2. UNCHANGED <<backup, cache, snap, uids, committed, durable>>
    BY <1>1 DEF Reconcile, api, server, budget
  <2>3. backup' = NoObj \/ (backup # NoObj /\ backup' # NoObj /\ backup'.uid = backup.uid
                              /\ backup'.since = backup.since)
    BY <2>2
  <2> QED
    BY <1>0, <2>1, <2>2, <2>3, QuietStep
<1>2. CASE start
  <2>1. /\ UNCHANGED <<backup, cache, snap, seen, uids, committed>>
        /\ pc' \in {"create", "status"}
        /\ durable' = durable \/ durable' = committed
        /\ pc' = "create" => durable' = committed
    BY <1>2, Zenon DEF start, Checkpointed, api, server
  <2>2. durable <= durable' /\ durable' \in Nat /\ committed \in Nat
    BY <2>1 DEF FreshInv, TypeOK
  <2>3. backup # NoObj => backup.since \in Nat
    BY DEF FreshInv, TypeOK, BackupObj
  <2>4. UidsKnown'
    BY <2>1 DEF FreshInv, UidsKnown
  <2>5. Flushed'
    BY <2>1, <2>2, <2>3 DEF FreshInv, UidsKnown, Flushed, TypeOK
  <2>6. OwnSnapshotIsFresh'
    BY <2>1 DEF FreshInv, OwnSnapshotIsFresh
  <2> QED
    BY <1>0, <2>4, <2>5, <2>6 DEF FreshInv
<1>3. CASE createSnapshot
  <2>1. UNCHANGED <<backup, cache, uids, committed, durable>>
    BY <1>3 DEF createSnapshot, server
  <2>2. \/ seen' = seen /\ pc' = "status"
        \/ seen' = NoObj /\ pc' = "idle"
    BY <1>3, Zenon DEF createSnapshot, Idle
  <2>3. snap' = snap \/ snap' = VolumeSnapshot
    BY <1>3, Zenon DEF createSnapshot, PutSnap
  <2>4. seen # NoObj /\ pc = "create"
    BY <1>3 DEF createSnapshot, FreshInv, TypeOK
  <2>5. VolumeSnapshot.owner = seen.uid /\ VolumeSnapshot.cut = NoCut
    BY DEF VolumeSnapshot
  <2>6. UidsKnown'
    BY <2>1, <2>2, <2>3, <2>4, <2>5 DEF FreshInv, UidsKnown
  <2>7. Flushed'
    BY <2>1, <2>2, <2>3, <2>4, <2>5 DEF FreshInv, Flushed
  <2>8. OwnSnapshotIsFresh'
    BY <2>1, <2>3, <2>5 DEF FreshInv, OwnSnapshotIsFresh
  <2> QED
    BY <1>0, <2>6, <2>7, <2>8 DEF FreshInv
<1>4. CASE observe
  <2>1. UNCHANGED <<backup, cache, snap, seen, uids, committed, durable>> /\ pc' = "status"
    BY <1>4 DEF observe, api, server, budget
  <2>2. backup' = NoObj \/ (backup # NoObj /\ backup' # NoObj /\ backup'.uid = backup.uid
                              /\ backup'.since = backup.since)
    BY <2>1
  <2> QED
    BY <1>0, <2>1, <2>2, QuietStep
<1>5. CASE PatchStatus
  <2>1. UNCHANGED <<snap, uids, committed, durable>> /\ seen' = NoObj /\ pc' = "idle"
    BY <1>5 DEF PatchStatus, Idle, server
  <2>2. TypeOK
    BY DEF FreshInv
  <2>3. backup' = NoObj \/ (backup # NoObj /\ backup' # NoObj /\ backup'.uid = backup.uid
                              /\ backup'.since = backup.since)
    BY <1>5, <2>2, PatchStatusEffect, PatchedType, NoObjAssumption DEF TypeOK
  <2>4. cache' = cache \/ cache' = backup'
    BY <1>5, <2>2, PatchStatusEffect
  <2> QED
    BY <1>0, <2>1, <2>3, <2>4, QuietStep
<1>6. CASE GetFails
  <2>1. UNCHANGED <<backup, cache, snap, uids, committed, durable>> /\ seen' = NoObj /\ pc' = "idle"
    BY <1>6 DEF GetFails, Idle, api, server
  <2> QED
    BY <1>0, <2>1, QuietStep
<1> QED
  BY <1>1, <1>2, <1>3, <1>4, <1>5, <1>6 DEF Worker

\* So do the others: a new Backup's UID is one nothing refers to yet.
LEMMA OthersFresh ==
  ASSUME FreshInv, Restart \/ Environment
  PROVE  FreshInv'
<1>0. TypeOK'
  BY OthersType DEF FreshInv
<1> DEFINE Same == backup' = NoObj \/ (backup # NoObj /\ backup' # NoObj
                     /\ backup'.uid = backup.uid /\ backup'.since = backup.since)
<1>1. CASE Restart
  <2>1. UNCHANGED <<backup, snap, uids, committed, durable>> /\ cache' = backup
          /\ seen' = NoObj /\ pc' = "idle"
    BY <1>1 DEF Restart, Idle, server
  <2> QED
    BY <1>0, <2>1, QuietStep
<1>2. CASE Deliver \/ ServerReady \/ ServerDown \/ InstallSnapshotApi
  <2>1. UNCHANGED <<backup, snap, seen, pc, uids, committed, durable>>
          /\ (cache' = cache \/ cache' = backup)
    BY <1>2, Zenon DEF Deliver, ServerReady, ServerDown, InstallSnapshotApi,
                       api, server, worker, budget
  <2> QED
    BY <1>0, <2>1, QuietStep
<1>3. CASE Commit
  <2>1. UNCHANGED <<backup, cache, snap, seen, pc, uids, durable>> /\ committed' = committed + 1
    BY <1>3 DEF Commit, api, worker, budget
  <2>2. UidsKnown'
    BY <2>1 DEF FreshInv, UidsKnown, TypeOK, BackupObj
  <2>3. Flushed' /\ OwnSnapshotIsFresh'
    BY <2>1 DEF FreshInv, Flushed, OwnSnapshotIsFresh
  <2> QED
    BY <1>0, <2>2, <2>3 DEF FreshInv
<1>4. CASE CollectSnap \/ DeleteSnap
  <2>1. UNCHANGED <<backup, cache, seen, pc, uids, committed, durable>> /\ snap' = NoObj
    BY <1>4 DEF CollectSnap, DeleteSnap, PutSnap, server, worker, budget
  <2> QED
    BY <1>0, <2>1, QuietStep
<1>5. CASE Cut \/ SnapReady \/ SnapError
  <2>1. /\ UNCHANGED <<backup, cache, seen, pc, uids, committed, durable>>
        /\ snap # NoObj /\ snap \in SnapObj
    BY <1>5 DEF Cut, SnapReady, SnapError, server, worker, budget, FreshInv, TypeOK
  <2>2. snap'.owner = snap.owner /\ (snap'.cut = snap.cut \/ snap'.cut = durable)
    BY <1>5, <2>1 DEF Cut, SnapReady, SnapError, PutSnap, SnapObj
  <2>3. UidsKnown'
    BY <2>1, <2>2 DEF FreshInv, UidsKnown
  <2>4. Flushed'
    BY <2>1, <2>2 DEF FreshInv, Flushed
  <2>5. OwnSnapshotIsFresh'
    BY <2>1, <2>2 DEF FreshInv, Flushed, OwnSnapshotIsFresh
  <2> QED
    BY <1>0, <2>3, <2>4, <2>5 DEF FreshInv
<1>6. CASE CreateBackup
  <2>1. /\ UNCHANGED <<snap, seen, pc, committed, durable>>
        /\ uids' = uids + 1 /\ uids \in Nat
        /\ cache' = cache \/ cache' = backup'
        /\ backup'.uid = uids + 1 /\ backup'.since = committed
    BY <1>6 DEF CreateBackup, PutBackup, server, worker, FreshInv, TypeOK
  <2>2. /\ snap # NoObj => snap.owner <= uids /\ snap.owner \in Nat
        /\ seen # NoObj => seen.uid <= uids /\ seen.uid \in Nat
        /\ cache # NoObj => cache.uid <= uids /\ cache.uid \in Nat
        /\ pc # "idle" => seen # NoObj
    BY DEF FreshInv, UidsKnown, TypeOK, SnapObj, BackupObj
  <2>3. UidsKnown'
    BY <2>1, <2>2 DEF FreshInv, UidsKnown, TypeOK
  <2>4. Flushed'
    BY <2>1, <2>2 DEF Flushed
  <2>5. OwnSnapshotIsFresh'
    BY <2>1, <2>2 DEF OwnSnapshotIsFresh
  <2> QED
    BY <1>0, <2>3, <2>4, <2>5 DEF FreshInv
<1>7. CASE DeleteBackup \/ CollectBackup
  <2>1. UNCHANGED <<snap, seen, pc, uids, committed, durable>>
          /\ (cache' = cache \/ cache' = backup')
    BY <1>7, Zenon DEF DeleteBackup, CollectBackup, PutBackup, server, worker, budget
  <2>2. backup # NoObj /\ backup' \in {NoObj, [backup EXCEPT !.deleting = TRUE]}
    BY <1>7, Zenon DEF DeleteBackup, CollectBackup, PutBackup
  <2>3. backup \in BackupObj
    BY <2>2 DEF FreshInv, TypeOK
  <2>4. Same
    BY <2>2, <2>3, NoObjAssumption DEF BackupObj
  <2> QED
    BY <1>0, <2>1, <2>4, QuietStep
<1> QED
  BY <1>1, <1>2, <1>3, <1>4, <1>5, <1>6, <1>7 DEF Environment

\* The invariant holds at the start.
LEMMA InitFresh == Init => FreshInv
<1> SUFFICES ASSUME Init PROVE FreshInv
  OBVIOUS
<1>1. UidsKnown /\ Flushed /\ OwnSnapshotIsFresh
  BY DEF Init, UidsKnown, Flushed, OwnSnapshotIsFresh
<1> QED
  BY <1>1, InitType DEF FreshInv

\* Every step preserves it.
LEMMA NextFresh == FreshInv /\ [Next]_vars => FreshInv'
<1> SUFFICES ASSUME FreshInv, [Next]_vars PROVE FreshInv'
  OBVIOUS
<1>1. CASE Next
  BY <1>1, WorkerFresh, OthersFresh DEF Next
<1>2. CASE UNCHANGED vars
  <2>1. TypeOK'
    BY <1>2, NextType DEF FreshInv
  <2>2. UNCHANGED <<backup, cache, snap, seen, pc, uids, committed, durable>>
    BY <1>2 DEF vars, api, server, worker, budget
  <2> QED
    BY <2>1, <2>2, QuietStep
<1> QED
  BY <1>1, <1>2

\* A snapshot taken for a Backup holds everything that was committed when the
\* Backup was created, for any number of Backups of the same name, stale reads,
\* lost answers and restarts: start runs CHECKPOINT before it requests a snapshot.
THEOREM OwnSnapshotAlwaysFresh == Spec => []OwnSnapshotIsFresh
<1>1. FreshInv => OwnSnapshotIsFresh
  BY DEF FreshInv
<1> QED
  BY <1>1, InitFresh, NextFresh, PTL DEF Spec

(***************************************************************************)
(* What a Completed Backup can be relied on for.                           *)
(*                                                                         *)
(* The phase is written several steps after the snapshot was looked at,    *)
(* and from a copy of the Backup that may be old; the snapshot may be gone *)
(* by then.  What stays is that it has been ready to use.                  *)
(***************************************************************************)
\* A snapshot of this Backup, with what was committed when it was asked for, has
\* been ready to use.
Covered == \E c \in captured : c.owner = backup.uid /\ c.cut >= backup.since

\* What a reconcile under way will report, and what is reported, is covered; a
\* snapshot that is ready has been recorded.
CoveredInv ==
  /\ uids <= 1
  /\ snap # NoObj /\ snap.ready
       => snap.cut # NoCut /\ [owner |-> snap.owner, cut |-> snap.cut] \in captured
  /\ backup # NoObj =>
       /\ pc # "idle" /\ next.phase = "Completed" => Covered
       /\ backup.status.phase = "Completed" => Covered

\* A step that neither takes away what was recorded nor touches a snapshot that is
\* ready, keeps the Backup or deletes it, and computes no new success.
LEMMA QuietCovered ==
  ASSUME CoveredInv, uids' = uids, captured \subseteq captured',
         \/ snap' = snap \/ snap' = NoObj
         \/ snap' # NoObj /\ ~snap'.ready,
         \/ backup' = NoObj
         \/ /\ backup # NoObj /\ backup'.uid = backup.uid /\ backup'.since = backup.since
            /\ backup'.status.phase \in {backup.status.phase}
                 \cup (IF pc # "idle" THEN {next.phase} ELSE {}),
         pc' = "idle" \/ next'.phase # "Completed" \/ (pc # "idle" /\ next'.phase = next.phase)
  PROVE  CoveredInv'
<1>1. ASSUME backup' # NoObj, Covered PROVE Covered'
  BY <1>1 DEF Covered
<1> QED
  BY <1>1 DEF CoveredInv

\* The steps of the worker: only observe computes a success, from a snapshot that
\* is ready and, by FreshInv, holds what the Backup asked for.
LEMMA WorkerCovered ==
  ASSUME FreshInv, CoveredInv, Worker
  PROVE  CoveredInv'
<1>0. TypeOK /\ next \in Status /\ next' \in Status
  BY WorkerType DEF FreshInv, TypeOK
<1>a. backup # NoObj => backup \in BackupObj
  BY <1>0 DEF TypeOK
<1>1. CASE Reconcile
  <2>1. UNCHANGED <<backup, snap, captured, uids>>
    BY <1>1 DEF Reconcile, api, budget
  <2>2. pc' = "idle" \/ next'.phase # "Completed"
    BY <1>1 DEF Reconcile, Final, Gone
  <2> QED
    BY <2>1, <2>2, QuietCovered
<1>2. CASE start
  <2>1. UNCHANGED <<backup, snap, captured, uids>> /\ pc = "start"
    BY <1>2 DEF start, api
  <2>2. next' = pending(next) \/ next' = [next EXCEPT !.started = committed]
    BY <1>2, Zenon DEF start
  <2>3. next'.phase \in {"Pending", next.phase}
    BY <1>0, <2>2 DEF pending, Status
  <2> QED
    BY <2>1, <2>3, QuietCovered
<1>3. CASE createSnapshot
  <2>1. UNCHANGED <<backup, captured, uids>> /\ pc = "create"
    BY <1>3 DEF createSnapshot
  <2>2. snap' = snap \/ snap' = VolumeSnapshot
    BY <1>3, Zenon DEF createSnapshot, PutSnap
  <2>3. VolumeSnapshot # NoObj /\ ~VolumeSnapshot.ready
    <3>1. seen \in BackupObj
      BY <1>0, <2>1 DEF TypeOK
    <3>2. VolumeSnapshot \in SnapObj
      BY <3>1 DEF VolumeSnapshot, SnapObj, BackupObj
    <3> QED
      BY <3>2, NoObjAssumption DEF VolumeSnapshot
  <2>4. next' \in {fail(seen.status), [next EXCEPT !.phase = "Running"]} \/ pc' = "idle"
    BY <1>3, Zenon DEF createSnapshot, Idle
  <2>5. seen.status \in Status
    BY <1>0, <2>1 DEF TypeOK, BackupObj
  <2>6. pc' = "idle" \/ next'.phase # "Completed"
    BY <1>0, <2>4, <2>5 DEF fail, Status
  <2> QED
    BY <2>1, <2>2, <2>3, <2>6, QuietCovered
<1>4. CASE observe
  <2>1. UNCHANGED <<backup, snap, captured, uids>> /\ pc = "observe"
    BY <1>4 DEF observe, api, budget
  <2>2. CASE next' = fail(next) \/ next' = next
    <3>1. next'.phase \in {"Failed", next.phase}
      BY <1>0, <2>2 DEF fail, Status
    <3> QED
      BY <2>1, <3>1, QuietCovered
  <2>3. CASE snap # NoObj /\ snap.ready
    <3>1. ASSUME backup # NoObj PROVE Covered
      <4>1. snap \in SnapObj /\ backup \in BackupObj /\ uids \in Nat
        BY <1>0, <2>3, <3>1 DEF TypeOK
      <4>2. snap.owner <= uids /\ backup.uid <= uids /\ uids <= 1
        BY <2>3, <3>1 DEF FreshInv, UidsKnown, CoveredInv
      <4>3. snap.owner = backup.uid
        BY <4>1, <4>2 DEF SnapObj, BackupObj
      <4>4. snap.cut >= backup.since /\ [owner |-> snap.owner, cut |-> snap.cut] \in captured
        BY <2>3, <3>1, <4>3 DEF FreshInv, OwnSnapshotIsFresh, CoveredInv
      <4> QED
        BY <4>3, <4>4 DEF Covered
    <3> QED
      BY <2>1, <3>1 DEF CoveredInv, Covered
  <2> QED
    BY <1>4, <2>2, <2>3 DEF observe, SnapshotOutcome
<1>5. CASE PatchStatus
  <2>1. UNCHANGED <<snap, captured, uids>> /\ pc' = "idle" /\ pc = "status"
    BY <1>5 DEF PatchStatus, Idle
  <2>2. \/ backup' = backup
        \/ backup \in BackupObj /\ backup' = Patched(backup)
    BY <1>0, <1>5, PatchStatusEffect
  <2>3. CASE backup' = backup
    BY <2>1, <2>3, QuietCovered
  <2>4. CASE backup \in BackupObj /\ backup' = Patched(backup)
    <3>1. /\ backup'.uid = backup.uid /\ backup'.since = backup.since
          /\ backup'.status.phase \in {backup.status.phase, next.phase}
      BY <1>0, <2>4, PatchedType
    <3>2. backup # NoObj
      BY <2>4, NoObjAssumption
    <3> QED
      BY <2>1, <3>1, <3>2, QuietCovered
  <2> QED
    BY <2>2, <2>3, <2>4
<1>6. CASE GetFails
  <2>1. UNCHANGED <<backup, snap, captured, uids>> /\ pc' = "idle"
    BY <1>6 DEF GetFails, Idle, api
  <2> QED
    BY <2>1, QuietCovered
<1> QED
  BY <1>1, <1>2, <1>3, <1>4, <1>5, <1>6 DEF Worker

\* The steps of the others: the name is used once, so a new Backup is the first
\* and no reconcile is under way.
LEMMA OthersCovered ==
  ASSUME MaxUid <= 1, FreshInv, CoveredInv, Restart \/ Environment
  PROVE  CoveredInv'
<1>0. TypeOK /\ TypeOK'
  BY OthersType DEF FreshInv
<1>1. CASE Restart
  <2>1. UNCHANGED <<backup, snap, captured, uids>> /\ pc' = "idle"
    BY <1>1 DEF Restart, Idle
  <2> QED
    BY <2>1, QuietCovered
<1>2. CASE Deliver \/ Commit \/ ServerReady \/ ServerDown \/ InstallSnapshotApi
  <2>1. UNCHANGED <<backup, snap, captured, uids, pc, next>>
    BY <1>2, Zenon DEF Deliver, Commit, ServerReady, ServerDown, InstallSnapshotApi,
                       api, worker, budget
  <2> QED
    BY <2>1, QuietCovered
<1>3. CASE CollectSnap \/ DeleteSnap
  <2>1. UNCHANGED <<backup, captured, uids, pc, next>> /\ snap' = NoObj
    BY <1>3 DEF CollectSnap, DeleteSnap, PutSnap, worker, budget
  <2> QED
    BY <2>1, QuietCovered
<1>4. CASE Cut \/ SnapError
  <2>1. /\ UNCHANGED <<backup, captured, uids, pc, next>>
        /\ snap \in SnapObj /\ snap # NoObj
        /\ snap' \in {[snap EXCEPT !.cut = durable], [snap EXCEPT !.error = TRUE]}
    BY <1>0, <1>4 DEF Cut, SnapError, PutSnap, worker, budget, TypeOK
  <2>2. ~snap.ready
    BY <1>4 DEF Cut, SnapError, CoveredInv
  <2>3. snap' # NoObj /\ ~snap'.ready
    <3>1. durable \in Nat
      BY <1>0 DEF TypeOK
    <3>2. snap' \in SnapObj
      BY <2>1, <3>1 DEF SnapObj
    <3> QED
      BY <2>1, <2>2, <3>2, NoObjAssumption DEF SnapObj
  <2> QED
    BY <2>1, <2>3, QuietCovered
<1>5. CASE SnapReady
  <2>1. /\ UNCHANGED <<backup, uids, pc, next>>
        /\ snap \in SnapObj /\ snap.cut # NoCut
        /\ snap' = [snap EXCEPT !.ready = TRUE, !.error = FALSE]
        /\ captured' = captured \cup {[owner |-> snap.owner, cut |-> snap.cut]}
    BY <1>0, <1>5 DEF SnapReady, PutSnap, worker, budget, TypeOK
  <2>2. snap'.owner = snap.owner /\ snap'.cut = snap.cut
    BY <2>1 DEF SnapObj
  <2>3. Covered => Covered'
    BY <2>1 DEF Covered
  <2> QED
    BY <2>1, <2>2, <2>3 DEF CoveredInv
<1>6. CASE CreateBackup
  <2>1. /\ UNCHANGED <<snap, captured, pc, next>>
        /\ uids < MaxUid /\ uids' = uids + 1
        /\ backup'.status = NewStatus
    BY <1>6 DEF CreateBackup, PutBackup, worker
  <2>2. uids = 0
    BY <1>0, <2>1, BackupAssumption DEF TypeOK
  <2>3. pc = "idle"
    BY <1>0, <2>2 DEF FreshInv, UidsKnown, TypeOK, BackupObj
  <2> QED
    BY <2>1, <2>2, <2>3 DEF CoveredInv, NewStatus
<1>7. CASE DeleteBackup \/ CollectBackup
  <2>1. UNCHANGED <<snap, captured, uids, pc, next>> /\ backup # NoObj
          /\ backup' \in {NoObj, [backup EXCEPT !.deleting = TRUE]}
    BY <1>7, Zenon DEF DeleteBackup, CollectBackup, PutBackup, worker, budget
  <2>2. backup \in BackupObj
    BY <1>0, <2>1 DEF TypeOK
  <2>3. \/ backup' = NoObj
        \/ /\ backup'.uid = backup.uid /\ backup'.since = backup.since
           /\ backup'.status.phase = backup.status.phase
    BY <2>1, <2>2 DEF BackupObj
  <2> QED
    BY <2>1, <2>3, QuietCovered
<1> QED
  BY <1>1, <1>2, <1>3, <1>4, <1>5, <1>6, <1>7 DEF Environment

\* As long as the name is used for one Backup, one that is Completed has had a
\* snapshot that was ready to use and holds everything committed when the Backup
\* was asked for: with a lagging informer, which lets a reconcile run on an old
\* phase, failed calls, restarts, errors of the CSI driver and snapshots deleted
\* under way, in any number.
THEOREM CompletedAlwaysCovered == ASSUME MaxUid <= 1 PROVE Spec => []CompletedIsCovered
<1>1. Init => CoveredInv
  BY DEF Init, CoveredInv
<1>2. FreshInv /\ CoveredInv /\ [Next]_vars => CoveredInv'
  <2> SUFFICES ASSUME FreshInv, CoveredInv, [Next]_vars PROVE CoveredInv'
    OBVIOUS
  <2>1. CASE Next
    BY <2>1, WorkerCovered, OthersCovered DEF Next
  <2>2. CASE UNCHANGED vars
    BY <2>2, QuietCovered DEF vars, api, worker, budget
  <2> QED
    BY <2>1, <2>2
<1>3. CoveredInv => CompletedIsCovered
  BY DEF CoveredInv, Covered, CompletedIsCovered
<1> QED
  BY <1>1, <1>2, <1>3, InitFresh, NextFresh, PTL DEF Spec
=============================================================================
