---------------------------- MODULE ScheduledBackup ----------------------------
(***************************************************************************)
(* ScheduledBackupReconciler                                               *)
(* (internal/controller/scheduledbackup_controller.go): one                *)
(* ScheduledBackup, the Backups it creates and prunes, and the clock.  The *)
(* clock ticks in the second, the unit of a Backup's name and of the times *)
(* the status records; it may tick between any two steps of a reconcile.   *)
(***************************************************************************)
EXTENDS Integers, FiniteSets, FiniteSetsExt

CONSTANTS Specs,      \* specs the user may write
          Runs,       \* the times the cron expression matches
          MaxTime,    \* the clock stops there
          Lag,        \* may the ScheduledBackup informer lag behind?
          ListLag,    \* may the Backup informer?
          NoObj,      \* "not found"
          Outcomes,   \* how a Backup may end
          MaxEdits,   \* edits of the spec
          MaxDrops,   \* Backups users delete
          MaxFaults   \* failed calls and operator restarts

KeepAll == 0    \* spec.keep is unset; otherwise at least 1
Never   == -1   \* an unset time
Horizon == MaxTime + 1

SpecType == [valid : BOOLEAN, suspend : BOOLEAN, immediate : BOOLEAN, keep : Nat]

ASSUME ScheduleAssumption ==
  /\ Specs \subseteq SpecType
  /\ MaxTime \in Nat /\ MaxEdits \in Nat /\ MaxDrops \in Nat /\ MaxFaults \in Nat
  /\ Outcomes \subseteq {"Completed", "Failed"}
  /\ Runs \subseteq 1..MaxTime
  /\ Lag \in BOOLEAN /\ ListLag \in BOOLEAN

VARIABLES now,       \* the clock
          sched,     \* the ScheduledBackup in the API server, or NoObj
          cache,     \* the operator's copy of it
          queued,    \* is its key in the work queue?
          wake,      \* when the delayed queue adds the key, or Never
          backups,   \* the Backups that carry the schedule's label
          listed,    \* the operator's copies of them
          pc,        \* next step of the running reconcile, or "idle"
          seen,      \* the ScheduledBackup the reconcile read from the cache
          at,        \* the time it took from the clock
          new,       \* the status it computed
          victims,   \* Backups left to prune
          edits, faults,   \* what the bounds count
          taken,     \* history: the times in the names of Backups ever created
          dropped,   \* history: Backups that users deleted
          pruned,    \* history: Backups that prune deleted
          keeps      \* history: the values of spec.keep it went by

worker  == <<pc, seen, at, new, victims>>
stored  == <<backups, listed>>
history == <<taken, dropped, pruned, keeps>>
vars    == <<now, sched, cache, queued, wake, stored, worker, edits, faults, history>>

Time      == 0..MaxTime
Status    == [last : Time \cup {Never}, next : (1..Horizon) \cup {Never},
              reason : {"None", "Scheduled", "Suspended", "InvalidSchedule"}]
SchedObj  == [created : Time, deleting : BOOLEAN, spec : Specs, status : Status]
\* at is the time in the name, created the creation timestamp.
BackupObj == [at : Time, created : Time, phase : {"Running", "Completed", "Failed"}]

ASSUME NoObjAssumption == NoObj \notin SchedObj

NewStatus == [last |-> Never, next |-> Never, reason |-> "None"]

TypeOK ==
  /\ now \in Time
  /\ sched \in SchedObj \cup {NoObj}
  /\ cache \in SchedObj \cup {NoObj}
  /\ queued \in BOOLEAN
  /\ wake \in Nat \cup {Never}
  /\ backups \subseteq BackupObj /\ listed \subseteq BackupObj
  /\ pc \in {"idle", "create", "prune", "delete", "status"}
  /\ seen \in SchedObj \cup {NoObj}
  /\ pc # "idle" => seen # NoObj
  /\ at \in Time
  /\ new \in Status
  /\ victims \subseteq BackupObj
  /\ edits \in Nat /\ faults \in Nat
  /\ taken \subseteq Time
  /\ dropped \subseteq BackupObj /\ pruned \subseteq BackupObj
  /\ keeps \subseteq Nat

\* The schedule has just been created; an informer that lags has yet to see it.
Init ==
  /\ now = 0
  /\ \E s \in Specs :
       sched = [created |-> 0, deleting |-> FALSE, spec |-> s, status |-> NewStatus]
  /\ cache = IF Lag THEN NoObj ELSE sched
  /\ queued = ~Lag
  /\ wake = Never
  /\ backups = {} /\ listed = {}
  /\ pc = "idle" /\ seen = NoObj /\ at = 0 /\ new = NewStatus /\ victims = {}
  /\ edits = 0 /\ faults = 0 /\ taken = {} /\ dropped = {} /\ pruned = {} /\ keeps = {}

(***************************************************************************)
(* API server, informer, work queue.                                       *)
(***************************************************************************)
PutSched(s) ==
  /\ sched' = s
  /\ cache' = IF Lag THEN cache ELSE s

\* For(ScheduledBackup): each of its changes enqueues it.
SchedEvent(s) == ~Lag /\ s # sched

Deliver ==
  /\ cache # sched
  /\ cache' = sched
  /\ queued' = TRUE
  /\ UNCHANGED <<now, sched, wake, stored, worker, edits, faults, history>>

\* Backups change; r.List reads what their informer has seen.
PutBackups(bs) ==
  /\ backups' = bs
  /\ listed' = IF ListLag THEN listed ELSE bs

\* No controller of schedules watches Backups: nothing is enqueued.
DeliverList ==
  /\ listed # backups
  /\ listed' = backups
  /\ UNCHANGED <<now, sched, cache, queued, wake, backups, worker, edits, faults, history>>

\* The delayed queue keeps the earlier of two times.
AddAfter(t) == wake' = IF wake = Never THEN t ELSE Min({wake, t})

\* The last instant of the clock stands for all later ones.
Fire ==
  /\ wake # Never
  /\ wake <= now \/ now = MaxTime
  /\ wake' = Never
  /\ queued' = TRUE
  /\ UNCHANGED <<now, sched, cache, stored, worker, edits, faults, history>>

(***************************************************************************)
(* The reconciler.                                                         *)
(***************************************************************************)
\* cron.Schedule.Next: the first matching time after t.
Next(t) == Min({r \in Runs \cup {Horizon} : r > t})

due(s, t) ==
  IF s.status.last = Never
  THEN s.spec.immediate \/ t >= Next(s.created)
  ELSE t >= Next(s.status.last)

Gone(s) == s = NoObj \/ s.deleting

\* The end of tick: the status says when the next run is.
Scheduled(s, t) == [s EXCEPT !.next = Next(t), !.reason = "Scheduled"]

\* Reconcile reads the schedule; tick, up to its first call.
Reconcile ==
  /\ pc = "idle" /\ queued
  /\ queued' = FALSE
  /\ IF Gone(cache) THEN UNCHANGED worker
     ELSE /\ seen' = cache /\ at' = now /\ victims' = {}
          /\ LET spec == cache.spec IN
             \/ /\ ~spec.valid
                /\ pc' = "status"
                /\ new' = [cache.status EXCEPT !.next = Never, !.reason = "InvalidSchedule"]
             \/ /\ spec.valid /\ spec.suspend
                /\ pc' = "status"
                /\ new' = [cache.status EXCEPT !.next = Never, !.reason = "Suspended"]
             \/ /\ spec.valid /\ ~spec.suspend
                /\ pc' = IF due(cache, now) THEN "create" ELSE "status"
                /\ new' = Scheduled(cache.status, now)
  /\ UNCHANGED <<now, sched, cache, wake, stored, edits, faults, history>>

Idle == pc' = "idle" /\ seen' = NoObj /\ at' = 0 /\ new' = NewStatus /\ victims' = {}

\* A call fails; the error is returned and the key comes back.
Fault == faults < MaxFaults /\ faults' = faults + 1 /\ Idle /\ queued' = TRUE

\* A Backup of that name, unless there is one already.
Created ==
  IF \E b \in backups : b.at = at THEN UNCHANGED <<stored, taken>>
  ELSE /\ PutBackups(backups \cup {[at |-> at, created |-> now, phase |-> "Running"]})
       /\ taken' = taken \cup {at}

\* Plausible slips: lastScheduleTime is left to the next reconcile, or is the time
\* of the run to come.
Unrecorded(s, t)   == s
RecordedNext(s, t) == [s EXCEPT !.last = s.next]

\* What createBackup notes in the status.
Recorded(s, t) == [s EXCEPT !.last = t]

createBackup ==
  /\ pc = "create"
  /\ \/ /\ Created
        /\ pc' = "prune" /\ new' = Recorded(new, at)
        /\ UNCHANGED <<queued, seen, at, victims, faults>>
     \/ Fault /\ (Created \/ UNCHANGED <<stored, taken>>)
  /\ UNCHANGED <<now, sched, cache, wake, edits, dropped, pruned, keeps>>

\* The order prune sorts by: newest first.
Newer(c, b) == c.created > b.created \/ (c.created = b.created /\ c.at > b.at)

\* A plausible slip: Backups of any phase count.
SurplusOfAll(bs, keep) == {b \in bs : Cardinality({c \in bs : Newer(c, b)}) >= keep}

\* The completed Backups from index keep on.
Surplus(bs, keep) ==
  LET completed == {b \in bs : b.phase = "Completed"}
  IN {b \in completed : Cardinality({c \in completed : Newer(c, b)}) >= keep}

\* prune lists the Backups of the schedule, in the informer's cache ...
listBackups ==
  /\ pc = "prune"
  /\ \/ /\ victims' = IF seen.spec.keep = KeepAll THEN {} ELSE Surplus(listed, seen.spec.keep)
        /\ keeps' = keeps \cup ({seen.spec.keep} \ {KeepAll})
        /\ pc' = IF victims' = {} THEN "status" ELSE "delete"
        /\ UNCHANGED <<queued, seen, at, new, faults>>
     \/ seen.spec.keep # KeepAll /\ Fault /\ UNCHANGED keeps
  /\ UNCHANGED <<now, sched, cache, wake, stored, edits, taken, dropped, pruned>>

\* ... and deletes the surplus, in the order of the list; NotFound is ignored.
prune ==
  /\ pc = "delete"
  /\ LET b    == CHOOSE v \in victims : \A w \in victims \ {v} : Newer(v, w)
         gone == {c \in backups : c.at = b.at}
     IN \/ /\ PutBackups(backups \ gone) /\ pruned' = pruned \cup gone
           /\ victims' = victims \ {b}
           /\ pc' = IF victims' = {} THEN "status" ELSE "delete"
           /\ UNCHANGED <<queued, seen, at, new, faults>>
        \/ /\ Fault
           /\ \/ PutBackups(backups \ gone) /\ pruned' = pruned \cup gone
              \/ UNCHANGED <<stored, pruned>>
  /\ UNCHANGED <<now, sched, cache, wake, edits, taken, dropped, keeps>>

\* A JSON merge patch of the fields that differ from the copy that was read.
Patched(s) ==
  [s EXCEPT !.status =
     [f \in DOMAIN new |-> IF new[f] # seen.status[f] THEN new[f] ELSE s.status[f]]]

\* A plausible slip: the schedule is left to watch events.
NoRequeue(s, t) == Never

\* RequeueAfter next.Sub(now) + 1s, counted from the end of the reconcile.
RequeueAt(s, t) == IF s.reason = "Scheduled" THEN now + (s.next - t) + 1 ELSE Never

PatchStatus ==
  /\ pc = "status"
  /\ \/ /\ sched # NoObj
        /\ PutSched(Patched(sched))
        /\ queued' = (queued \/ SchedEvent(Patched(sched)))
        /\ IF RequeueAt(new, at) = Never THEN UNCHANGED wake ELSE AddAfter(RequeueAt(new, at))
        /\ Idle
        /\ UNCHANGED faults
     \/ /\ sched = NoObj                                  \* NotFound
        /\ queued' = TRUE
        /\ Idle
        /\ UNCHANGED <<sched, cache, wake, faults>>
     \/ /\ Fault
        /\ \/ UNCHANGED <<sched, cache>>
           \/ sched # NoObj /\ PutSched(Patched(sched))
        /\ UNCHANGED wake
  /\ UNCHANGED <<now, stored, edits, history>>

\* The operator process is replaced: nothing is left of its queues.
Restart ==
  /\ faults < MaxFaults /\ faults' = faults + 1
  /\ Idle
  /\ cache' = sched /\ listed' = backups
  /\ queued' = (sched # NoObj)
  /\ wake' = Never
  /\ UNCHANGED <<now, sched, backups, edits, history>>

Worker == Reconcile \/ createBackup \/ listBackups \/ prune \/ PatchStatus

(***************************************************************************)
(* The clock, the Backup controller, users.                                *)
(***************************************************************************)
Tick ==
  /\ now < MaxTime
  /\ now' = now + 1
  /\ UNCHANGED <<sched, cache, queued, wake, stored, worker, edits, faults, history>>

\* A Backup ends (module Backup).
BackupEnds ==
  /\ \E b \in backups, p \in Outcomes :
       /\ b.phase = "Running"
       /\ PutBackups((backups \ {b}) \cup {[b EXCEPT !.phase = p]})
  /\ UNCHANGED <<now, sched, cache, queued, wake, worker, edits, faults, history>>

DeleteBackup ==
  /\ Cardinality(dropped) < MaxDrops
  /\ \E b \in backups : PutBackups(backups \ {b}) /\ dropped' = dropped \cup {b}
  /\ UNCHANGED <<now, sched, cache, queued, wake, worker, edits, faults, taken, pruned, keeps>>

EditSchedule ==
  /\ sched # NoObj
  /\ edits < MaxEdits
  /\ edits' = edits + 1
  /\ \E s \in Specs \ {sched.spec} :
       LET o == [sched EXCEPT !.spec = s]
       IN PutSched(o) /\ queued' = (queued \/ SchedEvent(o))
  /\ UNCHANGED <<now, wake, stored, worker, faults, history>>

\* In the background, or marked first and removed later.
DeleteSchedule ==
  /\ sched # NoObj
  /\ edits < MaxEdits
  /\ edits' = MaxEdits
  /\ \E o \in {NoObj, [sched EXCEPT !.deleting = TRUE]} :
       PutSched(o) /\ queued' = (queued \/ SchedEvent(o))
  /\ UNCHANGED <<now, wake, stored, worker, faults, history>>

Environment ==
  \/ Deliver \/ DeliverList \/ Fire \/ Tick \/ BackupEnds \/ DeleteBackup
  \/ EditSchedule \/ DeleteSchedule

Step == Worker \/ Restart \/ Environment

Spec == Init /\ [][Step]_vars

\* The clock advances, the worker runs, the queue and the informer deliver.
Fairness == WF_vars(Tick) /\ WF_vars(Worker) /\ WF_vars(Fire) /\ WF_vars(Deliver)

FairSpec == Spec /\ Fairness

(***************************************************************************)
(* Properties.                                                             *)
(***************************************************************************)
\* The last run at or before t: 0 before the first.
SlotOf(t) == Max({r \in Runs \cup {0} : r <= t})

\* Between one run and the next the schedule creates one Backup, and at most one
\* more for every call that failed and every restart.
ExtraBackupsBounded ==
  \A r \in Runs \cup {0} : Cardinality({t \in taken : SlotOf(t) = r}) <= 1 + faults

\* Completed Backups newer than b that prune has left.
NewerLeft(b) == {c \in backups \cup dropped : c.phase = "Completed" /\ Newer(c, b)}

\* Whatever prune deleted was completed, and as many newer completed Backups as a
\* spec.keep it went by are left: failed deletes, retries, restarts and a list that
\* still has what was deleted never make it dig into those that are to be kept, and
\* a Backup that failed or is still running never pushes out one that is usable.
PruneKeepsNewest ==
  \A b \in pruned :
    b.phase = "Completed" /\ \E k \in keeps : Cardinality(NewerLeft(b)) >= k

Active == sched # NoObj /\ ~sched.deleting /\ sched.spec.valid /\ ~sched.spec.suspend

\* Every run of an active schedule is followed by a Backup, however many runs,
\* calls and operators were lost before.
EveryRunBackedUp ==
  \A r \in Runs :
    Active /\ now >= r ~> (~Active \/ \E t \in taken : t >= r)
=============================================================================
