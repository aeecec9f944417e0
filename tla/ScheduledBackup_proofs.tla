------------------------- MODULE ScheduledBackup_proofs -------------------------
(***************************************************************************)
(* Proofs about ScheduledBackup for every schedule, clock and bound: the   *)
(* types, what prune deletes, and how many Backups a run may get.          *)
(***************************************************************************)
EXTENDS ScheduledBackup, FiniteSetTheorems, TLAPS

(***************************************************************************)
(* Smallest and greatest times.                                            *)
(***************************************************************************)
\* A set of natural numbers has a least member.
LEMMA LeastExists ==
  ASSUME NEW S, S \subseteq Nat, S # {}
  PROVE  \E x \in S : \A y \in S : x <= y
<1>1. PICK x \in S : \A y \in S : ~(<<y, x>> \in OpToRel(<, Nat))
  BY WFMin, NatLessThanWellFounded
<1>2. \A y \in S : ~(y < x)
  BY <1>1 DEF OpToRel
<1> QED
  BY <1>2

\* A bounded one has a greatest.
LEMMA GreatestExists ==
  ASSUME NEW n \in Nat, NEW S, S \subseteq 0..n, S # {}
  PROVE  \E x \in S : \A y \in S : x >= y
<1> DEFINE T == {n - x : x \in S}
<1>1. T \subseteq Nat /\ T # {}
  <2>1. \A x \in S : x \in Nat /\ x <= n
    OBVIOUS
  <2>2. \A x \in S : n - x \in Nat
    BY <2>1
  <2> QED
    BY <2>2
<1>2. PICK m \in T : \A y \in T : m <= y
  BY <1>1, LeastExists
<1>3. PICK x \in S : m = n - x
  OBVIOUS
<1>4. ASSUME NEW y \in S PROVE x >= y
  <2>1. n - x <= n - y
    BY <1>2, <1>3
  <2> QED
    BY <2>1
<1> QED
  BY <1>4

\* Min is the least member.
LEMMA MinMember ==
  ASSUME NEW S, S \subseteq Nat, S # {}
  PROVE  Min(S) \in S /\ \A y \in S : Min(S) <= y
BY LeastExists DEF Min

\* Max is the greatest.
LEMMA MaxMember ==
  ASSUME NEW n \in Nat, NEW S, S \subseteq 0..n, S # {}
  PROVE  Max(S) \in S /\ \A y \in S : Max(S) >= y
BY GreatestExists DEF Max

\* The clock's times and the runs.
LEMMA Times ==
  /\ MaxTime \in Nat /\ Horizon = MaxTime + 1
  /\ \A r \in Runs : r \in Nat /\ r >= 1 /\ r <= MaxTime
  /\ \A t \in Time : t \in Nat /\ t <= MaxTime
<1>1. MaxTime \in Nat /\ Runs \subseteq 1..MaxTime
  BY ScheduleAssumption
<1> QED
  BY <1>1 DEF Horizon, Time

\* The next run after a time of the clock comes after it and is a run, unless it
\* is beyond the end of the clock.
LEMMA NextRun ==
  ASSUME NEW t \in Time
  PROVE  /\ Next(t) \in 1..Horizon /\ Next(t) > t
         /\ Next(t) <= MaxTime => Next(t) \in Runs
         /\ \A r \in Runs : r > t => Next(t) <= r
<1> DEFINE S == {r \in Runs \cup {Horizon} : r > t}
<1>1. S \subseteq 1..Horizon /\ Horizon \in S /\ S \subseteq Nat
  <2>1. \A r \in S : r \in Nat /\ r >= 1 /\ r <= Horizon
    BY Times
  <2>2. Horizon \in S
    BY Times
  <2> QED
    BY <2>1, <2>2, Times
<1>2. Min(S) \in S /\ \A y \in S : Min(S) <= y
  BY <1>1, MinMember
<1> HIDE DEF S
<1>3. Next(t) = Min(S)
  BY DEF Next, S
<1>4. Next(t) \in 1..Horizon /\ Next(t) > t /\ Next(t) \in Runs \cup {Horizon}
  BY <1>1, <1>2, <1>3 DEF S
<1>5. MaxTime \in Nat /\ Horizon = MaxTime + 1
  BY Times
<1> QED
  BY <1>2, <1>3, <1>4, <1>5 DEF S

\* The run a time belongs to is the last one up to it.
LEMMA SlotType ==
  ASSUME NEW t \in Time
  PROVE  /\ SlotOf(t) \in Runs \cup {0} /\ SlotOf(t) \in Nat /\ SlotOf(t) <= t
         /\ \A r \in Runs \cup {0} : r <= t => r <= SlotOf(t)
<1> DEFINE S == {r \in Runs \cup {0} : r <= t}
<1>1. S \subseteq 0..t /\ 0 \in S /\ t \in Nat
  <2>1. t \in Nat
    BY Times
  <2>2. \A r \in S : r \in Nat /\ r <= t
    BY Times
  <2> QED
    BY <2>1, <2>2
<1>2. Max(S) \in S /\ \A y \in S : Max(S) >= y
  BY <1>1, MaxMember
<1> HIDE DEF S
<1>3. SlotOf(t) = Max(S)
  BY DEF SlotOf, S
<1>4. SlotOf(t) \in S /\ \A y \in S : y <= SlotOf(t)
  BY <1>1, <1>2, <1>3
<1> QED
  BY <1>1, <1>4 DEF S

(***************************************************************************)
(* Type correctness.                                                       *)
(*                                                                         *)
(* The types alone are not inductive: when the key is to come back is a    *)
(* time only because the next run the status names lies after the time the *)
(* reconcile took from the clock.                                          *)
(***************************************************************************)
AheadInv ==
  /\ at <= now
  /\ new.reason = "Scheduled" => new.next \in 1..Horizon /\ new.next > at

\* A reconcile that ends leaves nothing behind.
LEMMA IdleTypes ==
  ASSUME Idle, NEW t \in Time
  PROVE  /\ pc' = "idle" /\ seen' = NoObj /\ at' \in Time /\ new' \in Status /\ victims' = {}
         /\ at' <= t /\ new'.reason # "Scheduled"
<1>1. 0 \in Time /\ NewStatus \in Status /\ 0 <= t
  BY Times DEF Time, NewStatus, Status, Never
<1> QED
  BY <1>1 DEF Idle, NewStatus

\* The merge patch takes each field of the status from one of two statuses.
LEMMA PatchedType ==
  ASSUME NEW s \in SchedObj, new \in Status
  PROVE  /\ Patched(s) \in SchedObj /\ Patched(s).created = s.created
         /\ Patched(s).spec = s.spec /\ Patched(s).deleting = s.deleting
         /\ Patched(s).status.last = IF new.last # seen.status.last THEN new.last ELSE s.status.last
<1> DEFINE merged == [f \in DOMAIN new |->
                        IF new[f] # seen.status[f] THEN new[f] ELSE s.status[f]]
<1>1. s.status \in Status
  BY DEF SchedObj
<1>2. /\ merged \in Status
      /\ merged.last = IF new.last # seen.status.last THEN new.last ELSE s.status.last
  BY <1>1 DEF Status
<1> HIDE DEF merged
<1>3. Patched(s) = [s EXCEPT !.status = merged]
  BY DEF Patched, merged
<1> QED
  BY <1>2, <1>3 DEF SchedObj

\* The beginning of a reconcile.
LEMMA ReconcileType ==
  ASSUME TypeOK, AheadInv, Reconcile
  PROVE  (TypeOK /\ AheadInv)'
<1>1. UNCHANGED <<now, sched, cache, wake, stored, edits, faults, history>> /\ queued' = FALSE
  BY DEF Reconcile
<1>2. CASE Gone(cache)
  <2>1. UNCHANGED worker
    BY <1>2 DEF Reconcile
  <2> QED
    BY <1>1, <2>1 DEF TypeOK, AheadInv, worker, history, stored
<1>3. CASE ~Gone(cache)
  <2>1. cache \in SchedObj /\ cache.status \in Status /\ now \in Time
    BY <1>3 DEF Gone, TypeOK, SchedObj
  <2>2. seen' = cache /\ at' = now /\ victims' = {}
    BY <1>3 DEF Reconcile
  <2>3. pc' \in {"status", "create"}
    BY <1>3 DEF Reconcile
  <2>4. \/ new' = [cache.status EXCEPT !.next = Never, !.reason = "InvalidSchedule"]
        \/ new' = [cache.status EXCEPT !.next = Never, !.reason = "Suspended"]
        \/ new' = Scheduled(cache.status, now)
    BY <1>3 DEF Reconcile
  <2>5. Next(now) \in 1..Horizon /\ Next(now) > now
    BY <2>1, NextRun
  <2>6. new' \in Status /\ (new'.reason = "Scheduled" => new'.next = Next(now))
    BY <2>1, <2>4, <2>5 DEF Status, Scheduled
  <2>7. now <= now
    BY <2>1, Times
  <2>8. TypeOK'
    BY <1>1, <2>1, <2>2, <2>3, <2>6, NoObjAssumption DEF TypeOK, history, stored
  <2>9. AheadInv'
    BY <1>1, <2>2, <2>5, <2>6, <2>7 DEF AheadInv
  <2> QED
    BY <2>8, <2>9
<1> QED
  BY <1>2, <1>3

\* A failed call ends the reconcile.
LEMMA FaultTypes ==
  ASSUME TypeOK, Fault
  PROVE  Idle /\ queued' = TRUE /\ faults' \in Nat
BY DEF Fault, TypeOK

\* A write to the Backups, seen by their informer or not.
LEMMA PutTypes ==
  ASSUME TypeOK, NEW bs, bs \subseteq BackupObj, PutBackups(bs)
  PROVE  backups' = bs /\ backups' \subseteq BackupObj /\ listed' \subseteq BackupObj
BY DEF PutBackups, TypeOK

\* A Backup is created, or there is one.
LEMMA CreatedTypes ==
  ASSUME TypeOK, Created \/ UNCHANGED <<stored, taken>>
  PROVE  backups' \subseteq BackupObj /\ listed' \subseteq BackupObj /\ taken' \subseteq Time
<1>1. [at |-> at, created |-> now, phase |-> "Running"] \in BackupObj
  BY DEF TypeOK, BackupObj
<1>2. CASE UNCHANGED <<stored, taken>>
  BY <1>2 DEF stored, TypeOK
<1>3. CASE ~UNCHANGED <<stored, taken>>
  <2>1. /\ PutBackups(backups \cup {[at |-> at, created |-> now, phase |-> "Running"]})
        /\ taken' = taken \cup {at}
    BY <1>3 DEF Created
  <2>2. backups \cup {[at |-> at, created |-> now, phase |-> "Running"]} \subseteq BackupObj
    BY <1>1 DEF TypeOK
  <2> QED
    BY <2>1, <2>2, PutTypes DEF TypeOK
<1> QED
  BY <1>2, <1>3

\* The step that creates the Backup.
LEMMA CreateType ==
  ASSUME TypeOK, AheadInv, createBackup
  PROVE  (TypeOK /\ AheadInv)'
<1>1. UNCHANGED <<now, sched, cache, wake, edits, dropped, pruned, keeps>>
  BY DEF createBackup
<1>2. backups' \subseteq BackupObj /\ listed' \subseteq BackupObj /\ taken' \subseteq Time
  BY CreatedTypes DEF createBackup
<1>3. CASE Fault
  <2>1. Idle /\ queued' = TRUE /\ faults' \in Nat /\ now \in Time
    BY <1>3, FaultTypes DEF TypeOK
  <2> QED
    BY <1>1, <1>2, <2>1, IdleTypes DEF TypeOK, AheadInv
<1>4. CASE /\ pc' = "prune" /\ new' = Recorded(new, at)
           /\ UNCHANGED <<queued, seen, at, victims, faults>>
  <2>1. seen # NoObj
    BY DEF createBackup, TypeOK
  <2>2. new' \in Status /\ new'.reason = new.reason /\ new'.next = new.next
    BY <1>4 DEF Recorded, Status, TypeOK
  <2> QED
    BY <1>1, <1>2, <1>4, <2>1, <2>2 DEF TypeOK, AheadInv
<1> QED
  BY <1>3, <1>4 DEF createBackup

\* The steps that prune.
LEMMA PruneType ==
  ASSUME TypeOK, AheadInv, listBackups \/ prune
  PROVE  (TypeOK /\ AheadInv)'
<1>1. UNCHANGED <<now, sched, cache, wake, edits, taken, dropped>>
  BY DEF listBackups, prune
<1>2. /\ backups' \subseteq BackupObj /\ listed' \subseteq BackupObj
      /\ pruned' \subseteq BackupObj /\ keeps' \subseteq Nat
  <2>1. CASE listBackups
    <3>1. seen.spec.keep \in Nat
      BY <2>1, ScheduleAssumption DEF listBackups, TypeOK, SchedObj, SpecType
    <3> QED
      BY <2>1, <3>1 DEF listBackups, stored, TypeOK
  <2>2. CASE prune
    BY <2>2 DEF prune, PutBackups, stored, TypeOK
  <2> QED
    BY <2>1, <2>2
<1>3. CASE Fault
  <2>1. Idle /\ queued' = TRUE /\ faults' \in Nat /\ now \in Time
    BY <1>3, FaultTypes DEF TypeOK
  <2> QED
    BY <1>1, <1>2, <2>1, IdleTypes DEF TypeOK, AheadInv
<1>4. CASE ~Fault
  <2>1. UNCHANGED <<queued, seen, at, new, faults>> /\ pc' \in {"status", "delete"}
    BY <1>4 DEF listBackups, prune
  <2>2. victims' \subseteq victims \cup listed
    BY <1>4 DEF listBackups, prune, Surplus
  <2>3. seen # NoObj
    BY DEF listBackups, prune, TypeOK
  <2> QED
    BY <1>1, <1>2, <2>1, <2>2, <2>3 DEF TypeOK, AheadInv
<1> QED
  BY <1>3, <1>4

\* The status patch, and the time the key comes back.
LEMMA PatchStatusType ==
  ASSUME TypeOK, AheadInv, PatchStatus
  PROVE  (TypeOK /\ AheadInv)'
<1>1. UNCHANGED <<now, stored, edits, history>> /\ now \in Time
  BY DEF PatchStatus, TypeOK
<1>2. Idle /\ faults' \in Nat /\ queued' \in BOOLEAN
  <2>1. Idle /\ (faults' = faults \/ faults' = faults + 1)
    BY DEF PatchStatus, Fault
  <2>2. queued' = (queued \/ SchedEvent(Patched(sched))) \/ queued' = TRUE
    BY DEF PatchStatus, Fault
  <2>3. queued' \in BOOLEAN
    BY <2>2, Zenon
  <2> QED
    BY <2>1, <2>3 DEF TypeOK
<1>3. sched' \in SchedObj \cup {NoObj} /\ cache' \in SchedObj \cup {NoObj}
  BY PatchedType DEF PatchStatus, PutSched, TypeOK
<1>4. wake' \in Nat \cup {Never}
  <2>1. ASSUME RequeueAt(new, at) # Never
        PROVE  RequeueAt(new, at) \in Nat
    <3>1. RequeueAt(new, at) = now + (new.next - at) + 1 /\ new.reason = "Scheduled"
      BY <2>1 DEF RequeueAt
    <3>2. new.next \in Nat /\ new.next > at /\ at \in Nat /\ now \in Nat
      BY <3>1, Times DEF AheadInv, TypeOK
    <3> QED
      BY <3>1, <3>2
  <2>2. ASSUME NEW t \in Nat, AddAfter(t) PROVE wake' \in Nat
    <3>1. CASE wake = Never
      BY <2>2, <3>1 DEF AddAfter
    <3>2. CASE wake # Never
      <4>1. wake \in Nat
        BY <3>2 DEF TypeOK
      <4>2. Min({wake, t}) \in {wake, t}
        BY <4>1, MinMember
      <4> QED
        BY <2>2, <3>2, <4>1, <4>2 DEF AddAfter
    <3> QED
      BY <3>1, <3>2
  <2> QED
    BY <2>1, <2>2 DEF PatchStatus, TypeOK
<1> QED
  BY <1>1, <1>2, <1>3, <1>4, IdleTypes DEF TypeOK, AheadInv, history, stored

\* A restart, the clock and the queue.
LEMMA QueueType ==
  ASSUME TypeOK, AheadInv, Restart \/ Deliver \/ DeliverList \/ Fire \/ Tick
  PROVE  (TypeOK /\ AheadInv)'
<1>1. CASE Restart
  <2>1. /\ Idle /\ cache' = sched /\ queued' = (sched # NoObj) /\ wake' = Never /\ faults' \in Nat
        /\ UNCHANGED <<now, sched, backups, edits, history>> /\ now \in Time /\ listed' = backups
    BY <1>1 DEF Restart, TypeOK
  <2>2. queued' \in BOOLEAN
    BY <2>1
  <2> QED
    BY <2>1, <2>2, IdleTypes DEF TypeOK, AheadInv, history
<1>2. CASE Deliver \/ DeliverList
  BY <1>2 DEF Deliver, DeliverList, TypeOK, AheadInv, worker, history, stored
<1>3. CASE Fire
  BY <1>3 DEF Fire, TypeOK, AheadInv, worker, history, stored
<1>4. CASE Tick
  <2>1. now' \in Time /\ now' = now + 1 /\ now \in Nat /\ at \in Nat
    BY <1>4, Times DEF Tick, TypeOK, Time
  <2>2. UNCHANGED <<sched, cache, queued, wake, stored, worker, edits, faults, history>>
    BY <1>4 DEF Tick
  <2>3. at <= now'
    BY <2>1 DEF AheadInv
  <2> QED
    BY <2>1, <2>2, <2>3 DEF TypeOK, AheadInv, worker, history, stored
<1> QED
  BY <1>1, <1>2, <1>3, <1>4

\* The Backup controller and users.
LEMMA UserType ==
  ASSUME TypeOK, AheadInv, BackupEnds \/ DeleteBackup \/ EditSchedule \/ DeleteSchedule
  PROVE  (TypeOK /\ AheadInv)'
<1>1. UNCHANGED <<now, wake, worker, faults, taken, pruned, keeps>>
  BY DEF BackupEnds, DeleteBackup, EditSchedule, DeleteSchedule, history
<1>2. backups' \subseteq BackupObj /\ listed' \subseteq BackupObj /\ dropped' \subseteq BackupObj
  <2>1. CASE BackupEnds
    <3>1. PICK b \in backups, p \in Outcomes :
            PutBackups((backups \ {b}) \cup {[b EXCEPT !.phase = p]})
      BY <2>1 DEF BackupEnds
    <3>2. p \in {"Completed", "Failed"} /\ b \in BackupObj
      BY <3>1, ScheduleAssumption DEF TypeOK
    <3>3. [b EXCEPT !.phase = p] \in BackupObj
      BY <3>2 DEF BackupObj
    <3>4. (backups \ {b}) \cup {[b EXCEPT !.phase = p]} \subseteq BackupObj
      BY <3>3 DEF TypeOK
    <3> QED
      BY <2>1, <3>1, <3>4, PutTypes DEF BackupEnds, TypeOK, history
  <2>2. CASE DeleteBackup
    BY <2>2 DEF DeleteBackup, PutBackups, TypeOK
  <2>3. CASE EditSchedule \/ DeleteSchedule
    BY <2>3 DEF EditSchedule, DeleteSchedule, TypeOK, history, stored
  <2> QED
    BY <2>1, <2>2, <2>3
<1>3. /\ sched' \in SchedObj \cup {NoObj} /\ cache' \in SchedObj \cup {NoObj}
      /\ queued' \in BOOLEAN /\ edits' \in Nat
  <2>1. CASE BackupEnds \/ DeleteBackup
    BY <2>1 DEF BackupEnds, DeleteBackup, TypeOK
  <2>2. CASE EditSchedule
    <3>1. PICK s \in Specs : /\ PutSched([sched EXCEPT !.spec = s])
                             /\ queued' = (queued \/ SchedEvent([sched EXCEPT !.spec = s]))
      BY <2>2 DEF EditSchedule
    <3>2. sched \in SchedObj
      BY <2>2 DEF EditSchedule, TypeOK
    <3>3. [sched EXCEPT !.spec = s] \in SchedObj
      BY <3>2 DEF SchedObj
    <3>4. queued' \in BOOLEAN
      BY <3>1
    <3>5. edits' \in Nat
      BY <2>2 DEF EditSchedule, TypeOK
    <3> QED
      BY <3>1, <3>3, <3>4, <3>5 DEF PutSched, TypeOK
  <2>3. CASE DeleteSchedule
    <3>1. PICK o \in {NoObj, [sched EXCEPT !.deleting = TRUE]} :
            PutSched(o) /\ queued' = (queued \/ SchedEvent(o))
      BY <2>3 DEF DeleteSchedule
    <3>2. sched \in SchedObj
      BY <2>3 DEF DeleteSchedule, TypeOK
    <3>3. o \in SchedObj \cup {NoObj}
      BY <3>2 DEF SchedObj
    <3>4. queued' \in BOOLEAN
      BY <3>1
    <3>5. edits' \in Nat
      BY <2>3, ScheduleAssumption DEF DeleteSchedule
    <3> QED
      BY <3>1, <3>3, <3>4, <3>5 DEF PutSched, TypeOK
  <2> QED
    BY <2>1, <2>2, <2>3
<1> QED
  BY <1>1, <1>2, <1>3 DEF TypeOK, AheadInv, worker

\* The invariant holds initially.
LEMMA InitType == Init => TypeOK /\ AheadInv
<1> SUFFICES ASSUME Init PROVE TypeOK /\ AheadInv
  OBVIOUS
<1>1. 0 \in Time /\ NewStatus \in Status
  BY Times DEF Time, NewStatus, Status, Never
<1>2. sched \in SchedObj
  BY <1>1 DEF Init, SchedObj
<1>3. cache \in SchedObj \cup {NoObj}
  BY <1>2 DEF Init
<1>4. queued \in BOOLEAN
  BY DEF Init
<1> QED
  BY <1>1, <1>2, <1>3, <1>4 DEF Init, TypeOK, AheadInv, NewStatus

\* Every step preserves it.
LEMMA NextType == TypeOK /\ AheadInv /\ [Step]_vars => (TypeOK /\ AheadInv)'
<1> SUFFICES ASSUME TypeOK, AheadInv, [Step]_vars PROVE (TypeOK /\ AheadInv)'
  OBVIOUS
<1>1. CASE UNCHANGED vars
  BY <1>1 DEF vars, TypeOK, AheadInv, worker, history, stored
<1> QED
  BY <1>1, ReconcileType, CreateType, PruneType, PatchStatusType, QueueType, UserType
  DEF Step, Worker, Environment

\* Whatever happens, the schedule, its cached copy, the times it computes and the
\* Backups it keeps are of their types; in particular the time at which the key
\* comes back to the queue is one the clock can reach or pass.
THEOREM TypeCorrect == Spec => []TypeOK
<1>1. Spec => [](TypeOK /\ AheadInv)
  BY InitType, NextType, PTL DEF Spec
<1> QED
  BY <1>1, PTL

(***************************************************************************)
(* What prune deletes.                                                     *)
(*                                                                         *)
(* prune goes by a list that may be old: it may still have Backups that an *)
(* earlier pass or a user deleted.  One that an earlier pass deleted was   *)
(* itself old enough to go, so whatever is older still has the newer ones  *)
(* that one had.  This needs the same to hold of all that was deleted      *)
(* before and of all that is left to delete (EnoughInv), that a completed  *)
(* Backup on the list is there or was deleted (ListInv), and that the name *)
(* of one that is to be deleted still stands for it.  A user may have      *)
(* deleted a Backup and the schedule created another of the same name      *)
(* since; but then nothing on the list is newer than it (NameInv), for a   *)
(* name is the time of the reconcile that creates it (BirthInv).           *)
(***************************************************************************)
OneEach(S) == \A b, c \in S : b.at = c.at => b = c

Enough(b) == \E k \in keeps : Cardinality(NewerLeft(b)) >= k

FiniteInv == IsFiniteSet(backups) /\ IsFiniteSet(dropped) /\ OneEach(backups) /\ OneEach(listed)

BirthInv ==
  \A b \in backups \cup listed :
    /\ b.at <= b.created /\ b.created <= now
    /\ pc = "create" => b.created <= at

ListInv ==
  \A v \in listed : v.phase = "Completed" => v \in backups \cup dropped \cup pruned

NameInv ==
  \A v \in listed, c \in backups :
    v.at = c.at /\ v.phase = "Completed" => c = v \/ \A u \in listed : ~Newer(u, v)

VictimInv ==
  /\ pc = "delete" <=> victims # {}
  /\ OneEach(victims)
  /\ \A v \in victims : /\ v.phase = "Completed"
                        /\ \A c \in backups : c.at = v.at => c = v

EnoughInv ==
  /\ \A b \in pruned : b.phase = "Completed"
  /\ \A b \in pruned \cup victims : Enough(b)

PruneInv ==
  FiniteInv /\ BirthInv /\ ListInv /\ NameInv /\ VictimInv /\ EnoughInv

\* The order of the list is strict, and total where times in the names differ.
LEMMA NewerOrder ==
  ASSUME NEW a \in BackupObj, NEW b \in BackupObj, NEW c \in BackupObj
  PROVE  /\ ~Newer(a, a)
         /\ Newer(a, b) => ~Newer(b, a)
         /\ Newer(a, b) /\ Newer(b, c) => Newer(a, c)
         /\ a.at # b.at => Newer(a, b) \/ Newer(b, a)
<1>1. /\ a.at \in Nat /\ a.created \in Nat /\ b.at \in Nat /\ b.created \in Nat
      /\ c.at \in Nat /\ c.created \in Nat
  BY Times DEF BackupObj
<1> QED
  BY <1>1 DEF Newer

\* One Backup of a list comes first.
LEMMA NewestExists ==
  ASSUME NEW S, S \subseteq BackupObj, S # {}, OneEach(S)
  PROVE  \E v \in S : \A w \in S \ {v} : Newer(v, w)
<1>1. \A b \in BackupObj : b.at \in 0..MaxTime /\ b.created \in 0..MaxTime
  BY DEF BackupObj, Time
<1>2. MaxTime \in Nat
  BY Times
<1> DEFINE C == {b.created : b \in S}
<1>3. C \subseteq 0..MaxTime /\ C # {}
  BY <1>1
<1>4. PICK m \in C : \A y \in C : m >= y
  BY <1>2, <1>3, GreatestExists
<1> DEFINE A == {b.at : b \in {b \in S : b.created = m}}
<1>5. A \subseteq 0..MaxTime /\ A # {}
  BY <1>1, <1>4
<1>6. PICK n \in A : \A y \in A : n >= y
  BY <1>2, <1>5, GreatestExists
<1>7. PICK v \in S : v.created = m /\ v.at = n
  BY <1>6
<1>8. ASSUME NEW w \in S \ {v} PROVE Newer(v, w)
  <2>1. /\ v \in BackupObj /\ w \in BackupObj /\ v.at # w.at
        /\ w.created \in Nat /\ v.created \in Nat /\ w.at \in Nat /\ v.at \in Nat
    BY Times DEF OneEach, BackupObj
  <2>2. v.created >= w.created
    BY <1>4, <1>7
  <2>3. w.created = v.created => v.at >= w.at
    BY <1>6, <1>7
  <2> QED
    BY <2>1, <2>2, <2>3 DEF Newer
<1> QED
  BY <1>8

\* The Backup prune deletes next is one of those left to delete.
LEMMA ChosenVictim ==
  ASSUME TypeOK, OneEach(victims), victims # {}
  PROVE  (CHOOSE v \in victims : \A w \in victims \ {v} : Newer(v, w)) \in victims
BY NewestExists DEF TypeOK


\* prune deletes at most one Backup at a time: the name stands for the victim.
Chosen == CHOOSE v \in victims : \A w \in victims \ {v} : Newer(v, w)

\* The steps that change Backups.
CreateStep ==
  /\ pc = "create" /\ pc' \notin {"create", "delete"} /\ UNCHANGED <<dropped, pruned, now>>
  /\ \A b \in backups : b.at # at
  /\ backups' = backups \cup {[at |-> at, created |-> now, phase |-> "Running"]}

PruneStep ==
  /\ prune /\ UNCHANGED <<dropped, now>>
  /\ backups' = {c \in backups : c.at # Chosen.at}
  /\ pruned' = pruned \cup {c \in backups : c.at = Chosen.at}

EndStep ==
  /\ UNCHANGED <<pc, victims, dropped, pruned, now, at>>
  /\ \E b \in backups, p \in Outcomes :
       /\ b.phase = "Running"
       /\ backups' = (backups \ {b}) \cup {[b EXCEPT !.phase = p]}

DropStep ==
  /\ UNCHANGED <<pc, victims, pruned, now, at>>
  /\ \E b \in backups : backups' = backups \ {b} /\ dropped' = dropped \cup {b}

\* How the Backups and the copies of them change.
LEMMA BackupMoves ==
  ASSUME [Step]_vars
  PROVE  /\ UNCHANGED <<backups, dropped, pruned>> \/ CreateStep \/ PruneStep \/ EndStep \/ DropStep
         /\ listed' = listed \/ listed' = backups'
         /\ keeps \subseteq keeps'
<1>1. CASE createBackup
  <2>1. CASE UNCHANGED <<stored, taken>>
    BY <1>1, <2>1 DEF createBackup, stored
  <2>2. CASE ~UNCHANGED <<stored, taken>>
    BY <1>1, <2>2 DEF createBackup, Created, PutBackups, Fault, Idle, CreateStep
  <2> QED
    BY <2>1, <2>2
<1>2. CASE prune
  <2> DEFINE gone == {c \in backups : c.at = Chosen.at}
  <2>1. /\ UNCHANGED <<dropped, now, keeps>>
        /\ \/ PutBackups(backups \ gone) /\ pruned' = pruned \cup gone
           \/ UNCHANGED <<stored, pruned>>
    BY <1>2 DEF prune, Chosen
  <2>2. backups \ gone = {c \in backups : c.at # Chosen.at}
    OBVIOUS
  <2>3. CASE PutBackups(backups \ gone) /\ pruned' = pruned \cup gone
    BY <1>2, <2>1, <2>2, <2>3 DEF PutBackups, PruneStep
  <2> QED
    BY <2>1, <2>3 DEF stored
<1>3. CASE Reconcile \/ listBackups \/ PatchStatus \/ UNCHANGED vars
  BY <1>3 DEF Reconcile, listBackups, PatchStatus, vars, history, stored
<1>4. CASE Restart \/ Deliver \/ DeliverList \/ Fire \/ Tick \/ EditSchedule \/ DeleteSchedule
  BY <1>4 DEF Restart, Deliver, DeliverList, Fire, Tick, EditSchedule, DeleteSchedule, history, stored
<1>5. CASE BackupEnds
  BY <1>5 DEF BackupEnds, PutBackups, EndStep, history, worker
<1>6. CASE DeleteBackup
  BY <1>6 DEF DeleteBackup, PutBackups, DropStep, worker
<1> QED
  BY <1>1, <1>2, <1>3, <1>4, <1>5, <1>6 DEF Step, Worker, Environment

ListStep ==
  /\ pc = "prune" /\ seen.spec.keep # KeepAll /\ UNCHANGED <<stored, dropped, pruned>>
  /\ victims' = Surplus(listed, seen.spec.keep)
  /\ keeps' = keeps \cup {seen.spec.keep}
  /\ pc' = "delete" <=> victims' # {}

\* How the Backups that are left to delete change.
LEMMA VictimMoves ==
  ASSUME [Step]_vars
  PROVE  \/ UNCHANGED victims /\ (pc = "delete" <=> pc' = "delete") /\ ~prune
         \/ victims' = {} /\ pc' # "delete"
         \/ ListStep
         \/ prune /\ victims' = victims \ {Chosen} /\ (pc' = "delete" <=> victims' # {})
<1>1. CASE createBackup
  BY <1>1 DEF createBackup, Fault, Idle, prune
<1>2. CASE prune
  BY <1>2 DEF prune, Fault, Idle, Chosen
<1>3. CASE listBackups
  BY <1>3 DEF listBackups, Fault, Idle, ListStep
<1>4. CASE PatchStatus \/ Restart
  BY <1>4 DEF PatchStatus, Restart, Fault, Idle
<1>5. CASE Reconcile
  BY <1>5 DEF Reconcile, worker, prune
<1>6. CASE /\ ~prune
           /\ \/ Deliver \/ DeliverList \/ Fire \/ Tick \/ EditSchedule \/ DeleteSchedule
              \/ BackupEnds \/ DeleteBackup
  BY <1>6
  DEF Deliver, DeliverList, Fire, Tick, EditSchedule, DeleteSchedule, BackupEnds, DeleteBackup, worker
<1>7. CASE ~prune /\ UNCHANGED vars
  BY <1>7 DEF vars, worker
<1> QED
  BY <1>1, <1>2, <1>3, <1>4, <1>5, <1>6, <1>7 DEF Step, Worker, Environment

\* A Backup that ends keeps its name and its creation time.
LEMMA Ended ==
  ASSUME TypeOK, EndStep
  PROVE  \E b \in backups, n \in BackupObj :
           /\ b.phase = "Running" /\ n.at = b.at /\ n.created = b.created
           /\ backups' = (backups \ {b}) \cup {n}
<1>1. PICK b \in backups, p \in Outcomes :
        b.phase = "Running" /\ backups' = (backups \ {b}) \cup {[b EXCEPT !.phase = p]}
  BY DEF EndStep
<1>2. b \in BackupObj /\ p \in {"Completed", "Failed"}
  BY ScheduleAssumption DEF TypeOK
<1>3. PICK n : n = [b EXCEPT !.phase = p]
  OBVIOUS
<1>4. n \in BackupObj /\ n.at = b.at /\ n.created = b.created
  BY <1>2, <1>3 DEF BackupObj
<1> QED
  BY <1>1, <1>3, <1>4

\* Names stay unique, and the sets of Backups finite.
LEMMA FiniteStep ==
  ASSUME TypeOK, [Step]_vars, FiniteInv
  PROVE  FiniteInv'
<1>1. ASSUME IsFiniteSet(backups'), IsFiniteSet(dropped'), OneEach(backups)' PROVE FiniteInv'
  <2>1. OneEach(listed)'
    BY <1>1, BackupMoves DEF FiniteInv, OneEach
  <2> QED
    BY <1>1, <2>1 DEF FiniteInv
<1>2. CASE (UNCHANGED <<backups, dropped>>) \/ PruneStep
  <2>1. backups' \subseteq backups /\ dropped' = dropped
    BY <1>2 DEF PruneStep
  <2> QED
    BY <1>1, <2>1, FS_Subset DEF FiniteInv, OneEach
<1>3. CASE CreateStep
  <2> DEFINE n == [at |-> at, created |-> now, phase |-> "Running"]
  <2>1. n.at = at
    OBVIOUS
  <2> HIDE DEF n
  <2>2. backups' = backups \cup {n}
    BY <1>3 DEF CreateStep, n
  <2> QED
    BY <1>1, <1>3, <2>1, <2>2, FS_AddElement DEF CreateStep, FiniteInv, OneEach
<1>4. CASE EndStep
  <2>1. PICK b \in backups, n \in BackupObj :
          n.at = b.at /\ backups' = (backups \ {b}) \cup {n}
    BY <1>4, Ended
  <2>2. IsFiniteSet(backups \ {b})
    BY FS_Subset DEF FiniteInv
  <2> QED
    BY <1>1, <1>4, <2>1, <2>2, FS_AddElement DEF EndStep, FiniteInv, OneEach
<1>5. CASE DropStep
  <2>1. PICK b \in backups : backups' = backups \ {b} /\ dropped' = dropped \cup {b}
    BY <1>5 DEF DropStep
  <2> QED
    BY <1>1, <2>1, FS_Subset, FS_AddElement DEF FiniteInv, OneEach
<1> QED
  BY <1>2, <1>3, <1>4, <1>5, BackupMoves

\* The clock goes on, and a reconcile takes its time from it when it begins.
LEMMA ClockMoves ==
  ASSUME TypeOK, [Step]_vars
  PROVE  /\ now' = now \/ now' = now + 1
         /\ pc' = "create" => \/ at' = now /\ UNCHANGED <<now, stored>>
                              \/ pc = "create" /\ at' = at
<1>1. CASE createBackup
  BY <1>1 DEF createBackup, Fault, Idle
<1>2. CASE listBackups \/ prune \/ PatchStatus \/ Restart
  BY <1>2 DEF listBackups, prune, PatchStatus, Restart, Fault, Idle
<1>3. CASE Reconcile
  BY <1>3 DEF Reconcile, worker
<1>4. CASE /\ ~createBackup
           /\ \/ Deliver \/ DeliverList \/ Fire \/ Tick \/ EditSchedule \/ DeleteSchedule
              \/ BackupEnds \/ DeleteBackup
  BY <1>4
  DEF Deliver, DeliverList, Fire, Tick, EditSchedule, DeleteSchedule, BackupEnds, DeleteBackup, worker
<1>5. CASE ~createBackup /\ UNCHANGED vars
  BY <1>5 DEF vars, worker
<1> QED
  BY <1>1, <1>2, <1>3, <1>4, <1>5 DEF Step, Worker, Environment

\* Every Backup, and every copy of one, is of a time that has come.
LEMMA BirthStep ==
  ASSUME TypeOK, TypeOK', [Step]_vars, AheadInv, BirthInv
  PROVE  BirthInv'
<1>1. now \in Nat /\ at \in Nat /\ now' >= now /\ at <= now
  BY ClockMoves, Times DEF TypeOK, AheadInv
<1>2. ASSUME NEW b \in backups' \cup listed' PROVE b.at \in Nat /\ b.created \in Nat
  BY <1>2, Times DEF TypeOK, BackupObj
<1>3. ASSUME NEW b \in backups' \cup listed'
      PROVE  \/ \E o \in backups \cup listed : b.at = o.at /\ b.created = o.created
             \/ CreateStep /\ b.at = at /\ b.created = now
  <2>1. CASE b \in listed
    BY <2>1
  <2>2. CASE b \in backups'
    <3>1. CASE (UNCHANGED backups) \/ PruneStep \/ DropStep
      BY <2>2, <3>1 DEF PruneStep, DropStep
    <3>2. CASE CreateStep
      BY <2>2, <3>2 DEF CreateStep
    <3>3. CASE EndStep
      BY <2>2, <3>3, Ended
    <3> QED
      BY <3>1, <3>2, <3>3, BackupMoves
  <2> QED
    BY <2>1, <2>2, BackupMoves
<1>4. ASSUME NEW b \in backups' \cup listed' PROVE b.at <= b.created /\ b.created <= now'
  <2>1. CASE \E o \in backups \cup listed : b.at = o.at /\ b.created = o.created
    BY <1>1, <1>2, <2>1, ClockMoves DEF BirthInv
  <2>2. CASE b.at = at /\ b.created = now
    BY <1>1, <2>2
  <2> QED
    BY <1>3, <2>1, <2>2
<1>5. ASSUME NEW b \in backups' \cup listed', pc' = "create" PROVE b.created <= at'
  <2>1. CASE at' = now /\ UNCHANGED <<now, stored>>
    BY <1>1, <1>4, <2>1
  <2>2. CASE pc = "create" /\ at' = at
    <3>1. CASE \E o \in backups \cup listed : b.at = o.at /\ b.created = o.created
      BY <2>2, <3>1 DEF BirthInv
    <3>2. CASE CreateStep /\ b.created = now
      BY <1>5, <3>2 DEF CreateStep
    <3> QED
      BY <1>3, <3>1, <3>2
  <2> QED
    BY <1>5, <2>1, <2>2, ClockMoves
<1> QED
  BY <1>4, <1>5 DEF BirthInv

\* A completed Backup on the list is there, or users or prune deleted it.
LEMMA ListedStep ==
  ASSUME [Step]_vars, TypeOK, ListInv
  PROVE  ListInv'
<1>1. ASSUME NEW v \in listed, v.phase = "Completed"
      PROVE  v \in backups' \cup dropped' \cup pruned'
  <2>1. v \in backups \cup dropped \cup pruned
    BY <1>1 DEF ListInv
  <2>2. CASE UNCHANGED <<backups, dropped, pruned>>
    BY <2>1, <2>2
  <2>3. CASE CreateStep \/ PruneStep \/ DropStep
    BY <2>1, <2>3 DEF CreateStep, PruneStep, DropStep
  <2>4. CASE EndStep
    <3>1. PICK b \in backups, n \in BackupObj :
            b.phase = "Running" /\ backups' = (backups \ {b}) \cup {n}
      BY <2>4, Ended
    <3> QED
      BY <1>1, <2>1, <2>4, <3>1 DEF EndStep
  <2> QED
    BY <2>2, <2>3, <2>4, BackupMoves
<1> QED
  BY <1>1, BackupMoves DEF ListInv

\* A name on the list stands for the Backup listed, unless that is the newest there.
LEMMA NameStep ==
  ASSUME [Step]_vars, TypeOK, TypeOK', FiniteInv, FiniteInv', BirthInv, NameInv
  PROVE  NameInv'
<1>1. CASE listed' = backups'
  BY <1>1 DEF NameInv, FiniteInv, OneEach
<1>2. CASE listed' = listed
  <2>1. ASSUME NEW v \in listed, NEW c \in backups', v.at = c.at, v.phase = "Completed", c # v,
               NEW u \in listed
        PROVE  ~Newer(u, v)
    <3>1. CASE c \in backups
      BY <2>1, <3>1 DEF NameInv
    <3>2. CASE CreateStep /\ c \notin backups
      <4>1. c = [at |-> at, created |-> now, phase |-> "Running"] /\ pc = "create"
        BY <3>2 DEF CreateStep
      <4>2. c.at = at
        BY <4>1
      <4>3. /\ u.at \in Nat /\ u.created \in Nat /\ v.at \in Nat /\ v.created \in Nat /\ at \in Nat
            /\ u.at <= u.created /\ u.created <= at /\ v.at <= v.created
        BY <4>1, Times DEF BirthInv, TypeOK, BackupObj
      <4> QED
        BY <2>1, <4>2, <4>3 DEF Newer
    <3>3. CASE EndStep /\ c \notin backups
      <4>1. PICK b \in backups, n \in BackupObj :
              b.phase = "Running" /\ n.at = b.at /\ backups' = (backups \ {b}) \cup {n}
        BY <3>3, Ended
      <4>2. c = n /\ v.at = b.at /\ b # v
        BY <2>1, <3>3, <4>1
      <4> QED
        BY <2>1, <4>2 DEF NameInv
    <3>4. CASE (UNCHANGED backups) \/ PruneStep \/ DropStep
      BY <2>1, <3>1, <3>4 DEF PruneStep, DropStep
    <3> QED
      BY <3>1, <3>2, <3>3, <3>4, BackupMoves
  <2> QED
    BY <1>2, <2>1 DEF NameInv
<1> QED
  BY <1>1, <1>2, BackupMoves

\* If any Backup is to be kept, a list has something newer than its surplus.
LEMMA SurplusHasNewer ==
  ASSUME NEW S, NEW keep \in Nat \ {0}, NEW v \in Surplus(S, keep)
  PROVE  /\ v \in S /\ v.phase = "Completed"
         /\ Cardinality({c \in S : c.phase = "Completed" /\ Newer(c, v)}) >= keep
         /\ \E u \in S : Newer(u, v)
<1> DEFINE completed == {b \in S : b.phase = "Completed"}
           newer == {c \in completed : Newer(c, v)}
<1>1. v \in completed /\ Cardinality(newer) >= keep
  BY DEF Surplus
<1>2. newer = {c \in S : c.phase = "Completed" /\ Newer(c, v)}
  OBVIOUS
<1>3. newer # {}
  <2>1. CASE newer = {}
    BY <1>1, <2>1, FS_EmptySet
  <2> QED
    BY <2>1
<1> QED
  BY <1>1, <1>2, <1>3

\* More newer Backups that are left are still enough.
LEMMA EnoughMore ==
  ASSUME FiniteInv', keeps \subseteq keeps', keeps \subseteq Nat, NEW b, NEW c, Enough(b),
         NewerLeft(b) \subseteq NewerLeft(c)'
  PROVE  Enough(c)'
<1>1. IsFiniteSet(backups' \cup dropped')
  BY FS_Union DEF FiniteInv
<1>2. IsFiniteSet(NewerLeft(c)')
  BY <1>1, FS_Subset DEF NewerLeft
<1>3. Cardinality(NewerLeft(b)) <= Cardinality(NewerLeft(c)') /\ IsFiniteSet(NewerLeft(b))
  BY <1>2, FS_Subset
<1>4. Cardinality(NewerLeft(b)) \in Nat /\ Cardinality(NewerLeft(c)') \in Nat
  BY <1>2, <1>3, FS_CardinalityType
<1>5. PICK k \in keeps : Cardinality(NewerLeft(b)) >= k
  BY DEF Enough
<1>6. Cardinality(NewerLeft(c)') >= k /\ k \in keeps'
  BY <1>3, <1>4, <1>5
<1> QED
  BY <1>6 DEF Enough

\* The victim prune deletes is the only Backup of its name.
LEMMA ChosenOnly ==
  ASSUME TypeOK, VictimInv, prune
  PROVE  /\ Chosen \in victims /\ Chosen \in BackupObj /\ Chosen.phase = "Completed"
         /\ \A c \in backups : c.at = Chosen.at => c = Chosen
<1>1. victims # {}
  BY DEF VictimInv, prune
<1>2. Chosen \in victims
  BY <1>1, ChosenVictim DEF VictimInv, Chosen
<1> QED
  BY <1>2 DEF VictimInv, TypeOK

\* What has enough newer Backups goes on having them: those prune deletes have enough
\* newer ones themselves.
LEMMA StillEnough ==
  ASSUME [Step]_vars, TypeOK, FiniteInv', VictimInv, EnoughInv, NEW x \in BackupObj, Enough(x)
  PROVE  Enough(x)'
<1>1. keeps \subseteq keeps' /\ keeps \subseteq Nat
  BY BackupMoves DEF TypeOK
<1>2. CASE NewerLeft(x) \subseteq NewerLeft(x)'
  BY <1>1, <1>2, EnoughMore
<1>3. CASE (UNCHANGED <<backups, dropped>>) \/ CreateStep \/ DropStep
  BY <1>2, <1>3 DEF NewerLeft, CreateStep, DropStep
<1>4. CASE EndStep
  <2>1. PICK b \in backups, n \in BackupObj :
          b.phase = "Running" /\ backups' = (backups \ {b}) \cup {n}
    BY <1>4, Ended
  <2> QED
    BY <1>2, <1>4, <2>1 DEF NewerLeft, EndStep
<1>5. CASE PruneStep
  <2>1. /\ Chosen \in victims /\ Chosen \in BackupObj
        /\ \A c \in backups : c.at = Chosen.at => c = Chosen
    BY <1>5, ChosenOnly DEF PruneStep
  <2>2. /\ backups' = {c \in backups : c.at # Chosen.at} /\ dropped' = dropped
        /\ \A c \in backups \cup dropped : c \in BackupObj
    BY <1>5 DEF PruneStep, TypeOK
  <2>3. CASE Newer(Chosen, x)
    <3>1. Enough(Chosen)
      BY <2>1 DEF EnoughInv
    <3>2. ASSUME NEW c \in NewerLeft(Chosen) PROVE c \in NewerLeft(x)'
      <4>1. c \in backups \cup dropped /\ c.phase = "Completed" /\ Newer(c, Chosen)
        BY DEF NewerLeft
      <4>2. c # Chosen /\ Newer(c, x)
        BY <2>1, <2>2, <2>3, <4>1, NewerOrder
      <4> QED
        BY <2>1, <2>2, <4>1, <4>2 DEF NewerLeft
    <3> QED
      BY <1>1, <3>1, <3>2, EnoughMore
  <2>4. CASE ~Newer(Chosen, x)
    <3>1. ASSUME NEW c \in NewerLeft(x) PROVE c \in NewerLeft(x)'
      BY <2>1, <2>2, <2>4 DEF NewerLeft
    <3> QED
      BY <1>2, <3>1
  <2> QED
    BY <2>3, <2>4
<1> QED
  BY <1>3, <1>4, <1>5, BackupMoves

\* What the list says is surplus may go: it is the Backup of that name, and enough
\* newer ones are left.
LEMMA ListStepOK ==
  ASSUME TypeOK, TypeOK', FiniteInv, FiniteInv', ListInv, NameInv, EnoughInv, ListStep,
         NEW v \in victims'
  PROVE  /\ v \in listed /\ v.phase = "Completed"
         /\ \A c \in backups' : c.at = v.at => c = v
         /\ Enough(v)'
<1>1. /\ victims' = Surplus(listed, seen.spec.keep) /\ keeps' = keeps \cup {seen.spec.keep}
      /\ UNCHANGED <<backups, listed, dropped, pruned>>
  BY DEF ListStep, stored
<1>2. seen.spec.keep \in Nat \ {0}
  BY ScheduleAssumption DEF ListStep, TypeOK, SchedObj, SpecType, KeepAll
<1> DEFINE keep  == seen.spec.keep
           newer == {c \in listed : c.phase = "Completed" /\ Newer(c, v)}
<1>3. /\ v \in listed /\ v.phase = "Completed" /\ Cardinality(newer) >= keep
      /\ \E u \in listed : Newer(u, v)
  <2>1. v \in Surplus(listed, keep) /\ keep \in Nat \ {0}
    BY <1>1, <1>2
  <2> HIDE DEF keep
  <2> QED
    BY <2>1, SurplusHasNewer
<1>4. \A c \in backups' : c.at = v.at => c = v
  BY <1>1, <1>3 DEF NameInv
<1>5. keeps \subseteq keeps' /\ keeps \subseteq Nat
  BY <1>1 DEF TypeOK
<1>6. CASE newer \subseteq backups \cup dropped
  <2>1. newer \subseteq NewerLeft(v)'
    BY <1>1, <1>6 DEF NewerLeft
  <2>2. IsFiniteSet(backups' \cup dropped')
    BY FS_Union DEF FiniteInv
  <2>3. IsFiniteSet(NewerLeft(v)')
    BY <2>2, FS_Subset DEF NewerLeft
  <2> HIDE DEF newer
  <2>4. IsFiniteSet(newer) /\ Cardinality(newer) <= Cardinality(NewerLeft(v)')
    BY <2>1, <2>3, FS_Subset
  <2>5. Cardinality(newer) \in Nat /\ Cardinality(NewerLeft(v)') \in Nat
    BY <2>3, <2>4, FS_CardinalityType
  <2>6. Cardinality(NewerLeft(v)') >= keep /\ keep \in keeps'
    BY <1>1, <1>2, <1>3, <2>4, <2>5
  <2> QED
    BY <1>3, <1>4, <2>6 DEF Enough
<1>7. CASE ~(newer \subseteq backups \cup dropped)
  <2>1. PICK p \in newer : p \in pruned
    BY <1>7 DEF ListInv
  <2>2. Enough(p) /\ p \in BackupObj /\ v \in BackupObj /\ Newer(p, v)
    BY <1>3, <2>1 DEF EnoughInv, TypeOK
  <2>3. ASSUME NEW c \in NewerLeft(p) PROVE c \in NewerLeft(v)'
    <3>1. c \in backups \cup dropped /\ c \in BackupObj /\ c.phase = "Completed" /\ Newer(c, p)
      BY DEF NewerLeft, TypeOK
    <3>2. Newer(c, v)
      BY <2>2, <3>1, NewerOrder
    <3> QED
      BY <1>1, <3>1, <3>2 DEF NewerLeft
  <2> QED
    BY <1>3, <1>4, <1>5, <2>2, <2>3, EnoughMore
<1> QED
  BY <1>6, <1>7

\* Every step preserves what is known of the Backups left to delete.
LEMMA VictimStep ==
  ASSUME [Step]_vars, TypeOK, TypeOK', FiniteInv', PruneInv
  PROVE  VictimInv' /\ \A b \in victims' : Enough(b)'
<1> USE DEF PruneInv
<1>1. CASE victims' = {} /\ pc' # "delete"
  BY <1>1 DEF VictimInv, OneEach
<1>2. CASE ListStep
  <2>1. OneEach(victims)'
    BY <1>2, ListStepOK DEF FiniteInv, OneEach
  <2> QED
    BY <1>2, <2>1, ListStepOK DEF VictimInv, ListStep
<1>3. ASSUME victims' \subseteq victims PROVE OneEach(victims)' /\ \A b \in victims' : Enough(b)'
  BY <1>3, StillEnough DEF VictimInv, OneEach, EnoughInv, TypeOK
<1>4. CASE prune /\ victims' = victims \ {Chosen} /\ (pc' = "delete" <=> victims' # {})
  <2>1. backups' \subseteq backups
    BY <1>4 DEF prune, PutBackups, stored
  <2> QED
    BY <1>3, <1>4, <2>1 DEF VictimInv
<1>5. CASE UNCHANGED victims /\ (pc = "delete" <=> pc' = "delete") /\ ~prune
  <2>1. ASSUME NEW v \in victims, NEW c \in backups', c.at = v.at PROVE c = v
    <3>1. pc = "delete" /\ v.phase = "Completed" /\ \A d \in backups : d.at = v.at => d = v
      BY DEF VictimInv
    <3>2. CASE EndStep
      <4>1. PICK b \in backups, n \in BackupObj :
              b.phase = "Running" /\ n.at = b.at /\ backups' = (backups \ {b}) \cup {n}
        BY <3>2, Ended
      <4> QED
        BY <2>1, <3>1, <4>1
    <3>3. CASE (UNCHANGED backups) \/ CreateStep \/ DropStep
      BY <2>1, <3>1, <3>3 DEF CreateStep, DropStep
    <3> QED
      BY <1>5, <3>2, <3>3, BackupMoves DEF PruneStep
  <2> QED
    BY <1>3, <1>5, <2>1 DEF VictimInv
<1> QED
  BY <1>1, <1>2, <1>4, <1>5, VictimMoves

\* Every step preserves what is known of the Backups that were deleted.
LEMMA PrunedStep ==
  ASSUME [Step]_vars, TypeOK, FiniteInv', VictimInv, EnoughInv, NEW b \in pruned'
  PROVE  b.phase = "Completed" /\ Enough(b)'
<1>1. CASE b \in pruned
  BY <1>1, StillEnough DEF EnoughInv, TypeOK
<1>2. CASE b \notin pruned
  <2>1. PruneStep
    BY <1>2, BackupMoves DEF CreateStep, EndStep, DropStep
  <2>2. b \in backups /\ b.at = Chosen.at
    BY <1>2, <2>1 DEF PruneStep
  <2>3. b \in victims /\ b \in BackupObj /\ b.phase = "Completed"
    BY <2>1, <2>2, ChosenOnly DEF PruneStep
  <2> QED
    BY <2>3, StillEnough DEF EnoughInv
<1> QED
  BY <1>1, <1>2

\* Whatever prune deleted was completed, and as many newer completed Backups as a
\* spec.keep it went by are left besides those that users deleted: for every clock,
\* spec.keep, number of Backups, failed calls, restarts and deletions, and however
\* far the informers of the schedule and of the Backups lag behind.
THEOREM PruneKeepsTheNewest == Spec => []PruneKeepsNewest
<1> DEFINE Inv == TypeOK /\ AheadInv /\ PruneInv
<1>1. Init => Inv
  <2> SUFFICES ASSUME Init PROVE PruneInv
    BY InitType
  <2> QED
    BY FS_EmptySet
    DEF Init, PruneInv, FiniteInv, BirthInv, ListInv, NameInv, VictimInv, EnoughInv, OneEach
<1>2. Inv /\ [Step]_vars => Inv'
  <2> SUFFICES ASSUME Inv, [Step]_vars PROVE Inv'
    OBVIOUS
  <2>1. (TypeOK /\ AheadInv)'
    BY NextType
  <2>2. FiniteInv'
    BY FiniteStep DEF PruneInv
  <2>3. BirthInv' /\ ListInv' /\ NameInv'
    BY <2>1, <2>2, BirthStep, ListedStep, NameStep DEF PruneInv
  <2>4. VictimInv' /\ \A b \in victims' : Enough(b)'
    BY <2>1, <2>2, VictimStep
  <2>5. \A b \in pruned' : b.phase = "Completed" /\ Enough(b)'
    BY <2>2, PrunedStep DEF PruneInv
  <2>6. EnoughInv'
    BY <2>4, <2>5 DEF EnoughInv
  <2> QED
    BY <2>1, <2>2, <2>3, <2>4, <2>6 DEF PruneInv
<1>3. Inv => PruneKeepsNewest
  BY DEF PruneInv, EnoughInv, Enough, PruneKeepsNewest
<1> QED
  BY <1>1, <1>2, <1>3, PTL DEF Spec

(***************************************************************************)
(* How many Backups a run may get.                                         *)
(*                                                                         *)
(* Only faults lose the record of a Backup that was created.  The          *)
(* invariant says that a run which the recorded time does not cover yet    *)
(* has at most as many Backups as there were faults, so that one more is   *)
(* one more than that; the time counts as recorded from the moment the     *)
(* running reconcile holds it.                                             *)
(***************************************************************************)
\* The time of the last run as the next decision will read it.
Last ==
  IF pc = "idle" THEN sched.status.last
  ELSE IF pc = "create" THEN seen.status.last ELSE new.last

\* The run has not been taken by the time last.
Behind(last, r) == last = Never \/ SlotOf(last) < r

TakenIn(r) == {t \in taken : SlotOf(t) = r}

\* Whoever reads the schedule reads what the last reconcile recorded.
ReadInv ==
  /\ cache = sched
  /\ pc # "idle" /\ sched # NoObj => seen.status.last = sched.status.last
  /\ pc = "create" => due(seen, at)

CountInv ==
  \A r \in Runs \cup {0} :
    /\ Cardinality(TakenIn(r)) <= 1 + faults
    /\ (pc # "idle" \/ sched # NoObj) /\ Behind(Last, r) => Cardinality(TakenIn(r)) <= faults

\* A schedule that is due has a run after the last one recorded.
LEMMA DueIsBehind ==
  ASSUME NEW s \in SchedObj, NEW t \in Time, due(s, t)
  PROVE  \A r \in Runs \cup {0} : r >= SlotOf(t) => Behind(s.status.last, r)
<1>1. CASE s.status.last = Never
  BY <1>1 DEF Behind
<1>2. CASE s.status.last # Never
  <2> DEFINE last == s.status.last
  <2>1. last \in Time
    BY <1>2 DEF SchedObj, Status
  <2>2. t >= Next(last)
    BY <1>2 DEF due
  <2> HIDE DEF last
  <2>3. t \in Nat /\ t <= MaxTime /\ last \in Nat /\ MaxTime \in Nat
    BY <2>1, Times
  <2>4. Next(last) \in Nat /\ Next(last) > last /\ (Next(last) <= MaxTime => Next(last) \in Runs)
    BY <2>1, NextRun
  <2>5. Next(last) \in Runs
    BY <2>2, <2>3, <2>4
  <2>6. Next(last) <= SlotOf(t) /\ SlotOf(t) \in Nat
    <3>1. Next(last) \in Runs \cup {0} /\ Next(last) <= t
      BY <2>2, <2>3, <2>4, <2>5
    <3> QED
      BY <3>1, SlotType
  <2>7. SlotOf(last) <= last /\ SlotOf(last) \in Nat
    BY <2>1, SlotType
  <2>8. SlotOf(last) < SlotOf(t)
    BY <2>3, <2>4, <2>6, <2>7
  <2>9. ASSUME NEW r \in Runs \cup {0}, r >= SlotOf(t) PROVE SlotOf(last) < r
    <3>1. r \in Nat
      BY Times
    <3> QED
      BY <2>6, <2>7, <2>8, <2>9, <3>1
  <2> QED
    BY <2>9 DEF Behind, last
<1> QED
  BY <1>1, <1>2

\* Sets of times are finite.
LEMMA TakenFinite ==
  ASSUME NEW S, S \subseteq Time
  PROVE  IsFiniteSet(S) /\ Cardinality(S) \in Nat
<1>1. S \in SUBSET Nat /\ MaxTime \in Nat /\ \A s \in S : s <= MaxTime
  BY Times
<1>2. IsFiniteSet(S)
  BY <1>1, FS_BoundedSetOfNaturals
<1> QED
  BY <1>2, FS_CardinalityType

\* One Backup more, at a time of the run or not.
LEMMA OneMore ==
  ASSUME TypeOK, NEW t \in Time, taken' = taken \cup {t}, NEW r
  PROVE  /\ Cardinality(TakenIn(r)') <= Cardinality(TakenIn(r)) + 1
         /\ SlotOf(t) # r => TakenIn(r)' = TakenIn(r)
<1>1. TakenIn(r) \subseteq Time /\ Cardinality(TakenIn(r)) \in Nat /\ IsFiniteSet(TakenIn(r))
  BY TakenFinite DEF TypeOK, TakenIn
<1>2. CASE SlotOf(t) = r
  <2>1. TakenIn(r)' = TakenIn(r) \cup {t}
    BY <1>2 DEF TakenIn
  <2>2. Cardinality(TakenIn(r) \cup {t}) =
          IF t \in TakenIn(r) THEN Cardinality(TakenIn(r)) ELSE Cardinality(TakenIn(r)) + 1
    BY <1>1, FS_AddElement
  <2>3. Cardinality(TakenIn(r) \cup {t}) <= Cardinality(TakenIn(r)) + 1
    BY <1>1, <2>2
  <2> QED
    BY <1>2, <2>1, <2>3
<1>3. CASE SlotOf(t) # r
  <2>1. TakenIn(r)' = TakenIn(r)
    BY <1>3 DEF TakenIn
  <2> QED
    BY <1>1, <2>1
<1> QED
  BY <1>2, <1>3

\* Reads stay current: only this worker writes the status, one reconcile at a time.
LEMMA ReadStep ==
  ASSUME Lag = FALSE, TypeOK, TypeOK', [Step]_vars, ReadInv
  PROVE  ReadInv'
<1>1. CASE Idle /\ cache' = sched'
  BY <1>1 DEF Idle, ReadInv
<1>2. CASE PatchStatus \/ Restart
  <2>1. Idle /\ cache' = sched'
    BY <1>2 DEF PatchStatus, PutSched, Restart, Fault, ReadInv
  <2> QED
    BY <1>1, <2>1
<1>3. CASE createBackup \/ listBackups \/ prune
  <2>1. UNCHANGED <<sched, cache>>
    BY <1>3 DEF createBackup, listBackups, prune
  <2>2. Idle \/ (UNCHANGED seen /\ pc' # "create" /\ pc # "idle")
    BY <1>3 DEF createBackup, listBackups, prune, Fault
  <2> QED
    BY <1>1, <2>1, <2>2 DEF ReadInv
<1>4. CASE Reconcile
  <2>1. UNCHANGED <<sched, cache>> /\ pc = "idle"
    BY <1>4 DEF Reconcile
  <2>2. CASE Gone(cache)
    BY <1>4, <2>1, <2>2 DEF Reconcile, worker, ReadInv
  <2>3. CASE ~Gone(cache)
    <3>1. seen' = cache /\ at' = now /\ (pc' = "create" => due(cache, now))
      BY <1>4, <2>3 DEF Reconcile
    <3>2. pc' = "create" => due(seen', at')
      BY <3>1
    <3> QED
      BY <2>1, <3>1, <3>2 DEF ReadInv, due
  <2> QED
    BY <2>2, <2>3
<1>5. CASE Deliver \/ DeliverList \/ Fire \/ Tick \/ BackupEnds \/ DeleteBackup \/ UNCHANGED vars
  BY <1>5 DEF Deliver, DeliverList, Fire, Tick, BackupEnds, DeleteBackup, vars, worker, ReadInv, due
<1>6. CASE EditSchedule \/ DeleteSchedule
  <2>1. sched \in SchedObj /\ UNCHANGED worker
    BY <1>6 DEF EditSchedule, DeleteSchedule, TypeOK
  <2>2. cache' = sched' /\ (sched' # NoObj => sched'.status = sched.status)
    <3>1. CASE EditSchedule
      <4>1. PICK s \in Specs : PutSched([sched EXCEPT !.spec = s])
        BY <3>1 DEF EditSchedule
      <4> QED
        BY <2>1, <4>1 DEF PutSched, SchedObj
    <3>2. CASE DeleteSchedule
      <4>1. PICK o \in {NoObj, [sched EXCEPT !.deleting = TRUE]} : PutSched(o)
        BY <3>2 DEF DeleteSchedule
      <4> QED
        BY <2>1, <4>1 DEF PutSched, SchedObj
    <3> QED
      BY <1>6, <3>1, <3>2
  <2>3. sched # NoObj
    BY <2>1, NoObjAssumption
  <2> QED
    BY <2>1, <2>2, <2>3 DEF worker, ReadInv, due
<1> QED
  BY <1>2, <1>3, <1>4, <1>5, <1>6 DEF Step, Worker, Environment

\* Every step preserves the count.
LEMMA CountStep ==
  ASSUME Lag = FALSE, TypeOK, TypeOK', [Step]_vars, ReadInv, CountInv
  PROVE  CountInv'
<1>1. faults \in Nat /\ faults' \in Nat /\ (faults' = faults \/ faults' = faults + 1)
  <2>1. CASE Worker
    BY <2>1 DEF Worker, Reconcile, createBackup, listBackups, prune, PatchStatus, Fault, TypeOK
  <2>2. CASE Restart \/ Environment \/ UNCHANGED vars
    BY <2>2
    DEF Restart, Environment, Deliver, DeliverList, Fire, Tick, BackupEnds, DeleteBackup, EditSchedule,
        DeleteSchedule, TypeOK, vars
  <2> QED
    BY <2>1, <2>2 DEF Step
<1>2. \A r \in Runs \cup {0} : Cardinality(TakenIn(r)) \in Nat
  BY TakenFinite DEF TypeOK, TakenIn
<1>3. CASE taken' = taken /\ faults' = faults + 1
  <2>1. \A r \in Runs \cup {0} : TakenIn(r)' = TakenIn(r)
    BY <1>3 DEF TakenIn
  <2> QED
    BY <1>1, <1>2, <1>3, <2>1 DEF CountInv
<1>4. CASE /\ taken' = taken /\ faults' = faults
           /\ pc' # "idle" \/ sched' # NoObj =>
                (pc # "idle" \/ sched # NoObj) /\ Last' = Last
  <2>1. \A r \in Runs \cup {0} : TakenIn(r)' = TakenIn(r)
    BY <1>4 DEF TakenIn
  <2>2. ASSUME NEW r \in Runs \cup {0}, pc' # "idle" \/ sched' # NoObj, Behind(Last, r)'
        PROVE  Cardinality(TakenIn(r)) <= faults
    <3>1. Behind(Last, r)
      BY <1>4, <2>2 DEF Behind
    <3> QED
      BY <1>4, <2>2, <3>1 DEF CountInv
  <2> QED
    BY <1>4, <2>1, <2>2 DEF CountInv
<1>5. CASE createBackup
  <2>1. /\ pc = "create" /\ seen \in SchedObj /\ at \in Time /\ due(seen, at)
        /\ Last = seen.status.last
    BY <1>5 DEF createBackup, ReadInv, TypeOK, Last
  <2>2. \A r \in Runs \cup {0} : r >= SlotOf(at) => Cardinality(TakenIn(r)) <= faults
    BY <2>1, DueIsBehind DEF CountInv
  <2>3. SlotOf(at) \in Runs \cup {0} /\ SlotOf(at) \in Nat /\ at # Never /\ at \in Nat
    BY <2>1, SlotType, Times DEF Never
  <2>4. taken' = taken \/ taken' = taken \cup {at}
    BY <1>5 DEF createBackup, Created
  <2>5. ASSUME NEW r \in Runs \cup {0}
        PROVE  /\ Cardinality(TakenIn(r)') \in Nat
               /\ Cardinality(TakenIn(r)') <= 1 + faults
               /\ r > SlotOf(at) => Cardinality(TakenIn(r)') <= faults
    <3>1. r \in Nat
      BY Times
    <3>2. Cardinality(TakenIn(r)') \in Nat
      BY TakenFinite DEF TypeOK, TakenIn
    <3>3. CASE taken' = taken
      <4>1. TakenIn(r)' = TakenIn(r)
        BY <3>3 DEF TakenIn
      <4> QED
        BY <1>1, <2>2, <2>3, <3>1, <3>2, <4>1 DEF CountInv
    <3>4. CASE taken' = taken \cup {at} /\ SlotOf(at) = r
      <4>1. Cardinality(TakenIn(r)') <= Cardinality(TakenIn(r)) + 1
        BY <2>1, <3>4, OneMore
      <4>2. Cardinality(TakenIn(r)) <= faults
        BY <2>2, <2>3, <3>1, <3>4
      <4> QED
        BY <1>1, <1>2, <2>3, <3>1, <3>2, <3>4, <4>1, <4>2
    <3>5. CASE taken' = taken \cup {at} /\ SlotOf(at) # r
      <4>1. TakenIn(r)' = TakenIn(r)
        BY <2>1, <3>5, OneMore
      <4> QED
        BY <1>1, <2>2, <2>3, <3>1, <3>2, <4>1 DEF CountInv
    <3> QED
      BY <2>4, <3>3, <3>4, <3>5
  <2>6. CASE faults' = faults + 1
    BY <1>1, <2>5, <2>6 DEF CountInv
  <2>7. CASE faults' # faults + 1
    <3>1. pc' = "prune" /\ new' = Recorded(new, at) /\ faults' = faults
      BY <1>5, <2>7 DEF createBackup, Fault
    <3>2. Last' = at
      BY <3>1 DEF Last, Recorded, Status, TypeOK
    <3>3. ASSUME NEW r \in Runs \cup {0}, Behind(Last, r)'
          PROVE  Cardinality(TakenIn(r)') <= faults
      <4>1. SlotOf(at) < r
        BY <2>3, <3>2, <3>3 DEF Behind
      <4>2. r > SlotOf(at)
        BY <2>3, <4>1, Times
      <4> QED
        BY <2>5, <4>2
    <3> QED
      BY <2>5, <3>1, <3>3 DEF CountInv
  <2> QED
    BY <2>6, <2>7
<1>6. CASE PatchStatus
  <2>1. taken' = taken /\ pc = "status" /\ pc' = "idle"
    BY <1>6 DEF PatchStatus, history, Idle, Fault
  <2>2. CASE faults' = faults + 1
    BY <1>3, <2>1, <2>2
  <2>3. CASE faults' # faults + 1
    <3>1. faults' = faults /\ (sched' # NoObj => sched # NoObj /\ sched' = Patched(sched))
      BY <1>6, <2>3 DEF PatchStatus, PutSched, Fault
    <3>2. sched' # NoObj => sched'.status.last = new.last
      BY <2>1, <3>1, PatchedType DEF ReadInv, TypeOK
    <3>3. sched' # NoObj => Last' = Last
      BY <2>1, <3>2 DEF Last
    <3> QED
      BY <1>4, <2>1, <3>1, <3>3
  <2> QED
    BY <2>2, <2>3
<1>7. CASE listBackups \/ prune
  <2>1. taken' = taken /\ sched' = sched /\ pc \in {"prune", "delete"}
    BY <1>7 DEF listBackups, prune, history
  <2>2. (faults' = faults + 1) \/ (faults' = faults /\ pc' \in {"delete", "status"} /\ new' = new)
    BY <1>7 DEF listBackups, prune, Fault
  <2>3. faults' = faults => Last' = Last
    BY <1>1, <2>1, <2>2 DEF Last
  <2> QED
    BY <1>3, <1>4, <2>1, <2>2, <2>3
<1>8. CASE Reconcile
  <2>1. UNCHANGED <<sched, cache, taken, faults>> /\ pc = "idle"
    BY <1>8 DEF Reconcile, history
  <2>2. CASE Gone(cache)
    BY <1>4, <1>8, <2>1, <2>2 DEF Reconcile, worker, Last
  <2>3. CASE ~Gone(cache)
    <3>1. cache \in SchedObj /\ cache.status \in Status /\ sched # NoObj /\ cache = sched
      BY <2>3 DEF Gone, TypeOK, ReadInv, SchedObj
    <3>2. seen' = cache /\ pc' \in {"create", "status"}
      BY <1>8, <2>3 DEF Reconcile
    <3>3. new'.last = cache.status.last
      BY <1>8, <2>3, <3>1 DEF Reconcile, Scheduled, Status
    <3>4. Last' = Last
      BY <2>1, <3>1, <3>2, <3>3 DEF Last
    <3> QED
      BY <1>4, <2>1, <3>1, <3>4
  <2> QED
    BY <2>2, <2>3
<1>9. CASE Restart
  BY <1>3, <1>9 DEF Restart, history
<1>10. CASE Deliver \/ DeliverList \/ Fire \/ Tick \/ BackupEnds \/ DeleteBackup \/ UNCHANGED vars
  <2>1. UNCHANGED <<sched, worker, taken, faults>>
    BY <1>10 DEF Deliver, DeliverList, Fire, Tick, BackupEnds, DeleteBackup, vars, history
  <2> QED
    BY <1>4, <2>1 DEF worker, Last
<1>11. CASE EditSchedule \/ DeleteSchedule
  <2>1. sched \in SchedObj /\ sched # NoObj /\ UNCHANGED <<worker, taken, faults>>
    BY <1>11 DEF EditSchedule, DeleteSchedule, TypeOK, history
  <2>2. sched' # NoObj => sched'.status = sched.status
    <3>1. CASE EditSchedule
      <4>1. PICK s \in Specs : PutSched([sched EXCEPT !.spec = s])
        BY <3>1 DEF EditSchedule
      <4> QED
        BY <2>1, <4>1 DEF PutSched, SchedObj
    <3>2. CASE DeleteSchedule
      <4>1. PICK o \in {NoObj, [sched EXCEPT !.deleting = TRUE]} : PutSched(o)
        BY <3>2 DEF DeleteSchedule
      <4> QED
        BY <2>1, <4>1 DEF PutSched, SchedObj
    <3> QED
      BY <1>11, <3>1, <3>2
  <2>3. pc' # "idle" \/ sched' # NoObj => Last' = Last
    BY <2>1, <2>2 DEF Last, worker
  <2> QED
    BY <1>4, <2>1, <2>3
<1> QED
  BY <1>5, <1>6, <1>7, <1>8, <1>9, <1>10, <1>11 DEF Step, Worker, Environment

\* Unless the informer lags, a schedule creates at most one Backup for every run of
\* its cron expression and every failed call or restart, for every schedule, clock
\* and number of faults, and whatever edits, suspensions and deletions of Backups
\* come in between.
THEOREM ExtraBackupsAlwaysBounded ==
  ASSUME Lag = FALSE
  PROVE  Spec => []ExtraBackupsBounded
<1> DEFINE Inv == TypeOK /\ AheadInv /\ ReadInv /\ CountInv
<1>1. Init => Inv
  <2> SUFFICES ASSUME Init PROVE ReadInv /\ CountInv
    BY InitType
  <2>1. ReadInv
    BY DEF Init, ReadInv
  <2>2. \A r \in Runs \cup {0} : TakenIn(r) = {}
    BY DEF Init, TakenIn
  <2>3. CountInv
    BY <2>2, FS_EmptySet DEF Init, CountInv
  <2> QED
    BY <2>1, <2>3
<1>2. Inv /\ [Step]_vars => Inv'
  <2> SUFFICES ASSUME Inv, [Step]_vars PROVE Inv'
    OBVIOUS
  <2>1. (TypeOK /\ AheadInv)'
    BY NextType
  <2> QED
    BY <2>1, ReadStep, CountStep
<1>3. Inv => ExtraBackupsBounded
  BY DEF CountInv, TakenIn, ExtraBackupsBounded
<1> QED
  BY <1>1, <1>2, <1>3, PTL DEF Spec
=============================================================================
