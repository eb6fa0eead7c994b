---------------------------- MODULE SchedulingProofs ----------------------------
(* The loops that run on a clock: no task is enqueued twice in a period, the *)
(* GPU is shut down only after it was idle, no scheduled review is made      *)
(* twice or left out; and the types of what MCScheduling composes.           *)
EXTENDS MCScheduling, FiniteSetTheorems, TLAPS

-----------------------------------------------------------------------------
(* RecurringScheduler.                                                     *)

\* Within a tick a replica holds the lock; outside it has nothing planned.
OneTick ==
    /\ \A r \in ticking : lock = r
    /\ \A r \in Replicas \ ticking : plan[r] = {} /\ todo[r] = {}

\* A task that ran is not ready again before its period has elapsed, and a task
\* that a tick plans to run has not run.
Earned ==
    /\ \A k \in Tasks : unearned[k] > 0 => row[k] # NoRow /\ ~row[k].ready
    /\ \A r \in Replicas : \A k \in plan[r] : unearned[k] = 0

InFlight == {a \in Admins : request[a] # NoRow}
Planned(k) == IF \E r \in Replicas : k \in plan[r] THEN 1 ELSE 0

\* What waits, what a tick will add, and what the requests in flight may add.
Room ==
    /\ IsFiniteSet(InFlight) /\ Cardinality(InFlight) <= requests
    /\ \A k \in Tasks : queued[k] + Planned(k) + Cardinality(InFlight) <= 1 + requests + faults

SchedulerInv == TypeOK /\ OneTick /\ Earned /\ OncePerPeriod /\ Room

-----------------------------------------------------------------------------
\* A step that leaves plans, queues and requests alone leaves the room.
LEMMA RoomKept ==
    ASSUME Room, UNCHANGED <<plan, queued, request, requests, faults>>
    PROVE  Room'
  BY DEF Room, InFlight, Planned

\* A scheduled run writes a row whose next run is ahead.
LEMMA AdvancedIsRow ==
    ASSUME NEW old \in Rows \cup {NoRow}
    PROVE  Advanced(old) \in Rows /\ ~Advanced(old).ready
<1>1. (IF old = NoRow THEN TRUE ELSE old.enabled) \in BOOLEAN
  BY DEF Rows
<1>2. ~Advanced(old).ready
  BY DEF Advanced
<1>q. QED
  BY <1>1, <1>2 DEF Advanced, Rows

\* Whatever the page writes is a row.
LEMMA AdminWritesRows ==
    ASSUME NEW old \in Rows \cup {NoRow}
    PROVE  Saved(old) \subseteq Rows /\ Toggled(old) \subseteq Rows /\ Ran(old) \subseteq Rows
<1>1. Saved(old) \subseteq Rows
  <2>1. CASE old = NoRow
    BY <2>1 DEF Saved, Rows
  <2>2. CASE old # NoRow
    <3>1. \A b \in BOOLEAN : [old EXCEPT !.ready = b] \in Rows
      BY <2>2 DEF Rows
    <3>q. QED
      BY <2>2, <3>1 DEF Saved
  <2>q. QED
    BY <2>1, <2>2
<1>2. Toggled(old) \subseteq Rows
  <2>1. CASE old = NoRow
    BY <2>1 DEF Toggled, Rows
  <2>2. CASE old # NoRow
    <3>1. old \in Rows /\ old.enabled \in BOOLEAN /\ old.ready \in BOOLEAN
      BY <2>2 DEF Rows
    <3>2. (old.enabled /\ old.ready) \in BOOLEAN /\ (~old.enabled) \in BOOLEAN
      OBVIOUS
    <3>q. QED
      BY <2>2, <3>1, <3>2 DEF Toggled, Rows
  <2>q. QED
    BY <2>1, <2>2
<1>3. Ran(old) \subseteq Rows
  <2> DEFINE on == IF old = NoRow THEN TRUE ELSE old.enabled
  <2>1. on \in BOOLEAN
    BY DEF Rows
  <2>2. Ran(old) = {[enabled |-> on, ready |-> FALSE, ran |-> TRUE]}
    BY DEF Ran
  <2> HIDE DEF on
  <2>3. [enabled |-> on, ready |-> FALSE, ran |-> TRUE] \in Rows
    BY <2>1 DEF Rows
  <2>q. QED
    BY <2>2, <2>3
<1>q. QED
  BY <1>1, <1>2, <1>3

\* The initial state: nothing is planned, waiting or asked for.
THEOREM SchedulerInitInv == Init => SchedulerInv
<1> SUFFICES ASSUME Init PROVE SchedulerInv
  OBVIOUS
<1>1. TypeOK
  BY SchedulerAssumption DEF Init, TypeOK
<1>2. OneTick /\ Earned /\ OncePerPeriod
  BY DEF Init, OneTick, Earned, OncePerPeriod
<1>3. InFlight = {} /\ \A k \in Tasks : Planned(k) = 0
  BY DEF Init, InFlight, Planned
<1>4. Room
  BY <1>3, FS_EmptySet DEF Init, Room
<1>q. QED
  BY <1>1, <1>2, <1>4 DEF SchedulerInv

\* Every step, one per action of a tick, an admin request, time and the queue.
THEOREM SchedulerStepInv == SchedulerInv /\ [Next]_vars => SchedulerInv'
<1> SUFFICES ASSUME SchedulerInv, [Next]_vars PROVE SchedulerInv'
  OBVIOUS
<1>. TypeOK /\ OneTick /\ Earned /\ OncePerPeriod /\ Room
  BY DEF SchedulerInv
<1>. /\ Cardinality(InFlight) \in Nat /\ requests \in Nat /\ faults \in Nat
     /\ \A k \in Tasks : Planned(k) \in {0, 1}
  BY FS_CardinalityType DEF Room, Planned, TypeOK
<1> USE SchedulerAssumption DEF tickVars, Rows
<1>1. ASSUME NEW r \in Replicas, TickStart(r)
      PROVE  SchedulerInv'
  <2>1. TypeOK'
    BY <1>1 DEF TickStart, TypeOK
  <2>2. OneTick'
    BY <1>1 DEF TickStart, TypeOK, OneTick
  <2>3. Earned' /\ OncePerPeriod'
    BY <1>1 DEF TickStart, Earned, OncePerPeriod
  <2>4. Room'
    BY <1>1, RoomKept DEF TickStart
  <2>q. QED
    BY <2>1, <2>2, <2>3, <2>4 DEF SchedulerInv
<1>2. ASSUME NEW r \in Replicas, NEW k \in Tasks, TickTask(r, k)
      PROVE  SchedulerInv'
  <2>1. TypeOK'
    <3>1. CASE Enqueues(k)
      <4>1. base' = [base EXCEPT ![r] = [base[r] EXCEPT ![k] = row[k]]]
        BY <1>2, <3>1 DEF TickTask
      <4>2. [base[r] EXCEPT ![k] = row[k]] \in [Tasks -> Rows \cup {NoRow}]
        BY DEF TypeOK
      <4>3. base' \in [Replicas -> [Tasks -> Rows \cup {NoRow}]]
        BY <4>1, <4>2 DEF TypeOK
      <4>4. /\ plan' \in [Replicas -> SUBSET Tasks] /\ todo' \in [Replicas -> SUBSET Tasks]
            /\ UNCHANGED <<row, queued, running, lock, ticking, request, requests, faults, unearned>>
        BY <1>2, <3>1 DEF TickTask, TypeOK
      <4>q. QED
        BY <4>3, <4>4 DEF TypeOK
    <3>2. CASE ~Enqueues(k)
      BY <1>2, <3>2 DEF TickTask, TypeOK
    <3>q. QED
      BY <3>1, <3>2
  <2>2. r \in ticking /\ OneTick'
    BY <1>2 DEF TickTask, TypeOK, OneTick
  <2>3. CASE Enqueues(k)
    <3>1. /\ unearned[k] = 0 /\ queued[k] = 0
          /\ plan' = [plan EXCEPT ![r] = @ \cup {k}]
          /\ UNCHANGED <<row, queued, request, requests, faults, unearned>>
      BY <1>2, <2>3 DEF TickTask, Enqueues, Due, Earned, TypeOK
    <3>2. Earned' /\ OncePerPeriod'
      BY <3>1 DEF Earned, OncePerPeriod, TypeOK
    <3>3. \A q \in Tasks : q # k => Planned(q)' = Planned(q)
      BY <3>1 DEF Planned, TypeOK
    <3>4. Planned(k)' \in {0, 1} /\ InFlight' = InFlight
      BY <3>1 DEF Planned, InFlight
    <3>5. Room'
      BY <3>1, <3>3, <3>4 DEF Room, TypeOK
    <3>q. QED
      BY <2>1, <2>2, <3>2, <3>5 DEF SchedulerInv
  <2>4. CASE ~Enqueues(k)
    <3>1. UNCHANGED <<plan, row, queued, request, requests, faults, unearned>>
      BY <1>2, <2>4 DEF TickTask
    <3>2. Earned' /\ OncePerPeriod'
      BY <3>1 DEF Earned, OncePerPeriod
    <3>q. QED
      BY <2>1, <2>2, <3>1, <3>2, RoomKept DEF SchedulerInv
  <2>q. QED
    BY <2>3, <2>4
<1>3. ASSUME NEW r \in Replicas, TickCommit(r)
      PROVE  SchedulerInv'
  <2>1. \A q \in Replicas : q # r => plan[q] = {}
    BY <1>3 DEF TickCommit, OneTick
  <2>2. \A q \in Replicas : plan'[q] = {}
    BY <1>3, <2>1 DEF TickCommit, TickEnds, TypeOK
  <2>3. \A k \in Tasks : Advanced(base[r][k]) \in Rows /\ ~Advanced(base[r][k]).ready
    BY AdvancedIsRow DEF TypeOK
  <2>4. TypeOK'
    BY <1>3, <2>3 DEF TickCommit, TickEnds, Release, TypeOK
  <2>5. OneTick'
    BY <1>3 DEF TickCommit, TickEnds, Release, OneTick, TypeOK
  <2>6. \A k \in plan[r] : row'[k] \in Rows /\ ~row'[k].ready /\ unearned'[k] = 1
    BY <1>3, <2>3 DEF TickCommit, Earned, TypeOK
  <2>7. \A k \in Tasks \ plan[r] : row'[k] = row[k] /\ unearned'[k] = unearned[k]
    BY <1>3 DEF TickCommit
  <2>8. Earned' /\ OncePerPeriod'
    BY <2>2, <2>4, <2>6, <2>7 DEF Earned, OncePerPeriod, TypeOK
  <2>9. /\ InFlight' = InFlight
        /\ \A k \in Tasks : queued'[k] + Planned(k)' = queued[k] + Planned(k)
    BY <1>3, <2>1, <2>2 DEF TickCommit, InFlight, Planned, TypeOK
  <2>10. Room'
    BY <1>3, <2>9 DEF TickCommit, Room, TypeOK
  <2>q. QED
    BY <2>4, <2>5, <2>8, <2>10 DEF SchedulerInv
<1>4. ASSUME NEW r \in Replicas, TickAbort(r)
      PROVE  SchedulerInv'
  <2>1. TypeOK'
    BY <1>4 DEF TickAbort, TickEnds, Release, Spend, TypeOK
  <2>2. OneTick'
    BY <1>4 DEF TickAbort, TickEnds, Release, OneTick, TypeOK
  <2>3. Earned' /\ OncePerPeriod'
    BY <1>4 DEF TickAbort, TickEnds, Earned, OncePerPeriod, TypeOK
  <2>4. /\ InFlight' = InFlight
        /\ \A k \in Tasks : Planned(k)' <= Planned(k)
    BY <1>4 DEF TickAbort, TickEnds, InFlight, Planned, TypeOK
  <2>5. faults' >= faults /\ requests' = requests /\ queued' = queued
    BY <1>4 DEF TickAbort, Spend
  <2>6. \A k \in Tasks : Planned(k)' \in {0, 1}
    BY DEF Planned
  <2>7. faults' \in Nat /\ \A k \in Tasks : queued[k] \in Nat
    BY <2>1 DEF TypeOK
  <2>8. Room'
    BY <2>4, <2>5, <2>6, <2>7 DEF Room
  <2>q. QED
    BY <2>1, <2>2, <2>3, <2>8 DEF SchedulerInv
<1>5. ASSUME NEW a \in Admins, AdminRead(a)
      PROVE  SchedulerInv'
  <2>1. PICK kind \in Kinds, k \in Tasks :
           request' = [request EXCEPT ![a] = [kind |-> kind, task |-> k, read |-> row[k]]]
    BY <1>5 DEF AdminRead
  <2>2. TypeOK'
    BY <1>5, <2>1 DEF AdminRead, TypeOK
  <2>3. OneTick' /\ Earned' /\ OncePerPeriod'
    BY <1>5 DEF AdminRead, OneTick, Earned, OncePerPeriod
  <2>4. InFlight' \subseteq InFlight \cup {a} /\ a \notin InFlight
    BY <1>5, <2>1 DEF AdminRead, InFlight, TypeOK
  <2>5. IsFiniteSet(InFlight') /\ Cardinality(InFlight') <= Cardinality(InFlight) + 1
    <3>1. /\ IsFiniteSet(InFlight \cup {a})
          /\ Cardinality(InFlight \cup {a}) = Cardinality(InFlight) + 1
      BY <2>4, FS_AddElement DEF Room
    <3>q. QED
      BY <2>4, <3>1, FS_Subset
  <2>6. Cardinality(InFlight') \in Nat
    BY <2>5, FS_CardinalityType
  <2>7. /\ UNCHANGED <<queued, faults>> /\ requests' = requests + 1
        /\ \A k_1 \in Tasks : Planned(k_1)' = Planned(k_1)
    BY <1>5 DEF AdminRead, Planned
  <2>8. Room'
    BY <2>5, <2>6, <2>7 DEF Room, TypeOK
  <2>q. QED
    BY <2>2, <2>3, <2>8 DEF SchedulerInv
<1>6. ASSUME NEW a \in Admins, AdminWrite(a)
      PROVE  SchedulerInv'
  <2> DEFINE q == request[a]
  <2>1. /\ q \in [kind : Kinds, task : Tasks, read : Rows \cup {NoRow}]
        /\ request' = [request EXCEPT ![a] = NoRow]
        /\ unearned' = [unearned EXCEPT ![q.task] = 0]
        /\ queued' = [queued EXCEPT ![q.task] = IF q.kind = "run-now" THEN @ + 1 ELSE @]
        /\ UNCHANGED <<running, lock, ticking, todo, plan, base, requests, faults>>
    BY <1>6 DEF AdminWrite, TypeOK
  <2>2. /\ Saved(q.read) \subseteq Rows /\ Ran(q.read) \subseteq Rows
        /\ Toggled(q.read) \subseteq Rows
    BY <2>1, AdminWritesRows
  <2>3. PICK new \in Rows : row' = [row EXCEPT ![q.task] = new]
    BY <1>6, <2>1, <2>2 DEF AdminWrite, Kinds
  <2>4. TypeOK'
    BY <2>1, <2>3 DEF TypeOK
  <2>5. OneTick'
    BY <2>1 DEF OneTick
  <2>6. Earned' /\ OncePerPeriod'
    BY <2>1, <2>3 DEF Earned, OncePerPeriod, TypeOK
  <2>7. InFlight' = InFlight \ {a} /\ a \in InFlight
    BY <1>6, <2>1 DEF AdminWrite, InFlight, TypeOK
  <2>8. IsFiniteSet(InFlight') /\ Cardinality(InFlight') = Cardinality(InFlight) - 1
    BY <2>7, FS_RemoveElement DEF Room
  <2>9. \A k \in Tasks : Planned(k)' = Planned(k) /\ queued'[k] <= queued[k] + 1
    BY <2>1 DEF Planned, TypeOK
  <2>10. Room'
    <3>1. /\ Cardinality(InFlight) \in Nat /\ Cardinality(InFlight) <= requests
          /\ \A k \in Tasks : queued[k] + Planned(k) + Cardinality(InFlight) <= 1 + requests + faults
      BY FS_CardinalityType DEF Room
    <3>2. requests \in Nat /\ faults \in Nat /\ \A k \in Tasks : queued[k] \in Nat /\ Planned(k) \in {0, 1}
      BY DEF TypeOK, Planned
    <3>3. \A k \in Tasks : queued'[k] \in Nat
      BY <2>4 DEF TypeOK
    <3>4. faults' = faults /\ requests' = requests
      BY <1>6 DEF AdminWrite
    <3>q. QED
      BY <2>8, <2>9, <3>1, <3>2, <3>3, <3>4 DEF Room
  <2>q. QED
    BY <2>4, <2>5, <2>6, <2>10 DEF SchedulerInv
<1>7. ASSUME NEW a \in Admins, AdminClash(a)
      PROVE  SchedulerInv'
  <2>1. TypeOK'
    BY <1>7 DEF AdminClash, TypeOK
  <2>2. OneTick' /\ Earned' /\ OncePerPeriod'
    BY <1>7 DEF AdminClash, OneTick, Earned, OncePerPeriod
  <2>3. InFlight' = InFlight \ {a} /\ a \in InFlight
    BY <1>7 DEF AdminClash, InFlight, TypeOK
  <2>4. IsFiniteSet(InFlight') /\ Cardinality(InFlight') = Cardinality(InFlight) - 1
    BY <2>3, FS_RemoveElement DEF Room
  <2>5. UNCHANGED <<plan, queued, requests, faults>> /\ \A k \in Tasks : Planned(k)' = Planned(k)
    BY <1>7 DEF AdminClash, Planned
  <2>6. Room'
    BY <2>4, <2>5 DEF Room, TypeOK
  <2>q. QED
    BY <2>1, <2>2, <2>6 DEF SchedulerInv
<1>8. ASSUME NEW k \in Tasks, PeriodElapses(k)
      PROVE  SchedulerInv'
  <2>1. TypeOK'
    BY <1>8 DEF PeriodElapses, TypeOK
  <2>2. OneTick' /\ Earned' /\ OncePerPeriod'
    BY <1>8 DEF PeriodElapses, OneTick, Earned, OncePerPeriod, TypeOK
  <2>3. Room'
    BY <1>8, RoomKept DEF PeriodElapses
  <2>q. QED
    BY <2>1, <2>2, <2>3 DEF SchedulerInv
<1>9. ASSUME NEW k \in Tasks, Start(k) \/ Finish(k) \/ Retry(k)
      PROVE  SchedulerInv'
  <2>1. TypeOK'
    <3>1. CASE Start(k)
      BY <3>1 DEF Start, TypeOK
    <3>2. CASE Finish(k)
      BY <3>2 DEF Finish, TypeOK
    <3>3. CASE Retry(k)
      BY <3>3 DEF Retry, Spend, TypeOK
    <3>q. QED
      BY <1>9, <3>1, <3>2, <3>3
  <2>2. OneTick' /\ Earned' /\ OncePerPeriod'
    BY <1>9 DEF Start, Finish, Retry, OneTick, Earned, OncePerPeriod
  <2>3. /\ UNCHANGED <<plan, request, requests>> /\ InFlight' = InFlight
        /\ \A q \in Tasks : Planned(q)' = Planned(q)
    BY <1>9 DEF Start, Finish, Retry, Planned, InFlight
  <2>4. \/ faults' = faults /\ \A q \in Tasks : queued'[q] <= queued[q]
        \/ faults' = faults + 1 /\ \A q \in Tasks : queued'[q] <= queued[q] + 1
    BY <1>9 DEF Start, Finish, Retry, Spend, TypeOK
  <2>5. faults' \in Nat /\ \A q \in Tasks : queued[q] \in Nat /\ queued'[q] \in Nat
    BY <2>1 DEF TypeOK
  <2>6. Room'
    BY <2>3, <2>4, <2>5 DEF Room
  <2>q. QED
    BY <2>1, <2>2, <2>6 DEF SchedulerInv
<1>10. CASE UNCHANGED vars
  BY <1>10, RoomKept DEF vars, SchedulerInv, TypeOK, OneTick, Earned, OncePerPeriod
<1>q. QED
  BY <1>1, <1>2, <1>3, <1>4, <1>5, <1>6, <1>7, <1>8, <1>9, <1>10 DEF Next, Tick, Admin

\* A task runs once per period however many replicas tick (the transaction
\* lock of run_due_scheduled_tasks and the row it writes with the jobs).
THEOREM ScheduledOnce == Spec => []OncePerPeriod
<1>1. SchedulerInv => OncePerPeriod
  BY DEF SchedulerInv
<1>q. QED
  BY <1>1, SchedulerInitInv, SchedulerStepInv, PTL DEF Spec

\* Scheduled runs do not pile up behind a job that waits.
THEOREM NeverPilesUp == Spec => []NoPileUp
<1>1. SchedulerInv => NoPileUp
  <2> SUFFICES ASSUME SchedulerInv, NEW k \in Tasks
               PROVE  queued[k] <= 1 + requests + faults
    BY DEF NoPileUp
  <2>1. Cardinality(InFlight) \in Nat /\ Planned(k) \in {0, 1}
    BY FS_CardinalityType DEF SchedulerInv, Room, Planned
  <2>q. QED
    BY <2>1 DEF SchedulerInv, Room, TypeOK
<1>q. QED
  BY <1>1, SchedulerInitInv, SchedulerStepInv, PTL DEF Spec

\* Types of the configuration rows, the queue counts, the ticks and requests.
THEOREM SchedulerTypes == Spec => []TypeOK
<1>1. SchedulerInv => TypeOK
  BY DEF SchedulerInv
<1>q. QED
  BY <1>1, SchedulerInitInv, SchedulerStepInv, PTL DEF Spec

-----------------------------------------------------------------------------
(* GpuScaling.                                                             *)

Readings ==
    {Asleep} \cup [at : {"count"}, depth : Nat] \cup [at : {"scale"}, depth : Nat, count : {Off, 0, 1}]

\* A replica's timer started after the last of its ticks that returned having
\* seen work: such a tick stops the timer, and no other tick sets it back.
TimersTrailWork == \A r \in Scalers : idleFor[r] <= sawWork[r]

ScalingInv == ScalingTypeOK /\ scaleTick \in [Scalers -> Readings] /\ TimersTrailWork

-----------------------------------------------------------------------------
\* In the initial state no timer runs and nobody holds the lock.
THEOREM ScalingInitInv == ScalingInit => ScalingInv
  BY ScalingAssumption
  DEF ScalingInit, ScalingInv, ScalingTypeOK, TimersTrailWork, Readings, Asleep, Off, Long

\* Every step, one per action of the queue, the clock and a replica.
THEOREM ScalingStepInv == ScalingInv /\ [ScalingNext]_scalingVars => ScalingInv'
<1> SUFFICES ASSUME ScalingInv, [ScalingNext]_scalingVars PROVE ScalingInv'
  OBVIOUS
<1>. ScalingTypeOK /\ scaleTick \in [Scalers -> Readings] /\ TimersTrailWork
  BY DEF ScalingInv
<1> USE ScalingAssumption DEF Readings, Asleep, Off, Long
<1>1. CASE Transcribe \/ Claimed
  BY <1>1 DEF Transcribe, Claimed, ScalingInv, ScalingTypeOK, TimersTrailWork
<1>2. CASE Minutes
  <2>1. ScalingTypeOK' /\ (scaleTick \in [Scalers -> Readings])'
    BY <1>2 DEF Minutes, ScalingTypeOK, Aged
  <2>2. TimersTrailWork'
    BY <1>2 DEF Minutes, ScalingTypeOK, TimersTrailWork, Aged
  <2>q. QED
    BY <2>1, <2>2 DEF ScalingInv
<1>3. ASSUME NEW r \in Scalers, ScaleReads(r)
      PROVE  ScalingInv'
  <2>1. ScalingTypeOK' /\ (scaleTick \in [Scalers -> Readings])'
    BY <1>3 DEF ScaleReads, ScalingTypeOK
  <2>2. TimersTrailWork'
    BY <1>3 DEF ScaleReads, ScalingTypeOK, TimersTrailWork
  <2>q. QED
    BY <2>1, <2>2 DEF ScalingInv
<1>4. ASSUME NEW r \in Scalers, NEW count \in {gpu, Off}, ReplicaCount(r, count)
      PROVE  ScalingInv'
  <2>1. scaleTick[r] # Asleep /\ scaleTick[r].depth \in Nat
    BY <1>4 DEF ReplicaCount
  <2>2. ScalingTypeOK' /\ (scaleTick \in [Scalers -> Readings])'
    BY <1>4, <2>1 DEF ReplicaCount, ScalingTypeOK
  <2>3. TimersTrailWork'
    BY <1>4, <2>1 DEF ReplicaCount, ScalingTypeOK, TimersTrailWork
  <2>q. QED
    BY <2>2, <2>3 DEF ScalingInv
<1>5. ASSUME NEW r \in Scalers, ManageScaling(r)
      PROVE  ScalingInv'
  <2>1. scaleTick[r] # Asleep /\ scaleTick[r].depth \in Nat /\ scaleLock = r
    BY <1>5 DEF ManageScaling, ScalingTypeOK
  <2>2. gpu' \in {0, 1} /\ apiFails' \in 0..MaxApiFails
    BY <1>5 DEF ManageScaling, ScaleTo, ScalingTypeOK
  <2>3. TimerAfter(r) \in Off..Long
    BY <2>1 DEF TimerAfter, ScalingTypeOK
  <2>4. ScalingTypeOK' /\ (scaleTick \in [Scalers -> Readings])'
    BY <1>5, <2>1, <2>2, <2>3 DEF ManageScaling, ScalingTypeOK
  <2>5. TimerAfter(r) <= sawWork'[r]
    BY <1>5, <2>1 DEF ManageScaling, TimerAfter, TimersTrailWork, ScalingTypeOK
  <2>6. TimersTrailWork'
    BY <1>5, <2>5 DEF ManageScaling, ScalingTypeOK, TimersTrailWork
  <2>q. QED
    BY <2>4, <2>6 DEF ScalingInv
<1>6. ASSUME NEW r \in Scalers, ScalerRestarts(r)
      PROVE  ScalingInv'
  <2>1. ScalingTypeOK' /\ (scaleTick \in [Scalers -> Readings])'
    BY <1>6 DEF ScalerRestarts, ScalingTypeOK
  <2>2. TimersTrailWork'
    BY <1>6 DEF ScalerRestarts, ScalingTypeOK, TimersTrailWork
  <2>q. QED
    BY <2>1, <2>2 DEF ScalingInv
<1>7. ASSUME NEW r \in Scalers, ScaleRaises(r)
      PROVE  ScalingInv'
  <2>1. ScalingTypeOK' /\ (scaleTick \in [Scalers -> Readings])'
    BY <1>7 DEF ScaleRaises, ScalingTypeOK
  <2>2. TimersTrailWork'
    BY <1>7 DEF ScaleRaises, TimersTrailWork
  <2>q. QED
    BY <2>1, <2>2 DEF ScalingInv
<1>8. CASE UNCHANGED scalingVars
  BY <1>8 DEF scalingVars, ScalingInv, ScalingTypeOK, TimersTrailWork
<1>q. QED
  BY <1>1, <1>2, <1>3, <1>4, <1>5, <1>6, <1>7, <1>8 DEF ScalingNext, ScaleStep

\* A step that shuts the GPU down is a tick whose own timer ran out.
LEMMA ShutDownStep ==
    ASSUME ScalingInv, ScalingNext, gpu = 1, gpu' = 0
    PROVE  \E r \in Scalers : scaleLock = r /\ sawWork[r] > IdleLimit
<1>1. PICK r \in Scalers : ManageScaling(r)
  BY DEF ScalingNext, ScaleStep, Transcribe, Claimed, Minutes, ScaleReads, ReplicaCount,
         ScaleRaises, ScalerRestarts
<1>2. scaleTick[r] # Asleep /\ scaleLock = r
  BY <1>1 DEF ManageScaling, ScalingInv, ScalingTypeOK, Asleep
<1>3. GivesUpGpu(r)
  BY <1>1 DEF ManageScaling, ScaleTo
<1>4. idleFor[r] <= sawWork[r]
  BY <1>2, <1>3 DEF GivesUpGpu, ScalingInv, TimersTrailWork
<1>q. QED
  BY <1>2, <1>3, <1>4, ScalingAssumption DEF GivesUpGpu, ScalingInv, ScalingTypeOK, Off, Long

\* Types: the lock is held exactly by the replica within a tick.
THEOREM ScalingTypes == ScalingSpec => []ScalingTypeOK
<1>1. ScalingInv => ScalingTypeOK
  BY DEF ScalingInv
<1>q. QED
  BY <1>1, ScalingInitInv, ScalingStepInv, PTL DEF ScalingSpec

\* The GPU is shut down only by a replica none of whose ticks returned having
\* seen work for the idle limit, over ticks that raise, failing calls and
\* restarts (manage_gpu_scaling's timer, kept by each worker's scaling loop).
THEOREM ShutDownOnlyIdle == ScalingSpec => ShutDownIdle
<1>1. ScalingInv /\ [ScalingNext]_scalingVars =>
        [\A r \in Scalers :
            (gpu = 1 /\ gpu' = 0 /\ scaleLock = r) => sawWork[r] > IdleLimit]_scalingVars
  BY ShutDownStep DEF scalingVars
<1>q. QED
  BY <1>1, ScalingInitInv, ScalingStepInv, PTL DEF ScalingSpec, ShutDownIdle

-----------------------------------------------------------------------------
(* LlmSchedules.                                                           *)

\* A review that began at `late` may follow one that began at `early`.
Apart(early, late) ==
    CASE task = "health" -> late - early > HealthGuard
      [] task = "digest" -> late \div Day # early \div Day
      [] task = "audit"  -> late - early > AuditGuard

\* Whoever is calling found no review of its period, and none has come since.
CallerIsAlone ==
    \A r \in Supervisors : loop[r] = "calling" =>
        /\ began[r] \in 0..hour
        /\ \A i \in DOMAIN reviews : Apart(reviews[i], began[r])

SuperInv ==
    /\ SuperTypeOK
    /\ task \in {"health", "digest", "audit"}
    /\ reviews \in Seq(0..MaxHour) /\ began \in [Supervisors -> Nat]
    /\ CallerIsAlone /\ OneReviewPerPeriod

-----------------------------------------------------------------------------
\* What ended before today did not end on the same day.
LEMMA EarlierDay ==
    ASSUME NEW d \in Nat \ {0}, NEW a \in Nat, NEW b \in Nat, a < b - (b % d)
    PROVE  b \div d # a \div d
<1>1. b = d * (b \div d) + (b % d) /\ (b % d) \in 0..(d - 1) /\ (b \div d) \in Nat
  OBVIOUS
<1>2. a = d * (a \div d) + (a % d) /\ (a % d) \in 0..(d - 1) /\ (a \div d) \in Nat
  OBVIOUS
<1>3. a < d * (b \div d)
  BY <1>1
<1>4. d * (a \div d) <= a
  BY <1>2
<1>q. QED
  BY <1>3, <1>4

\* The guard of a review keeps it apart from every review there is.
LEMMA GuardSeparates ==
    ASSUME SuperInv, Runs, NEW i \in DOMAIN reviews
    PROVE  Apart(reviews[i], hour)
<1>. reviews[i] \in Nat /\ hour \in Nat
  BY SupervisionAssumption DEF SuperInv, SuperTypeOK
<1>1. CASE task = "health"
  BY <1>1, SupervisionAssumption
  DEF Runs, RunHealthCheck, RunDailyDigest, RunWeeklyAudit, ReviewedSince, HealthSince, Apart
<1>2. CASE task = "digest"
  <2>1. reviews[i] < hour - (hour % Day)
    BY <1>2, SupervisionAssumption
    DEF Runs, RunHealthCheck, RunDailyDigest, RunWeeklyAudit, ReviewedSince, DigestSince
  <2>q. QED
    BY <1>2, <2>1, EarlierDay, SupervisionAssumption DEF Apart
<1>3. CASE task = "audit"
  BY <1>3, SupervisionAssumption
  DEF Runs, RunHealthCheck, RunDailyDigest, RunWeeklyAudit, ReviewedSince, AuditSince, Apart
<1>q. QED
  BY <1>1, <1>2, <1>3 DEF SuperInv

\* In the initial state every loop sleeps and there is no review.
THEOREM SuperInitInv == SuperInit => SuperInv
  BY SupervisionAssumption DEF SuperInit, SuperInv, SuperTypeOK, CallerIsAlone, OneReviewPerPeriod

\* Every step, one per action of the clock and a loop.
THEOREM SuperStepInv == SuperInv /\ [SuperNext]_superVars => SuperInv'
<1> SUFFICES ASSUME SuperInv, [SuperNext]_superVars PROVE SuperInv'
  OBVIOUS
<1>. SuperTypeOK /\ CallerIsAlone /\ OneReviewPerPeriod
  BY DEF SuperInv
<1> USE SupervisionAssumption
<1>1. CASE HourPasses
  <2>1. SuperTypeOK'
    BY <1>1 DEF HourPasses, SuperTypeOK
  <2>2. CallerIsAlone'
    <3>1. hour \in Nat /\ hour' = hour + 1 /\ UNCHANGED <<task, loop, began, reviews>>
      BY <1>1 DEF HourPasses, SuperTypeOK
    <3>2. \A r \in Supervisors : loop[r] = "calling" => began[r] \in 0..hour'
      BY <3>1 DEF CallerIsAlone
    <3>q. QED
      BY <3>1, <3>2 DEF CallerIsAlone, Apart
  <2>3. OneReviewPerPeriod'
    BY <1>1 DEF HourPasses, OneReviewPerPeriod
  <2>q. QED
    BY <1>1, <2>1, <2>2, <2>3 DEF SuperInv, HourPasses
<1>2. ASSUME NEW r \in Supervisors, LoopSkips(r)
      PROVE  SuperInv'
  BY <1>2 DEF LoopSkips, SuperInv, SuperTypeOK, CallerIsAlone, Apart, OneReviewPerPeriod
<1>3. ASSUME NEW r \in Supervisors, LoopCalls(r)
      PROVE  SuperInv'
  <2>1. \A q \in Supervisors : loop[q] # "calling"
    BY <1>3 DEF LoopCalls, SuperTypeOK
  <2>2. SuperTypeOK' /\ began' \in [Supervisors -> Nat]
    BY <1>3, <2>1 DEF LoopCalls, SuperInv, SuperTypeOK
  <2>3. \A i \in DOMAIN reviews : Apart(reviews[i], hour)
    BY <1>3, GuardSeparates DEF LoopCalls
  <2>4. CallerIsAlone'
    <3>1. /\ \A q \in Supervisors : loop'[q] = "calling" => q = r
          /\ began'[r] = hour /\ hour \in Nat /\ UNCHANGED <<task, hour, reviews>>
      BY <1>3, <2>1 DEF LoopCalls, SuperInv, SuperTypeOK
    <3>2. began'[r] \in 0..hour
      BY <3>1
    <3>q. QED
      BY <2>3, <3>1, <3>2 DEF CallerIsAlone, Apart
  <2>5. OneReviewPerPeriod'
    BY <1>3 DEF LoopCalls, OneReviewPerPeriod
  <2>q. QED
    BY <1>3, <2>2, <2>4, <2>5 DEF SuperInv, LoopCalls
<1>4. ASSUME NEW r \in Supervisors, LoopReviews(r)
      PROVE  SuperInv'
  <2>1. superLock = r /\ \A q \in Supervisors : loop[q] = "calling" <=> q = r
    BY <1>4 DEF LoopReviews, SuperTypeOK
  <2>2. began[r] \in 0..MaxHour /\ hour \in 0..MaxHour
    BY <2>1 DEF CallerIsAlone, SuperTypeOK
  <2>3. reviews' \in Seq(0..MaxHour) /\ began' \in [Supervisors -> Nat]
    BY <1>4, <2>2 DEF LoopReviews, SuperInv
  <2>4. \A q \in Supervisors : loop'[q] # "calling"
    BY <1>4, <2>1 DEF LoopReviews, SuperTypeOK
  <2>5. SuperTypeOK'
    BY <1>4, <2>3, <2>4 DEF LoopReviews, SuperTypeOK
  <2>6. \A i \in DOMAIN reviews : Apart(reviews[i], began[r])
    BY <2>1 DEF CallerIsAlone
  <2>7. /\ DOMAIN reviews = 1..Len(reviews) /\ DOMAIN reviews' = 1..(Len(reviews) + 1)
        /\ Len(reviews) \in Nat
        /\ reviews'[Len(reviews) + 1] = began[r]
        /\ \A i \in DOMAIN reviews : reviews'[i] = reviews[i]
    BY <1>4, <2>2 DEF LoopReviews, SuperInv
  <2>8. OneReviewPerPeriod'
    <3> SUFFICES ASSUME NEW i \in DOMAIN reviews', NEW j \in DOMAIN reviews', i < j
                 PROVE  Apart(reviews'[i], reviews'[j])
      BY <1>4 DEF LoopReviews, OneReviewPerPeriod, Apart
    <3>1. CASE j = Len(reviews) + 1
      BY <3>1, <2>6, <2>7
    <3>2. CASE j # Len(reviews) + 1
      <4>1. i \in DOMAIN reviews /\ j \in DOMAIN reviews
        BY <3>2, <2>7
      <4>2. reviews'[i] = reviews[i] /\ reviews'[j] = reviews[j]
        BY <4>1, <2>7
      <4>3. Apart(reviews[i], reviews[j])
        BY <4>1 DEF OneReviewPerPeriod, Apart
      <4>q. QED
        BY <4>2, <4>3
    <3>q. QED
      BY <3>1, <3>2
  <2>9. CallerIsAlone'
    BY <2>4 DEF CallerIsAlone
  <2>q. QED
    BY <1>4, <2>3, <2>5, <2>8, <2>9 DEF SuperInv, LoopReviews
<1>5. ASSUME NEW r \in Supervisors, LoopFails(r) \/ ReplicaLost(r)
      PROVE  SuperInv'
  <2>1. \A q \in Supervisors : loop'[q] = "calling" => q # r /\ loop[q] = "calling" /\ began'[q] = began[q]
    BY <1>5 DEF LoopFails, ReplicaLost, SuperInv, SuperTypeOK
  <2>2. began' \in [Supervisors -> Nat]
    BY <1>5 DEF LoopFails, ReplicaLost, SuperInv
  <2>3. SuperTypeOK'
    <3>1. CASE LoopFails(r)
      BY <3>1 DEF LoopFails, SuperTypeOK
    <3>2. CASE ReplicaLost(r)
      BY <3>2 DEF ReplicaLost, SuperTypeOK
    <3>q. QED
      BY <1>5, <3>1, <3>2
  <2>4. CallerIsAlone' /\ OneReviewPerPeriod'
    BY <1>5, <2>1 DEF LoopFails, ReplicaLost, CallerIsAlone, OneReviewPerPeriod, Apart
  <2>q. QED
    BY <1>5, <2>2, <2>3, <2>4 DEF SuperInv, LoopFails, ReplicaLost
<1>6. ASSUME NEW r \in Supervisors, ReplicaBack(r)
      PROVE  SuperInv'
  <2>1. SuperTypeOK'
    BY <1>6 DEF ReplicaBack, SuperTypeOK
  <2>2. CallerIsAlone' /\ OneReviewPerPeriod'
    BY <1>6 DEF ReplicaBack, SuperTypeOK, CallerIsAlone, OneReviewPerPeriod, Apart
  <2>q. QED
    BY <1>6, <2>1, <2>2 DEF SuperInv, ReplicaBack
<1>7. CASE UNCHANGED superVars
  BY <1>7 DEF superVars, SuperInv, SuperTypeOK, CallerIsAlone, OneReviewPerPeriod, Apart
<1>q. QED
  BY <1>1, <1>2, <1>3, <1>4, <1>5, <1>6, <1>7 DEF SuperNext

\* One health check, one digest, one audit per guarded period, whichever
\* replicas wake together (_scheduled_review_exists_since under its lock).
THEOREM ReviewedOnce == SuperSpec => []OneReviewPerPeriod
<1>1. SuperInv => OneReviewPerPeriod
  BY DEF SuperInv
<1>q. QED
  BY <1>1, SuperInitInv, SuperStepInv, PTL DEF SuperSpec

\* Types: the review's lock is held exactly by the loop that is calling.
THEOREM SuperTypes == SuperSpec => []SuperTypeOK
<1>1. SuperInv => SuperTypeOK
  BY DEF SuperInv
<1>q. QED
  BY <1>1, SuperInitInv, SuperStepInv, PTL DEF SuperSpec

\* The hour of a period at which it is reviewed, and the hours around it.
Seven(n) == n * Period + SevenAM
Around(h, n) == Seven(n) - MaxSkew <= h /\ h <= Seven(n) + MaxSkew
ThisPeriod == PeriodOf(hour)
Reviewed(p) == \E i \in DOMAIN reviews : PeriodOf(reviews[i]) = p

\* A loop sleeps until this period's seven or the next one's, and is late by
\* the skew at most; reviews begin around seven, and no call outlives its day.
InTime ==
    /\ wake \in [Supervisors -> Nat]
    /\ \A r \in Supervisors :
          /\ loop[r] = "asleep" => /\ wake[r] \in {Seven(ThisPeriod), Seven(ThisPeriod + 1)}
                                   /\ hour <= wake[r] + MaxSkew
          /\ loop[r] = "calling" => Around(began[r], ThisPeriod) /\ hour <= began[r] + MaxSkew
    /\ \A i \in DOMAIN reviews : \E q \in 0..ThisPeriod : Around(reviews[i], q)

\* Unless it is spoiled, a period that is over has its review, and the present
\* one has it, is getting it, or has a loop that has yet to wake for it.
NoneMissed ==
    /\ \A p \in Nat : p < ThisPeriod /\ p \notin spoiled => Reviewed(p)
    /\ ThisPeriod \notin spoiled =>
          \/ Reviewed(ThisPeriod)
          \/ \E r \in Supervisors : loop[r] = "calling"
          \/ \E r \in Supervisors : loop[r] = "asleep" /\ wake[r] = Seven(ThisPeriod)

SkipInv == SuperInv /\ (task # "health" => InTime /\ NoneMissed)

\* Multiples of a period, and the period that an hour is in.
LEMMA Multiples ==
    ASSUME NEW d \in Nat \ {0}, NEW a \in Nat, NEW b \in Nat, a < b
    PROVE  a * d + d <= b * d
<1>1. PICK c \in Nat : b = a + 1 + c
  <2>1. b - a - 1 \in Nat /\ b = a + 1 + (b - a - 1)
    OBVIOUS
  <2> QED BY <2>1
<1>2. b * d = a * d + d + c * d
  BY <1>1
<1>3. c * d >= 0 /\ a * d \in Nat /\ c * d \in Nat
  OBVIOUS
<1> QED BY <1>2, <1>3

LEMMA InPeriod ==
    ASSUME NEW d \in Nat \ {0}, NEW h \in Nat
    PROVE  /\ h \div d \in Nat /\ (h \div d) * d \in Nat
           /\ (h \div d) * d <= h /\ h < (h \div d) * d + d
           /\ h - (h % d) = (h \div d) * d
<1>1. h = d * (h \div d) + (h % d) /\ (h % d) \in 0..(d - 1) /\ (h \div d) \in Nat
  OBVIOUS
<1>2. d * (h \div d) = (h \div d) * d /\ (h \div d) * d \in Nat
  BY <1>1
<1> QED BY <1>1, <1>2

LEMMA PeriodIs ==
    ASSUME NEW d \in Nat \ {0}, NEW h \in Nat, NEW n \in Nat, n * d <= h, h < n * d + d
    PROVE  h \div d = n
<1> PICK m \in Nat : m = h \div d
  BY InPeriod
<1>1. m * d \in Nat /\ n * d \in Nat /\ m * d <= h /\ h < m * d + d
  BY InPeriod
<1>2. CASE m < n
  BY <1>1, <1>2, Multiples
<1>3. CASE n < m
  BY <1>1, <1>3, Multiples
<1> QED BY <1>2, <1>3

\* What the constants say of the digest's day and the audit's week.
LEMMA Reviewable ==
    ASSUME SuperInv, task # "health"
    PROVE  /\ Period \in Nat \ {0} /\ MaxSkew \in Nat /\ SevenAM \in Nat /\ MaxSkew <= SevenAM
           /\ SevenAM + 2 * MaxSkew < Period /\ hour \in Nat
           /\ (task = "digest" /\ Period = Day) \/ (task = "audit" /\ Period = Week)
           /\ \A i \in DOMAIN reviews : reviews[i] \in Nat
<1>1. Week >= Day
  <2>1. Week < Day => Week % Day = Week
    BY SupervisionAssumption
  <2> QED BY <2>1, SupervisionAssumption
<1>2. /\ Day \in Nat \ {0} /\ Week \in Nat \ {0} /\ SevenAM \in Nat
      /\ MaxSkew \in Nat /\ MaxSkew <= SevenAM /\ SevenAM + 2 * MaxSkew < Day
  BY SupervisionAssumption
<1>3. task = "digest" \/ task = "audit"
  BY DEF SuperInv
<1>4. /\ Period \in Nat \ {0} /\ SevenAM + 2 * MaxSkew < Period
      /\ (task = "digest" /\ Period = Day) \/ (task = "audit" /\ Period = Week)
  BY <1>1, <1>2, <1>3 DEF Period
<1>5. hour \in Nat /\ \A i \in DOMAIN reviews : reviews[i] \in Nat
  BY SupervisionAssumption DEF SuperInv, SuperTypeOK
<1> QED BY <1>2, <1>4, <1>5

LEMMA HourIs ==
    ASSUME SuperInv, task # "health"
    PROVE  /\ ThisPeriod \in Nat /\ ThisPeriod * Period \in Nat
           /\ ThisPeriod * Period <= hour /\ hour < ThisPeriod * Period + Period
           /\ Seven(ThisPeriod) = ThisPeriod * Period + SevenAM
           /\ Seven(ThisPeriod + 1) = ThisPeriod * Period + Period + SevenAM
           /\ NextWake(hour) = IF hour < Seven(ThisPeriod) THEN Seven(ThisPeriod) ELSE Seven(ThisPeriod + 1)
<1>1. /\ ThisPeriod \in Nat /\ ThisPeriod * Period \in Nat
      /\ ThisPeriod * Period <= hour /\ hour < ThisPeriod * Period + Period
      /\ hour - (hour % Period) = ThisPeriod * Period
  BY Reviewable, InPeriod DEF ThisPeriod, PeriodOf
<1>2. (ThisPeriod + 1) * Period = ThisPeriod * Period + Period
  BY <1>1, Reviewable
<1>3. Seven(ThisPeriod) = ThisPeriod * Period + SevenAM
      /\ Seven(ThisPeriod + 1) = ThisPeriod * Period + Period + SevenAM
  BY <1>2 DEF Seven
<1>4. NextWake(hour) = NextSeven(Period, hour)
  BY DEF NextWake
<1>5. NextSeven(Period, hour) = IF hour < ThisPeriod * Period + SevenAM THEN ThisPeriod * Period + SevenAM
                                ELSE ThisPeriod * Period + SevenAM + Period
  BY <1>1 DEF NextSeven
<1>6. ThisPeriod * Period + SevenAM + Period = ThisPeriod * Period + Period + SevenAM
  BY <1>1, Reviewable
<1> QED BY <1>1, <1>3, <1>4, <1>5, <1>6

\* The hours around a period's seven are in it.
LEMMA AroundIsIn ==
    ASSUME SuperInv, task # "health", NEW n \in Nat, NEW h \in Nat, Around(h, n)
    PROVE  PeriodOf(h) = n
<1>1. n * Period \in Nat
  BY Reviewable
<1>2. n * Period <= h /\ h < n * Period + Period
  BY <1>1, Reviewable DEF Around, Seven
<1> QED BY <1>2, Reviewable, PeriodIs DEF PeriodOf

LEMMA HourPassesInTime ==
    ASSUME SkipInv, task # "health", HourPasses
    PROVE  InTime' /\ NoneMissed'
<1> PICK P \in Nat : P = Period
  BY Reviewable DEF SkipInv
<1> PICK n \in Nat : n = ThisPeriod
  BY HourIs DEF SkipInv
<1> PICK b \in Nat : b = n * P
  OBVIOUS
<1>1. /\ P > 0 /\ MaxSkew \in Nat /\ SevenAM \in Nat /\ MaxSkew <= SevenAM /\ SevenAM + 2 * MaxSkew < P
      /\ hour \in Nat /\ b <= hour /\ hour < b + P
      /\ Seven(n) = b + SevenAM /\ Seven(n + 1) = b + P + SevenAM
  BY Reviewable, HourIs DEF SkipInv
<1>2. /\ hour' = hour + 1 /\ UNCHANGED <<task, wake, loop, began, superLock, reviews, downs>>
      /\ \A r \in Supervisors : /\ loop[r] = "asleep" => hour < wake[r] + MaxSkew
                                /\ loop[r] = "calling" => hour < began[r] + MaxSkew
      /\ spoiled \subseteq spoiled'
      /\ (\A r \in Supervisors : loop[r] = "down") => ThisPeriod \in spoiled' /\ PeriodOf(hour + 1) \in spoiled'
  BY DEF HourPasses, ThisPeriod
<1>3. Period' = Period /\ \A h : PeriodOf(h)' = PeriodOf(h)
  BY <1>2 DEF Period, PeriodOf
<1>4. ThisPeriod' = PeriodOf(hour + 1) /\ \A m : Seven(m)' = Seven(m)
  BY <1>2, <1>3 DEF ThisPeriod, Seven
<1>5. \A p : Reviewed(p)' <=> Reviewed(p)
  BY <1>2, <1>3 DEF Reviewed
<1>6. /\ \A r \in Supervisors : /\ loop[r] = "asleep" => wake[r] \in {b + SevenAM, b + P + SevenAM}
                                /\ loop[r] = "calling" => /\ began[r] \in Nat
                                                          /\ began[r] <= b + SevenAM + MaxSkew
      /\ \A r \in Supervisors : loop[r] \in {"asleep", "calling", "down"}
  <2>1. InTime /\ began \in [Supervisors -> Nat] /\ SuperTypeOK
    BY DEF SkipInv, SuperInv
  <2>2. \A r \in Supervisors : loop[r] = "asleep" => wake[r] \in {b + SevenAM, b + P + SevenAM}
    BY <1>1, <2>1 DEF InTime
  <2>3. \A r \in Supervisors : loop[r] = "calling" => began[r] \in Nat /\ began[r] <= b + SevenAM + MaxSkew
    BY <1>1, <2>1 DEF InTime, Around
  <2> QED BY <2>1, <2>2, <2>3 DEF SuperTypeOK
<1>7. CASE hour + 1 < b + P
  <2>0. (hour + 1) \div P = n
    <3>1. P \in Nat \ {0} /\ hour + 1 \in Nat /\ n * P <= hour + 1 /\ hour + 1 < n * P + P
      BY <1>1, <1>7
    <3> QED BY ONLY <3>1, n \in Nat, PeriodIs
  <2>1. ThisPeriod' = n
    BY <1>4, <2>0 DEF PeriodOf
  <2>2. InTime'
    <3>1. \A r \in Supervisors : /\ loop[r] = "asleep" => hour + 1 <= wake[r] + MaxSkew
                                 /\ loop[r] = "calling" => hour + 1 <= began[r] + MaxSkew
      <4> SUFFICES ASSUME NEW r \in Supervisors
                   PROVE  /\ loop[r] = "asleep" => hour + 1 <= wake[r] + MaxSkew
                          /\ loop[r] = "calling" => hour + 1 <= began[r] + MaxSkew
        OBVIOUS
      <4>1. CASE loop[r] = "asleep"
        <5>1. wake[r] \in Nat /\ hour < wake[r] + MaxSkew
          BY <1>1, <1>2, <1>6, <4>1
        <5> QED BY <1>1, <4>1, <5>1
      <4>2. CASE loop[r] = "calling"
        <5>1. began[r] \in Nat /\ hour < began[r] + MaxSkew
          BY <1>2, <1>6, <4>2
        <5> QED BY <1>1, <4>2, <5>1
      <4> QED BY <4>1, <4>2
    <3> QED BY <1>2, <1>4, <2>1, <3>1 DEF SkipInv, InTime, Around
  <2>3. NoneMissed'
    BY <1>2, <1>4, <1>5, <2>1 DEF SkipInv, NoneMissed
  <2> QED BY <2>2, <2>3
<1>8. CASE hour + 1 = b + P
  <2>1. (n + 1) * P = b + P
    OBVIOUS
  <2>0. (hour + 1) \div P = n + 1
    <3>1. /\ P \in Nat \ {0} /\ hour + 1 \in Nat /\ n + 1 \in Nat
          /\ (n + 1) * P <= hour + 1 /\ hour + 1 < (n + 1) * P + P
      BY <1>1, <1>8, <2>1
    <3> QED BY ONLY <3>1, PeriodIs
  <2>2. ThisPeriod' = n + 1
    BY <1>4, <2>0 DEF PeriodOf
  <2>3. \A r \in Supervisors : /\ loop[r] # "calling"
                               /\ loop[r] = "asleep" => wake[r] = b + P + SevenAM
    <3> SUFFICES ASSUME NEW r \in Supervisors
                 PROVE  loop[r] # "calling" /\ (loop[r] = "asleep" => wake[r] = b + P + SevenAM)
      OBVIOUS
    <3>1. loop[r] # "calling"
      <4> SUFFICES ASSUME loop[r] = "calling" PROVE FALSE
        OBVIOUS
      <4>1. began[r] \in Nat /\ hour < began[r] + MaxSkew /\ began[r] <= b + SevenAM + MaxSkew
        BY <1>2, <1>6
      <4> QED BY <1>1, <1>8, <4>1
    <3>2. ASSUME loop[r] = "asleep" PROVE wake[r] = b + P + SevenAM
      <4>1. wake[r] \in {b + SevenAM, b + P + SevenAM} /\ hour < wake[r] + MaxSkew
        BY <1>2, <1>6, <3>2
      <4> QED BY <1>1, <1>8, <4>1
    <3> QED BY <3>1, <3>2
  <2>4. Seven(n + 1) = b + P + SevenAM
    BY <1>1
  <2>5. InTime'
    <3>1. \A i \in DOMAIN reviews : \E q \in 0..(n + 1) : Around(reviews[i], q)
      <4>1. 0..n \subseteq 0..(n + 1)
        OBVIOUS
      <4> QED BY <4>1 DEF SkipInv, InTime
    <3>2. \A i \in DOMAIN reviews' : \E q \in 0..ThisPeriod' : Around(reviews[i], q)'
      BY <1>2, <1>4, <2>2, <3>1 DEF Around
    <3>3. hour' <= b + P + SevenAM + MaxSkew
      BY <1>1, <1>2, <1>8
    <3>4. \A r \in Supervisors : loop'[r] # "calling"
      BY <1>2, <2>3
    <3>5. \A r \in Supervisors : loop'[r] = "asleep" =>
             wake'[r] = Seven(n + 1) /\ hour' <= wake'[r] + MaxSkew
      BY <1>2, <2>3, <2>4, <3>3
    <3>6. wake' \in [Supervisors -> Nat]
      BY <1>2 DEF SkipInv, InTime
    <3>7. Seven(ThisPeriod)' = Seven(n + 1)
      BY <1>4, <2>2
    <3> QED BY <3>2, <3>4, <3>5, <3>6, <3>7 DEF InTime
  <2>6. \A p \in Nat : p < n + 1 /\ p \notin spoiled' => Reviewed(p)
    <3> SUFFICES ASSUME NEW p \in Nat, p < n + 1, p \notin spoiled' PROVE Reviewed(p)
      OBVIOUS
    <3>1. CASE p < n
      BY <1>2, <3>1 DEF SkipInv, NoneMissed
    <3>2. CASE p = n
      BY <1>1, <1>2, <2>3, <3>2 DEF SkipInv, NoneMissed
    <3> QED BY <3>1, <3>2
  <2>7. n + 1 \notin spoiled' => \E r \in Supervisors : loop[r] = "asleep" /\ wake[r] = b + P + SevenAM
    BY <1>2, <1>4, <1>6, <2>2, <2>3
  <2>8. NoneMissed'
    BY <1>2, <1>4, <1>5, <2>2, <2>4, <2>6, <2>7 DEF NoneMissed
  <2> QED BY <2>5, <2>8
<1> QED BY <1>1, <1>7, <1>8

\* The steps of a loop leave the clock alone.
LEMMA SameHour ==
    ASSUME UNCHANGED <<task, hour>>
    PROVE  /\ Period' = Period /\ ThisPeriod' = ThisPeriod
           /\ \A n : Seven(n)' = Seven(n) /\ PeriodOf(n)' = PeriodOf(n)
           /\ \A h, n : Around(h, n)' <=> Around(h, n)
           /\ reviews' = reviews => \A p : Reviewed(p)' <=> Reviewed(p)
<1>1. Period' = Period /\ \A n : PeriodOf(n)' = PeriodOf(n)
  BY DEF Period, PeriodOf
<1>2. ThisPeriod' = ThisPeriod
  BY <1>1 DEF ThisPeriod, PeriodOf
<1>3. \A n : Seven(n)' = Seven(n)
  BY <1>1 DEF Seven
<1>4. \A h, n : Around(h, n)' <=> Around(h, n)
  BY <1>3 DEF Around
<1>5. reviews' = reviews => \A p : Reviewed(p)' <=> Reviewed(p)
  BY <1>1 DEF Reviewed
<1> QED BY <1>1, <1>2, <1>3, <1>4, <1>5

\* Where a loop goes to sleep, and for how long.
LEMMA NextIsAhead ==
    ASSUME SuperInv, task # "health"
    PROVE  /\ NextWake(hour) \in Nat /\ hour < NextWake(hour)
           /\ NextWake(hour) \in {Seven(ThisPeriod), Seven(ThisPeriod + 1)}
           /\ hour < Seven(ThisPeriod) => NextWake(hour) = Seven(ThisPeriod)
<1> PICK P \in Nat : P = Period
  BY Reviewable
<1> PICK b \in Nat : b = ThisPeriod * Period
  BY HourIs
<1>1. /\ SevenAM \in Nat /\ hour \in Nat /\ b <= hour /\ hour < b + P
      /\ Seven(ThisPeriod) = b + SevenAM /\ Seven(ThisPeriod + 1) = b + P + SevenAM
      /\ NextWake(hour) = IF hour < Seven(ThisPeriod) THEN Seven(ThisPeriod) ELSE Seven(ThisPeriod + 1)
  BY Reviewable, HourIs
<1> QED BY <1>1

\* A loop that wakes does so around this period's seven.
LEMMA WakesAround ==
    ASSUME SkipInv, task # "health", NEW r \in Supervisors, loop[r] = "asleep", hour >= wake[r] - MaxSkew
    PROVE  wake[r] = Seven(ThisPeriod) /\ Around(hour, ThisPeriod)
<1> PICK P \in Nat : P = Period
  BY Reviewable DEF SkipInv
<1> PICK b \in Nat : b = ThisPeriod * Period
  BY HourIs DEF SkipInv
<1>1. /\ P > 0 /\ MaxSkew \in Nat /\ SevenAM \in Nat /\ MaxSkew <= SevenAM
      /\ hour \in Nat /\ b <= hour /\ hour < b + P
      /\ Seven(ThisPeriod) = b + SevenAM /\ Seven(ThisPeriod + 1) = b + P + SevenAM
  BY Reviewable, HourIs DEF SkipInv
<1>2. wake[r] \in {Seven(ThisPeriod), Seven(ThisPeriod + 1)} /\ hour <= wake[r] + MaxSkew
  BY DEF SkipInv, InTime
<1>3. wake[r] # Seven(ThisPeriod + 1)
  BY <1>1
<1> QED BY <1>1, <1>2, <1>3 DEF Around

\* A review that keeps the guard from running at seven or later is of this
\* period.
LEMMA GuardIsRight ==
    ASSUME SkipInv, task # "health", ~Runs, hour >= Seven(ThisPeriod)
    PROVE  Reviewed(ThisPeriod)
<1> PICK P \in Nat : P = Period
  BY Reviewable DEF SkipInv
<1> PICK n \in Nat : n = ThisPeriod
  BY HourIs DEF SkipInv
<1> PICK b \in Nat : b = n * P
  OBVIOUS
<1>1. /\ P > 0 /\ MaxSkew \in Nat /\ SevenAM \in Nat /\ MaxSkew <= SevenAM /\ SevenAM + 2 * MaxSkew < P
      /\ hour \in Nat /\ b <= hour /\ hour < b + P
      /\ Seven(n) = b + SevenAM
      /\ \A i \in DOMAIN reviews : reviews[i] \in Nat
  BY Reviewable, HourIs DEF SkipInv
<1>2. \A i \in DOMAIN reviews : \E q \in 0..n : Around(reviews[i], q)
  BY DEF SkipInv, InTime
<1>3. SUFFICES ASSUME NEW i \in DOMAIN reviews, NEW q \in 0..n, Around(reviews[i], q), q < n PROVE
            /\ task = "digest" => reviews[i] < DigestSince(hour)
            /\ task = "audit" => reviews[i] < AuditSince(hour)
  <2>1. PICK i \in DOMAIN reviews :
          /\ task = "digest" => reviews[i] >= DigestSince(hour)
          /\ task = "audit" => reviews[i] >= AuditSince(hour)
    BY Reviewable DEF SkipInv, Runs, RunDailyDigest, RunWeeklyAudit, ReviewedSince
  <2>2. PICK q \in 0..n : Around(reviews[i], q)
    BY <1>2
  <2>3. CASE q = n
    BY <1>1, <2>2, <2>3, AroundIsIn DEF SkipInv, Reviewed
  <2>4. CASE q < n
    <3>1. reviews[i] \in Nat /\ DigestSince(hour) \in Int /\ AuditSince(hour) \in Int
      BY <1>1, SupervisionAssumption DEF DigestSince, AuditSince
    <3>2. task = "digest" \/ task = "audit"
      BY DEF SkipInv, SuperInv
    <3> QED BY <1>3, <2>1, <2>2, <2>4, <3>1, <3>2
  <2> QED BY <2>3, <2>4
<1>4. q \in Nat /\ q * P \in Nat /\ q * P + P <= n * P
  BY <1>1, <1>3, Multiples
<1>5. Seven(q) = q * P + SevenAM
  BY DEF Seven
<1>6. reviews[i] <= q * P + SevenAM + MaxSkew
  BY <1>3, <1>5 DEF Around
<1>7. task = "digest" => DigestSince(hour) = b
  <2>1. task = "digest" => P = Day
    BY DEF Period
  <2>2. P \in Nat \ {0} /\ hour - (hour % P) = (hour \div P) * P
    BY <1>1, InPeriod
  <2>3. hour \div P = n
    BY DEF ThisPeriod, PeriodOf
  <2> QED BY <2>1, <2>2, <2>3 DEF DigestSince
<1>8. task = "audit" => AuditGuard \in Nat /\ AuditGuard + MaxSkew < P /\ AuditSince(hour) = hour - AuditGuard
  BY SupervisionAssumption DEF Period, AuditSince
<1>9. reviews[i] \in Nat /\ reviews[i] < b
  BY <1>1, <1>4, <1>6
<1>10. task = "audit" => reviews[i] < hour - AuditGuard
  BY <1>1, <1>4, <1>6, <1>8, <1>9
<1> QED BY <1>7, <1>8, <1>9, <1>10

\* The steps of a loop that was not the one awaited, or that goes on as it was.
LEMMA LoopStepInTime ==
    ASSUME SkipInv, task # "health", NEW r \in Supervisors,
           LoopSkips(r) \/ LoopCalls(r) \/ LoopReviews(r) \/ LoopFails(r) \/ ReplicaLost(r) \/ ReplicaBack(r)
    PROVE  InTime'
<1>1. UNCHANGED <<task, hour>>
  BY DEF LoopSkips, LoopCalls, LoopReviews, LoopFails, ReplicaLost, ReplicaBack
<1>2. /\ ThisPeriod' = ThisPeriod /\ \A n : Seven(n)' = Seven(n)
      /\ \A h, n : Around(h, n)' <=> Around(h, n)
  BY <1>1, SameHour
<1>3. /\ wake \in [Supervisors -> Nat] /\ began \in [Supervisors -> Nat]
      /\ loop \in [Supervisors -> {"asleep", "calling", "down"}]
      /\ hour \in Nat /\ MaxSkew \in Nat
      /\ \A q \in Supervisors :
            /\ loop[q] = "asleep" => /\ wake[q] \in {Seven(ThisPeriod), Seven(ThisPeriod + 1)}
                                     /\ hour <= wake[q] + MaxSkew
            /\ loop[q] = "calling" => Around(began[q], ThisPeriod) /\ hour <= began[q] + MaxSkew
      /\ \A i \in DOMAIN reviews : \E q \in 0..ThisPeriod : Around(reviews[i], q)
  BY Reviewable DEF SkipInv, SuperInv, SuperTypeOK, InTime
<1>4. /\ NextWake(hour) \in Nat /\ hour <= NextWake(hour) + MaxSkew
      /\ NextWake(hour) \in {Seven(ThisPeriod), Seven(ThisPeriod + 1)}
  BY <1>3, NextIsAhead DEF SkipInv
<1>5. /\ wake' \in [Supervisors -> Nat]
      /\ \A q \in Supervisors \ {r} : loop'[q] = loop[q] /\ wake'[q] = wake[q] /\ began'[q] = began[q]
      /\ loop'[r] = "asleep" => wake'[r] = NextWake(hour)
      /\ loop'[r] = "calling" => LoopCalls(r)
  <2>1. CASE LoopSkips(r)
    BY <1>3, <1>4, <2>1 DEF LoopSkips, SleepsAgain
  <2>2. CASE LoopCalls(r)
    BY <1>3, <2>2 DEF LoopCalls
  <2>3. CASE LoopReviews(r) \/ LoopFails(r)
    BY <1>3, <1>4, <2>3 DEF LoopReviews, LoopFails, SleepsAgain
  <2>4. CASE ReplicaLost(r)
    BY <1>3, <2>4 DEF ReplicaLost
  <2>5. CASE ReplicaBack(r)
    BY <1>3, <1>4, <2>5 DEF ReplicaBack, SleepsAgain
  <2> QED BY <2>1, <2>2, <2>3, <2>4, <2>5
<1>6. LoopCalls(r) => began'[r] = hour /\ Around(hour, ThisPeriod)
  BY <1>3, WakesAround DEF LoopCalls
<1>7. \A i \in DOMAIN reviews' : \E q \in 0..ThisPeriod : Around(reviews'[i], q)
  <2>1. CASE reviews' = reviews
    BY <1>3, <2>1
  <2>2. CASE LoopReviews(r)
    <3>1. reviews \in Seq(0..MaxHour) /\ reviews' = Append(reviews, began[r]) /\ loop[r] = "calling"
      BY <2>2 DEF LoopReviews, SkipInv, SuperInv
    <3>2. /\ DOMAIN reviews = 1..Len(reviews) /\ DOMAIN reviews' = 1..(Len(reviews) + 1) /\ Len(reviews) \in Nat
          /\ reviews'[Len(reviews) + 1] = began[r] /\ \A i \in DOMAIN reviews : reviews'[i] = reviews[i]
      BY <3>1
    <3>3. Around(began[r], ThisPeriod) /\ ThisPeriod \in 0..ThisPeriod
      BY <1>3, <3>1, HourIs DEF SkipInv
    <3>4. \A i \in DOMAIN reviews' : i \in DOMAIN reviews \/ i = Len(reviews) + 1
      BY <3>2
    <3> QED BY <1>3, <3>2, <3>3, <3>4
  <2> QED BY <2>1, <2>2 DEF LoopSkips, LoopCalls, LoopFails, ReplicaLost, ReplicaBack
<1>8. \A i \in DOMAIN reviews' : \E q \in 0..ThisPeriod' : Around(reviews[i], q)'
  BY <1>1, <1>2, <1>7 DEF Around
<1>9. hour' <= hour + MaxSkew
  BY <1>1, <1>3
<1>10. \A q \in Supervisors :
          /\ loop'[q] = "asleep" => /\ wake'[q] \in {Seven(ThisPeriod), Seven(ThisPeriod + 1)}
                                    /\ hour' <= wake'[q] + MaxSkew
          /\ loop'[q] = "calling" => Around(began'[q], ThisPeriod) /\ hour' <= began'[q] + MaxSkew
  BY <1>1, <1>3, <1>4, <1>5, <1>6, <1>9
<1>11. \A q \in Supervisors :
          /\ loop'[q] = "asleep" => /\ wake'[q] \in {Seven(ThisPeriod)', Seven(ThisPeriod + 1)'}
                                    /\ hour' <= wake'[q] + MaxSkew
          /\ loop'[q] = "calling" => Around(began[q], ThisPeriod)' /\ hour' <= began'[q] + MaxSkew
  BY <1>1, <1>2, <1>10 DEF Around, Seven, Period
<1> QED BY <1>5, <1>8, <1>11 DEF InTime

LEMMA LoopStepMisses ==
    ASSUME SkipInv, task # "health", NEW r \in Supervisors,
           LoopSkips(r) \/ LoopCalls(r) \/ LoopReviews(r) \/ LoopFails(r) \/ ReplicaLost(r) \/ ReplicaBack(r)
    PROVE  NoneMissed'
<1> PICK n \in Nat : n = ThisPeriod
  BY HourIs DEF SkipInv
<1>1. UNCHANGED <<task, hour>>
  BY DEF LoopSkips, LoopCalls, LoopReviews, LoopFails, ReplicaLost, ReplicaBack
<1>2. /\ ThisPeriod' = n /\ Seven(n)' = Seven(n) /\ \A h : PeriodOf(h)' = PeriodOf(h)
  BY <1>1, SameHour
<1>3. spoiled \subseteq spoiled'
  BY DEF LoopSkips, LoopCalls, LoopReviews, LoopFails, ReplicaLost, ReplicaBack, Spoils
<1>4. \A p : Reviewed(p) => Reviewed(p)'
  <2>1. \A i \in DOMAIN reviews : i \in DOMAIN reviews' /\ reviews'[i] = reviews[i]
    <3>1. reviews \in Seq(0..MaxHour) /\ began[r] \in Nat
      BY DEF SkipInv, SuperInv
    <3> QED BY <3>1 DEF LoopSkips, LoopCalls, LoopReviews, LoopFails, ReplicaLost, ReplicaBack
  <2> QED BY <1>2, <2>1 DEF Reviewed
<1>5. \A p \in Nat : p < n /\ p \notin spoiled' => Reviewed(p)'
  BY <1>3, <1>4 DEF SkipInv, NoneMissed
<1>6. SUFFICES ASSUME n \notin spoiled', ~Reviewed(n)'
               PROVE  \/ \E q \in Supervisors : loop'[q] = "calling"
                      \/ \E q \in Supervisors : loop'[q] = "asleep" /\ wake'[q] = Seven(n)
  BY <1>2, <1>5 DEF NoneMissed
<1>7. n \notin spoiled /\ ~Reviewed(n)
  BY <1>3, <1>4, <1>6
<1>8. PICK q \in Supervisors : loop[q] = "calling" \/ (loop[q] = "asleep" /\ wake[q] = Seven(n))
  BY <1>7 DEF SkipInv, NoneMissed
<1>9. /\ wake \in [Supervisors -> Nat] /\ began \in [Supervisors -> Nat] /\ hour \in Nat
      /\ loop \in [Supervisors -> {"asleep", "calling", "down"}]
  BY Reviewable DEF SkipInv, SuperInv, SuperTypeOK, InTime
<1>10. CASE LoopSkips(r)
  <2>1. loop' = loop /\ wake' = [wake EXCEPT ![r] = NextWake(hour)]
    BY <1>10 DEF LoopSkips, SleepsAgain
  <2>2. CASE loop[q] = "calling"
    BY <2>1, <2>2
  <2>3. CASE loop[q] = "asleep" /\ wake[q] = Seven(n) /\ q # r
    BY <1>9, <2>1, <2>3
  <2>4. CASE loop[q] = "asleep" /\ q = r
    <3>1. CASE hour < Seven(n)
      BY <1>9, <2>1, <2>4, <3>1, NextIsAhead DEF SkipInv
    <3>2. CASE hour >= Seven(n) /\ superLock # NoSupervisor
      <4>1. loop[superLock] = "calling" /\ superLock \in Supervisors
        BY <3>2 DEF SkipInv, SuperInv, SuperTypeOK
      <4> QED BY <2>1, <4>1
    <3>3. CASE hour >= Seven(n) /\ ~Runs
      BY <1>7, <3>3, GuardIsRight
    <3>4. Seven(n) \in Int
      BY Reviewable, HourIs DEF SkipInv
    <3> QED BY <1>9, <1>10, <3>1, <3>2, <3>3, <3>4 DEF LoopSkips
  <2> QED BY <1>8, <2>2, <2>3, <2>4
<1>11. CASE LoopCalls(r)
  BY <1>9, <1>11 DEF LoopCalls
<1>12. CASE LoopReviews(r)
  <2>1. /\ loop[r] = "calling" /\ reviews \in Seq(0..MaxHour) /\ reviews' = Append(reviews, began[r])
        /\ Around(began[r], n) /\ began[r] \in Nat
    BY <1>9, <1>12 DEF LoopReviews, SkipInv, SuperInv, InTime
  <2>2. Len(reviews) + 1 \in DOMAIN reviews' /\ reviews'[Len(reviews) + 1] = began[r]
    BY <2>1
  <2>3. PeriodOf(began[r]) = n
    BY <2>1, AroundIsIn DEF SkipInv
  <2> PICK l : l = Len(reviews) + 1
    OBVIOUS
  <2>4. PeriodOf(reviews[l])' = n
    BY <1>1, <2>2, <2>3 DEF PeriodOf, Period
  <2>5. Reviewed(n)'
    BY <2>2, <2>4 DEF Reviewed
  <2> QED BY <1>6, <2>5
<1>13. CASE LoopFails(r) \/ ReplicaLost(r)
  BY <1>6, <1>13 DEF LoopFails, ReplicaLost, Spoils, ThisPeriod
<1>14. CASE ReplicaBack(r)
  <2>1. q # r
    BY <1>8, <1>14 DEF ReplicaBack
  <2>2. loop'[q] = loop[q] /\ wake'[q] = wake[q]
    BY <1>9, <1>14, <2>1 DEF ReplicaBack, SleepsAgain
  <2> QED BY <1>8, <2>2
<1> QED BY <1>10, <1>11, <1>12, <1>13, <1>14

LEMMA SkipInitially == SuperInit => SkipInv
<1> SUFFICES ASSUME SuperInit PROVE SkipInv
  OBVIOUS
<1>1. SuperInv
  BY SuperInitInv
<1>2. ASSUME task # "health" PROVE InTime /\ NoneMissed
  <2>1. /\ hour = 0 /\ reviews = <<>> /\ loop = [r \in Supervisors |-> "asleep"]
        /\ wake = [r \in Supervisors |-> NextWake(hour)]
    BY DEF SuperInit
  <2>2. /\ Period \in Nat \ {0} /\ MaxSkew \in Nat /\ SevenAM \in Nat /\ SevenAM > 0
    BY <1>1, <1>2, Reviewable, SupervisionAssumption
  <2>3. ThisPeriod = 0
    BY <2>1, <2>2, PeriodIs DEF ThisPeriod, PeriodOf
  <2>4. Seven(0) = SevenAM
    BY <2>2 DEF Seven
  <2>5. NextWake(hour) = Seven(ThisPeriod) /\ NextWake(hour) \in Nat
    BY <1>1, <1>2, <2>1, <2>2, <2>3, <2>4, NextIsAhead
  <2>6. InTime
    BY <2>1, <2>2, <2>5 DEF InTime
  <2>7. Supervisors # {}
    BY SupervisionAssumption
  <2>8. NoneMissed
    BY <2>1, <2>3, <2>5, <2>7 DEF NoneMissed
  <2> QED BY <2>6, <2>8
<1> QED BY <1>1, <1>2 DEF SkipInv

LEMMA SkipStep == SkipInv /\ [SuperNext]_superVars => SkipInv'
<1> SUFFICES ASSUME SkipInv, [SuperNext]_superVars PROVE SkipInv'
  OBVIOUS
<1>1. SuperInv'
  BY SuperStepInv DEF SkipInv
<1>2. task' = task
  BY DEF SuperNext, superVars, HourPasses, LoopSkips, LoopCalls, LoopReviews, LoopFails, ReplicaLost, ReplicaBack
<1>3. ASSUME task # "health" PROVE InTime' /\ NoneMissed'
  <2>1. CASE UNCHANGED superVars
    BY <1>3, <2>1 DEF superVars, SkipInv, InTime, NoneMissed, Around, Seven, ThisPeriod, PeriodOf, Period, Reviewed
  <2> QED BY <1>3, <2>1, HourPassesInTime, LoopStepInTime, LoopStepMisses DEF SuperNext
<1> QED BY <1>1, <1>2, <1>3 DEF SkipInv

\* A day has its digest and a week its audit, unless a call failed, a replica
\* was lost or none was up: no guard skips a period's first review.
THEOREM EveryPeriodReviewed == SuperSpec => []NoPeriodSkipped
<1>1. SkipInv => NoPeriodSkipped
  <2> SUFFICES ASSUME SkipInv, task # "health", NEW p \in 0..PeriodOf(MaxHour),
                      hour > p * Period + SevenAM + 2 * MaxSkew, p \notin spoiled
               PROVE  Reviewed(p)
    BY DEF NoPeriodSkipped, Reviewed
  <2> PICK P \in Nat : P = Period
    BY Reviewable DEF SkipInv
  <2> PICK n \in Nat : n = ThisPeriod
    BY HourIs DEF SkipInv
  <2> PICK b \in Nat : b = n * P
    OBVIOUS
  <2>1. /\ P \in Nat \ {0} /\ MaxSkew \in Nat /\ SevenAM \in Nat
        /\ hour \in Nat /\ b <= hour /\ hour < b + P /\ Seven(n) = b + SevenAM
    BY Reviewable, HourIs DEF SkipInv
  <2>2. p \in Nat /\ p * P \in Nat
    <3>1. PeriodOf(MaxHour) \in Nat
      BY <2>1, SupervisionAssumption, InPeriod DEF PeriodOf
    <3> QED BY <2>1, <3>1
  <2>3. p <= n
    <3>1. n < p => n * P + P <= p * P
      BY <2>1, <2>2, Multiples
    <3> QED BY <2>1, <2>2, <3>1
  <2>4. CASE p < n
    BY <2>2, <2>4 DEF SkipInv, NoneMissed
  <2>5. CASE p = n
    <3>1. hour > b + SevenAM + 2 * MaxSkew
      BY <2>5
    <3>2. \A r \in Supervisors : loop[r] # "calling"
      <4> SUFFICES ASSUME NEW r \in Supervisors, loop[r] = "calling" PROVE FALSE
        OBVIOUS
      <4>1. began[r] \in Nat /\ began[r] <= b + SevenAM + MaxSkew /\ hour <= began[r] + MaxSkew
        BY <2>1 DEF SkipInv, SuperInv, InTime, Around
      <4> QED BY <2>1, <3>1, <4>1
    <3>3. \A r \in Supervisors : ~(loop[r] = "asleep" /\ wake[r] = Seven(n))
      <4> SUFFICES ASSUME NEW r \in Supervisors, loop[r] = "asleep", wake[r] = Seven(n) PROVE FALSE
        OBVIOUS
      <4>1. hour <= b + SevenAM + MaxSkew
        BY <2>1 DEF SkipInv, InTime
      <4> QED BY <2>1, <3>1, <4>1
    <3> QED BY <2>5, <3>2, <3>3 DEF SkipInv, NoneMissed
  <2> QED BY <2>1, <2>2, <2>3, <2>4, <2>5
<1> QED BY <1>1, SkipInitially, SkipStep, PTL DEF SuperSpec

-----------------------------------------------------------------------------
(* MCScheduling.                                                           *)

ClocksInv == SchedulerInv /\ ScalingInv /\ SkipInv

\* The composition keeps the invariant of each of its three components.
THEOREM ClocksInvariant == MCSpec => []ClocksInv
<1>1. MCInit => ClocksInv
  BY SchedulerInitInv, ScalingInitInv, SkipInitially DEF MCInit, ClocksInv
<1>2. ClocksInv /\ [MCNext]_<<taskVars, scalingVars, superVars, focus>> => ClocksInv'
  <2> SUFFICES ASSUME ClocksInv, [MCNext]_<<taskVars, scalingVars, superVars, focus>>
               PROVE  ClocksInv'
    OBVIOUS
  <2>1. [Next]_vars /\ [ScalingNext]_scalingVars /\ [SuperNext]_superVars
    BY DEF MCNext, taskVars
  <2> QED BY <2>1, SchedulerStepInv, ScalingStepInv, SkipStep DEF ClocksInv
<1> QED BY <1>1, <1>2, PTL DEF MCSpec

\* TypesOK, for every value of the three components' constants.
THEOREM ClocksTypes == MCSpec => []TypesOK
<1>1. ClocksInv => TypesOK
  BY DEF ClocksInv, SchedulerInv, ScalingInv, SkipInv, SuperInv, TypesOK
<1> QED BY <1>1, ClocksInvariant, PTL
=============================================================================
