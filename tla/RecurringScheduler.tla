-------------------------- MODULE RecurringScheduler --------------------------
(***************************************************************************)
(* The recurring-task executor of worker/recurring.py, ticking in every    *)
(* replica, against the admin's scheduler page (save, toggle and run-now   *)
(* in admin/routers/pipeline.py), which writes the same configuration rows *)
(* and the same job queue without the executor's advisory lock.            *)
(*                                                                         *)
(* A task's configuration row is [enabled, ready, ran]: ready stands for   *)
(* next_run_at missing or in the past, ran for last_run_at being set.      *)
(* Both sides read a row, build a new value from what they read, and write *)
(* the whole value back by key at their commit.                            *)
(***************************************************************************)
EXTENDS Integers, FiniteSets

CONSTANTS
    Tasks,       \* the job-typed entries of SCHEDULED_TASKS
    Replicas,    \* worker processes, each with its executor
    Admins,      \* admin requests that can be in flight at once
    NoRow,       \* no scheduler_<key> row, or nothing in hand
    NoReplica,   \* LOCK_RECURRING_TASKS is free
    MaxRunning,  \* jobs of one type that the workers run at once
    MaxRequests, \* bound on admin requests
    MaxFaults    \* bound on ticks that fail and jobs that are retried

Rows == [enabled : BOOLEAN, ready : BOOLEAN, ran : BOOLEAN]

ASSUME SchedulerAssumption ==
    /\ IsFiniteSet(Tasks)
    /\ NoRow \notin Rows /\ NoReplica \notin Replicas
    /\ MaxRunning \in Nat \ {0} /\ MaxRequests \in Nat /\ MaxFaults \in Nat

VARIABLES
    row,       \* system_config rows scheduler_<key>
    queued,    \* pending and retrying jobs of each task's type
    running,   \* running jobs of each task's type
    lock,      \* holder of LOCK_RECURRING_TASKS
    ticking,   \* replicas within a tick
    todo,      \* tasks the current tick has still to look at
    plan,      \* tasks it will enqueue
    base,      \* the row it read for each of them
    request,   \* admin requests: NoRow or [kind, task, read]
    requests,  \* admin requests so far
    faults,
    unearned   \* history: scheduled runs of a task since the last period
               \* elapsed or the last admin write to its row

tickVars == <<lock, ticking, todo, plan, base>>
vars == <<row, queued, running, tickVars, request, requests, faults, unearned>>

Kinds == {"save", "toggle", "run-now"}

Due(k) == row[k] = NoRow \/ (row[k].enabled /\ row[k].ready)

Spend == faults < MaxFaults /\ faults' = faults + 1

-----------------------------------------------------------------------------
(* run_due_scheduled_tasks: one transaction under a transaction lock.      *)

\* Faulty variant: the tick does not wait for its turn.
TickStart_NoLock(r) ==
    /\ r \notin ticking
    /\ ticking' = ticking \cup {r}
    /\ todo' = [todo EXCEPT ![r] = Tasks]
    /\ UNCHANGED <<row, queued, running, lock, plan, base, request, requests, faults, unearned>>

\* A replica that does not get the lock skips its tick.
TickStart(r) ==
    /\ lock = NoReplica /\ r \notin ticking
    /\ lock' = r
    /\ ticking' = ticking \cup {r}
    /\ todo' = [todo EXCEPT ![r] = Tasks]
    /\ UNCHANGED <<row, queued, running, plan, base, request, requests, faults, unearned>>

\* Faulty variant: a queued job does not hold back the next one.
Enqueues_Stacked(k) == Due(k)

\* A task that still has a job waiting is left for the next tick.
Enqueues(k) == Due(k) /\ queued[k] = 0

TickTask(r, k) ==
    /\ k \in todo[r]
    /\ todo' = [todo EXCEPT ![r] = @ \ {k}]
    /\ IF Enqueues(k)
       THEN /\ plan' = [plan EXCEPT ![r] = @ \cup {k}]
            /\ base' = [base EXCEPT ![r][k] = row[k]]
       ELSE UNCHANGED <<plan, base>>
    /\ UNCHANGED <<row, queued, running, lock, ticking, request, requests, faults, unearned>>

\* The row was absent when it was read and has been inserted since: the
\* insert violates the key.
Clash(r) == \E k \in plan[r] : base[r][k] = NoRow /\ row[k] # NoRow

TickEnds(r) ==
    /\ ticking' = ticking \ {r}
    /\ todo' = [todo EXCEPT ![r] = {}]
    /\ plan' = [plan EXCEPT ![r] = {}]
    /\ base' = [base EXCEPT ![r] = [k \in Tasks |-> NoRow]]

Release(r) == lock' = IF lock = r THEN NoReplica ELSE lock

\* A scheduled run: `enabled` is written back as it was read.
Advanced(old) == [enabled |-> IF old = NoRow THEN TRUE ELSE old.enabled,
                  ready |-> FALSE, ran |-> TRUE]

TickCommit(r) ==
    /\ r \in ticking /\ todo[r] = {} /\ ~Clash(r)
    /\ row' = [k \in Tasks |-> IF k \in plan[r] THEN Advanced(base[r][k]) ELSE row[k]]
    /\ queued' = [k \in Tasks |-> IF k \in plan[r] THEN queued[k] + 1 ELSE queued[k]]
    /\ unearned' = [k \in Tasks |-> IF k \in plan[r] THEN unearned[k] + 1 ELSE unearned[k]]
    /\ TickEnds(r) /\ Release(r)
    /\ UNCHANGED <<running, request, requests, faults>>

\* Faulty variant: the lock outlives the transaction.
TickAbort_KeepsLock(r) ==
    /\ r \in ticking
    /\ IF Clash(r) THEN UNCHANGED faults ELSE Spend
    /\ TickEnds(r) /\ UNCHANGED lock
    /\ UNCHANGED <<row, queued, running, request, requests, unearned>>

\* The tick raises, or its process dies: everything rolls back, the lock too.
TickAbort(r) ==
    /\ r \in ticking
    /\ IF Clash(r) THEN UNCHANGED faults ELSE Spend
    /\ TickEnds(r) /\ Release(r)
    /\ UNCHANGED <<row, queued, running, request, requests, unearned>>

-----------------------------------------------------------------------------
(* The admin's scheduler page.                                             *)

AdminRead(a) ==
    /\ request[a] = NoRow /\ requests < MaxRequests
    /\ requests' = requests + 1
    /\ \E kind \in Kinds, k \in Tasks :
          request' = [request EXCEPT ![a] = [kind |-> kind, task |-> k, read |-> row[k]]]
    /\ UNCHANGED <<row, queued, running, tickVars, faults, unearned>>

\* Faulty variant: a new row lacks the enabled flag.
Saved_NoFlag(old) ==
    IF old = NoRow THEN {[ready |-> FALSE, ran |-> FALSE]}
    ELSE {[old EXCEPT !.ready = b] : b \in IF old.ran THEN BOOLEAN ELSE {FALSE}}

\* The next run is the last one plus the new frequency, or a frequency from now.
Saved(old) ==
    IF old = NoRow THEN {[enabled |-> TRUE, ready |-> FALSE, ran |-> FALSE]}
    ELSE {[old EXCEPT !.ready = b] : b \in IF old.ran THEN BOOLEAN ELSE {FALSE}}

\* Enabling schedules a run a period ahead; disabling leaves the schedule.
Toggled(old) ==
    IF old = NoRow THEN {[enabled |-> FALSE, ready |-> TRUE, ran |-> FALSE]}
    ELSE {[old EXCEPT !.enabled = ~@, !.ready = old.enabled /\ @]}

Ran(old) ==
    {[enabled |-> IF old = NoRow THEN TRUE ELSE old.enabled, ready |-> FALSE, ran |-> TRUE]}

AdminWrite(a) ==
    /\ request[a] # NoRow
    /\ LET q == request[a] IN
          /\ q.read = NoRow => row[q.task] = NoRow
          /\ \E new \in CASE q.kind = "save" -> Saved(q.read)
                          [] q.kind = "toggle" -> Toggled(q.read)
                          [] q.kind = "run-now" -> Ran(q.read) :
                row' = [row EXCEPT ![q.task] = new]
          /\ queued' = [queued EXCEPT ![q.task] = IF q.kind = "run-now" THEN @ + 1 ELSE @]
          /\ unearned' = [unearned EXCEPT ![q.task] = 0]
    /\ request' = [request EXCEPT ![a] = NoRow]
    /\ UNCHANGED <<running, tickVars, requests, faults>>

\* The row was inserted since the request read none: an error page.
AdminClash(a) ==
    /\ request[a] # NoRow
    /\ request[a].read = NoRow /\ row[request[a].task] # NoRow
    /\ request' = [request EXCEPT ![a] = NoRow]
    /\ UNCHANGED <<row, queued, running, tickVars, requests, faults, unearned>>

-----------------------------------------------------------------------------
(* Time and the job queue.                                                 *)

\* Periods are hours: none elapses within a request or a tick.
PeriodElapses(k) ==
    /\ row[k] # NoRow /\ ~row[k].ready
    /\ \A r \in Replicas : k \notin plan[r]
    /\ \A a \in Admins : request[a] # NoRow => request[a].task # k
    /\ row' = [row EXCEPT ![k].ready = TRUE]
    /\ unearned' = [unearned EXCEPT ![k] = 0]
    /\ UNCHANGED <<queued, running, tickVars, request, requests, faults>>

Start(k) ==
    /\ queued[k] > 0 /\ running[k] < MaxRunning
    /\ queued' = [queued EXCEPT ![k] = @ - 1]
    /\ running' = [running EXCEPT ![k] = @ + 1]
    /\ UNCHANGED <<row, tickVars, request, requests, faults, unearned>>

Finish(k) ==
    /\ running[k] > 0
    /\ running' = [running EXCEPT ![k] = @ - 1]
    /\ UNCHANGED <<row, queued, tickVars, request, requests, faults, unearned>>

\* The job fails and is retried, or is reclaimed.
Retry(k) ==
    /\ running[k] > 0 /\ Spend
    /\ running' = [running EXCEPT ![k] = @ - 1]
    /\ queued' = [queued EXCEPT ![k] = @ + 1]
    /\ UNCHANGED <<row, tickVars, request, requests, unearned>>

-----------------------------------------------------------------------------

Init ==
    /\ row = [k \in Tasks |-> NoRow]
    /\ queued = [k \in Tasks |-> 0]
    /\ running = [k \in Tasks |-> 0]
    /\ lock = NoReplica
    /\ ticking = {}
    /\ todo = [r \in Replicas |-> {}]
    /\ plan = [r \in Replicas |-> {}]
    /\ base = [r \in Replicas |-> [k \in Tasks |-> NoRow]]
    /\ request = [a \in Admins |-> NoRow]
    /\ requests = 0
    /\ faults = 0
    /\ unearned = [k \in Tasks |-> 0]

Tick(r) == TickStart(r) \/ (\E k \in Tasks : TickTask(r, k)) \/ TickCommit(r) \/ TickAbort(r)

Admin(a) == AdminRead(a) \/ AdminWrite(a) \/ AdminClash(a)

Next ==
    \/ \E r \in Replicas : Tick(r)
    \/ \E a \in Admins : Admin(a)
    \/ \E k \in Tasks : PeriodElapses(k) \/ Start(k) \/ Finish(k) \/ Retry(k)

Spec == Init /\ [][Next]_vars

\* Every replica ticks each minute, jobs are claimed and end, clocks advance.
FairSpec ==
    /\ Spec
    /\ \A r \in Replicas : WF_vars(Tick(r))
    /\ \A k \in Tasks : WF_vars(PeriodElapses(k)) /\ WF_vars(Start(k)) /\ WF_vars(Finish(k))

-----------------------------------------------------------------------------
(* Properties.                                                             *)

TypeOK ==
    /\ row \in [Tasks -> Rows \cup {NoRow}]
    /\ queued \in [Tasks -> Nat] /\ running \in [Tasks -> 0..MaxRunning]
    /\ lock \in Replicas \cup {NoReplica}
    /\ ticking \subseteq Replicas
    /\ todo \in [Replicas -> SUBSET Tasks] /\ plan \in [Replicas -> SUBSET Tasks]
    /\ base \in [Replicas -> [Tasks -> Rows \cup {NoRow}]]
    /\ request \in [Admins -> [kind : Kinds, task : Tasks, read : Rows \cup {NoRow}]
                              \cup {NoRow}]
    /\ requests \in 0..MaxRequests /\ faults \in 0..MaxFaults
    /\ unearned \in [Tasks -> Nat]

\* Replicas that tick together do not both enqueue a task: between two
\* scheduled runs its period elapsed or an admin rewrote its row.
OncePerPeriod == \A k \in Tasks : unearned[k] <= 1

\* Scheduled runs do not pile up behind one that waits: whatever waits beyond
\* the first job was asked for by an admin or came back from a worker.
NoPileUp == \A k \in Tasks : queued[k] <= 1 + requests + faults

\* A task that is due is served or stops being due, though ticks fail, a
\* replica dies holding the lock, jobs are retried and admins interfere.
DueIsServed == \A k \in Tasks : Due(k) ~> ~Due(k)
=============================================================================
