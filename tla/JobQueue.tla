------------------------------ MODULE JobQueue ------------------------------
(***************************************************************************)
(* The Postgres-backed job queue and the workers that drain it:            *)
(* queue/claim.py, queue/reclaim.py, queue/backpressure.py,                *)
(* queue/kill_switch.py, worker/loop.py and the admin's job buttons.       *)
(*                                                                         *)
(* A job row is one entry of the functions status, attempts, owner, prio,  *)
(* due and stale.  `due` stands for scheduled_at being null or in the      *)
(* past, `stale` for started_at being older than the stale timeout.  Every *)
(* action below is one committed transaction, or one step of a worker's    *)
(* main coroutine between two awaits.                                      *)
(*                                                                         *)
(* An execution is a claimed job in a worker's memory.  claim_job raises   *)
(* attempts on every claim, so <<job, attempts at the claim>> names it.    *)
(***************************************************************************)
EXTENDS Integers, FiniteSets

CONSTANTS
    Jobs,           \* job rows, those not inserted yet included
    Workers,        \* worker processes (replicas)
    NoWorker,       \* worker_id IS NULL
    NoExec,         \* the main coroutine has no job in hand
    MaxConcurrency, \* WORKER_MAX_CONCURRENCY, the semaphore's permits
    RowMax,         \* the max_attempts column, which only reclaim reads
    TypeMax,        \* get_max_attempts(job_type), which only fail_job reads
    Accepts,        \* the jobs a worker's WORKER_JOB_TYPES filter admits
    NoHandler,      \* jobs whose type has no registered handler
    Demotable,      \* jobs whose type is in BACKPRESSURE_JOB_TYPES
    Transcriptions, \* jobs of type process_content
    Threshold,      \* max_pending_transcriptions
    Priorities,     \* priorities that jobs are inserted with
    MaxFaults       \* bound on crashes, shutdowns and lost database replies

ASSUME QueueAssumption ==
    /\ IsFiniteSet(Jobs) /\ IsFiniteSet(Workers)
    /\ NoWorker \notin Workers
    /\ NoExec \notin [job : Jobs, att : Nat]
    /\ MaxConcurrency \in Nat \ {0}
    /\ RowMax \in [Jobs -> Nat \ {0}]
    /\ TypeMax \in [Jobs -> Nat \ {0}]
    /\ Accepts \in [Workers -> SUBSET Jobs]
    /\ NoHandler \subseteq Jobs
    /\ Demotable \subseteq Jobs /\ Transcriptions \subseteq Jobs
    /\ Threshold \in Nat
    /\ Priorities \subseteq 1..10
    /\ MaxFaults \in Nat

VARIABLES
    status,      \* jobs.status, "absent" before the insert
    attempts,    \* jobs.attempts
    owner,       \* jobs.worker_id
    prio,        \* jobs.priority
    due,         \* scheduled_at IS NULL OR scheduled_at <= now
    stale,       \* started_at < now - stale_job_timeout_minutes
    active,      \* system_config.workers_active
    pc,          \* where each worker's main coroutine is
    hand,        \* the execution it claimed and has not dispatched yet
    tasks,       \* its dispatched executions, the active_tasks set
    permits,     \* free permits of its semaphore
    reads,       \* what its fail_job calls read of a row and did not yet act on
    stopping,    \* its shutdown_event
    cancelSeen,  \* cancel requests that read 'pending' and not yet wrote
    faults,      \* faults so far
    disturbed,   \* history: jobs reclaimed or cancelled under a live execution
    overtaken,   \* history: jobs retried for an attempt count they had no more
    late         \* history: claims a worker made since it was told to stop

rowVars  == <<status, attempts, owner, prio, due, stale>>
procVars == <<pc, hand, tasks, permits, stopping, reads>>
vars     == <<rowVars, active, procVars, cancelSeen, faults, disturbed, overtaken, late>>

Execs == [job : Jobs, att : Nat]

Queued   == {"pending", "retrying"}
Terminal == {"done", "failed", "cancelled"}

\* The executions of worker w, dispatched or still in its main coroutine.
Held(w) == tasks[w] \cup ({hand[w]} \ {NoExec})

Live(j) == \E w \in Workers : \E e \in Held(w) : e.job = j

Up(w) == pc[w] \notin {"drain", "down"}

Spend == faults < MaxFaults /\ faults' = faults + 1

-----------------------------------------------------------------------------
(* Inserting and cancelling rows.                                          *)

Enqueue(j) ==
    /\ status[j] = "absent"
    /\ status' = [status EXCEPT ![j] = "pending"]
    /\ \E p \in Priorities : prio' = [prio EXCEPT ![j] = p]
    /\ UNCHANGED <<attempts, owner, due, stale, active, procVars, cancelSeen,
                   faults, disturbed, overtaken, late>>

\* The admin's cancel button reads the row in one statement ...
AdminCancelRead(j) ==
    /\ status[j] = "pending" /\ j \notin cancelSeen
    /\ cancelSeen' = cancelSeen \cup {j}
    /\ UNCHANGED <<rowVars, active, procVars, faults, disturbed, overtaken, late>>

\* ... and updates it by primary key in a later one, whatever it has become.
AdminCancelWrite(j) ==
    /\ j \in cancelSeen
    /\ cancelSeen' = cancelSeen \ {j}
    /\ status' = [status EXCEPT ![j] = "cancelled"]
    /\ disturbed' = IF status[j] \in Queued THEN disturbed
                                            ELSE disturbed \cup {j}
    /\ UNCHANGED <<attempts, owner, prio, due, stale, active, procVars, faults, overtaken, late>>

\* Faulty variant: the UPDATE is not guarded by the status.
AgentCancel_Unguarded(j) ==
    /\ status[j] # "absent"
    /\ status' = [status EXCEPT ![j] = "cancelled"]
    /\ UNCHANGED <<attempts, owner, prio, due, stale, active, procVars, cancelSeen,
                   faults, disturbed, overtaken, late>>

\* The chat agent's cancel is one guarded UPDATE.
AgentCancel(j) ==
    /\ status[j] = "pending"
    /\ status' = [status EXCEPT ![j] = "cancelled"]
    /\ UNCHANGED <<attempts, owner, prio, due, stale, active, procVars, cancelSeen,
                   faults, disturbed, overtaken, late>>

-----------------------------------------------------------------------------
(* The worker's main coroutine.                                            *)

\* Faulty variant, for mutation: the kill switch is not read.
Poll_NoSwitch(w) ==
    /\ pc[w] = "poll" /\ ~stopping[w]
    /\ pc' = [pc EXCEPT ![w] = "claim"]
    /\ UNCHANGED <<rowVars, active, hand, tasks, permits, stopping, reads, cancelSeen,
                   faults, disturbed, overtaken, late>>

\* The kill switch is read in a session of its own, before the claim's.
Poll(w) ==
    /\ pc[w] = "poll" /\ ~stopping[w] /\ active
    /\ pc' = [pc EXCEPT ![w] = "claim"]
    /\ UNCHANGED <<rowVars, active, hand, tasks, permits, stopping, reads, cancelSeen,
                   faults, disturbed, overtaken, late>>

\* Faulty variant: rows that are already running are claimed again.
Eligible_Running(w) == {j \in Accepts[w] : status[j] \in Queued \cup {"running"} /\ due[j]}

\* Faulty variant: rows that wait for a retry are not claimed.
Eligible_PendingOnly(w) == {j \in Accepts[w] : status[j] = "pending" /\ due[j]}

Eligible(w) == {j \in Accepts[w] : status[j] \in Queued /\ due[j]}

\* The row claim_job picks: least priority number first.  A row that another
\* transaction has locked is skipped; ordering that transaction first gives the
\* same result, so every claim sees the rows unlocked.
Front(w) == {j \in Eligible(w) : \A k \in Eligible(w) : prio[j] <= prio[k]}

ClaimRow(w, j) ==
    /\ status' = [status EXCEPT ![j] = "running"]
    /\ owner' = [owner EXCEPT ![j] = w]
    /\ stale' = [stale EXCEPT ![j] = FALSE]
    /\ attempts' = [attempts EXCEPT ![j] = @ + 1]
    /\ late' = [late EXCEPT ![w] = IF active /\ ~stopping[w] THEN @ ELSE @ + 1]
    /\ UNCHANGED <<prio, due, active, tasks, permits, stopping, reads, cancelSeen, disturbed,
                   overtaken>>

Claim(w, j) ==
    /\ pc[w] = "claim" /\ j \in Front(w)
    /\ ClaimRow(w, j)
    /\ hand' = [hand EXCEPT ![w] = [job |-> j, att |-> attempts[j] + 1]]
    /\ pc' = [pc EXCEPT ![w] = "demote"]
    /\ UNCHANGED faults

\* The claim commits and the worker gets an exception instead of the job.
ClaimLost(w, j) ==
    /\ pc[w] = "claim" /\ j \in Front(w) /\ Spend
    /\ ClaimRow(w, j)
    /\ pc' = [pc EXCEPT ![w] = "poll"]
    /\ UNCHANGED hand

\* The claim's transaction rolls back.
ClaimError(w) ==
    /\ pc[w] = "claim" /\ Spend
    /\ pc' = [pc EXCEPT ![w] = "poll"]
    /\ UNCHANGED <<rowVars, active, hand, tasks, permits, stopping, reads, cancelSeen,
                   disturbed, overtaken, late>>

ClaimNone(w) ==
    /\ pc[w] = "claim" /\ Eligible(w) = {}
    /\ pc' = [pc EXCEPT ![w] = "poll"]
    /\ UNCHANGED <<rowVars, active, hand, tasks, permits, stopping, reads, cancelSeen,
                   faults, disturbed, overtaken, late>>

Depth == Cardinality({k \in Transcriptions : status[k] \in Queued})

EffectivePriority(j) ==
    IF j \in Demotable /\ Depth > Threshold
    THEN IF prio[j] + 3 < 10 THEN prio[j] + 3 ELSE 10
    ELSE prio[j]

\* session.merge writes the whole row as the worker read it when it claimed
\* (running, its own, due, just started): what changed since is overwritten.
Merge(w, e) ==
    /\ status' = [status EXCEPT ![e.job] = "running"]
    /\ owner' = [owner EXCEPT ![e.job] = w]
    /\ attempts' = [attempts EXCEPT ![e.job] = e.att]
    /\ prio' = [prio EXCEPT ![e.job] = EffectivePriority(e.job)]
    /\ due' = [due EXCEPT ![e.job] = TRUE]
    /\ stale' = [stale EXCEPT ![e.job] = FALSE]

Demote(w) ==
    /\ pc[w] = "demote"
    /\ pc' = [pc EXCEPT ![w] = "acquire"]
    /\ \/ /\ EffectivePriority(hand[w].job) # prio[hand[w].job]
          /\ Merge(w, hand[w])
       \/ \* no demotion, or the check raised and was logged
          UNCHANGED rowVars
    /\ UNCHANGED <<active, hand, tasks, permits, stopping, reads, cancelSeen,
                   faults, disturbed, overtaken, late>>

\* Faulty variant: the task starts without a permit.
Dispatch_NoAcquire(w) ==
    /\ pc[w] = "acquire"
    /\ tasks' = [tasks EXCEPT ![w] = @ \cup {hand[w]}]
    /\ hand' = [hand EXCEPT ![w] = NoExec]
    /\ pc' = [pc EXCEPT ![w] = "poll"]
    /\ UNCHANGED <<rowVars, active, permits, stopping, reads, cancelSeen, faults,
                   disturbed, overtaken, late>>

Dispatch(w) ==
    /\ pc[w] = "acquire" /\ permits[w] > 0
    /\ permits' = [permits EXCEPT ![w] = @ - 1]
    /\ tasks' = [tasks EXCEPT ![w] = @ \cup {hand[w]}]
    /\ hand' = [hand EXCEPT ![w] = NoExec]
    /\ pc' = [pc EXCEPT ![w] = "poll"]
    /\ UNCHANGED <<rowVars, active, stopping, reads, cancelSeen, faults, disturbed,
                   overtaken, late>>

-----------------------------------------------------------------------------
(* _process_job: the handler runs, then the outcome is written by id alone, *)
(* whatever the row holds by then, and the permit is released in `finally`. *)

\* Faulty variant: the permit is not released.
Finish_NoRelease(w, e) ==
    /\ e \in tasks[w]
    /\ tasks' = [tasks EXCEPT ![w] = @ \ {e}]
    /\ reads' = [reads EXCEPT ![w] = {r \in @ : r.exec # e}]
    /\ UNCHANGED <<pc, hand, permits, stopping, active, cancelSeen, disturbed, late>>

Finish(w, e) ==
    /\ e \in tasks[w]
    /\ tasks' = [tasks EXCEPT ![w] = @ \ {e}]
    /\ permits' = [permits EXCEPT ![w] = @ + 1]
    /\ reads' = [reads EXCEPT ![w] = {r \in @ : r.exec # e}]
    /\ UNCHANGED <<pc, hand, stopping, active, cancelSeen, disturbed, late>>

\* The handler raised, and fail_job has read the row.
Failing(w, e) == \E r \in reads[w] : r.exec = e

Complete(w, e) ==
    /\ e.job \notin NoHandler /\ ~Failing(w, e)
    /\ Finish(w, e)
    /\ status' = [status EXCEPT ![e.job] = "done"]
    /\ UNCHANGED <<attempts, owner, prio, due, stale, faults, overtaken>>

FailRead(w, e) ==
    /\ e \in tasks[w] /\ ~Failing(w, e)
    /\ reads' = [reads EXCEPT ![w] = @ \cup {[exec |-> e, att |-> attempts[e.job],
                                             st |-> status[e.job], own |-> owner[e.job]]}]
    /\ UNCHANGED <<rowVars, active, pc, hand, tasks, permits, stopping, cancelSeen, faults,
                   disturbed, overtaken, late>>

MaxAttempts(j) == IF j \in NoHandler THEN 1 ELSE TypeMax[j]

\* Faulty variant: one retry too many.
Retries_OffByOne(r) == r.att <= MaxAttempts(r.exec.job)

\* While attempts remain, by what was read.
Retries(r) == r.att < MaxAttempts(r.exec.job)

\* fail_job: retrying with a backoff, or failed.  A column that is to get the
\* value it was read with is left out of the UPDATE.
FailRow(r) ==
    LET j == r.exec.job
        s == IF Retries(r) THEN "retrying" ELSE "failed"
    IN  /\ status' = IF r.st = s THEN status ELSE [status EXCEPT ![j] = s]
        /\ due' = IF Retries(r) THEN [due EXCEPT ![j] = FALSE] ELSE due
        /\ owner' = IF Retries(r) /\ r.own # NoWorker THEN [owner EXCEPT ![j] = NoWorker]
                                                      ELSE owner
        /\ overtaken' = IF Retries(r) /\ r.att # attempts[j] THEN overtaken \cup {j}
                                                             ELSE overtaken

FailWrite(w, e) ==
    /\ \E r \in reads[w] : r.exec = e /\ FailRow(r)
    /\ Finish(w, e)
    /\ UNCHANGED <<attempts, prio, stale, faults>>

\* complete_job or fail_job raises: the task ends and the row stays as it is.
ReportLost(w, e) ==
    /\ Finish(w, e) /\ Spend
    /\ UNCHANGED <<rowVars, overtaken>>

-----------------------------------------------------------------------------
(* Reclamation, time, and the processes' ends.                             *)

\* Faulty variant: the kill switch also pauses reclamation.
StaleRows_Paused == {j \in Jobs : status[j] = "running" /\ stale[j] /\ active}

StaleRows == {j \in Jobs : status[j] = "running" /\ stale[j]}

Spent(j) == attempts[j] + 1 >= RowMax[j]

\* reclaim_stale_jobs, run by any worker's scheduler, settles every stale row
\* in one transaction.  It counts an attempt of its own.
Reclaim ==
    /\ \E w \in Workers : Up(w) /\ ~stopping[w]
    /\ StaleRows # {}
    /\ status' = [j \in Jobs |-> IF j \notin StaleRows THEN status[j]
                                 ELSE IF Spent(j) THEN "failed" ELSE "retrying"]
    /\ attempts' = [j \in Jobs |-> IF j \in StaleRows THEN attempts[j] + 1 ELSE attempts[j]]
    /\ owner' = [j \in Jobs |-> IF j \in StaleRows THEN NoWorker ELSE owner[j]]
    /\ due' = [j \in Jobs |-> IF j \in StaleRows THEN Spent(j) ELSE due[j]]
    /\ stale' = [j \in Jobs |-> stale[j] /\ j \notin StaleRows]
    /\ disturbed' = disturbed \cup {j \in StaleRows : Live(j)}
    /\ UNCHANGED <<prio, active, procVars, cancelSeen, faults, overtaken, late>>

\* The backpressure check follows the claim at once, and the clocks that the
\* row depends on run for minutes: none of them elapses during that check.
Unchecked(j) == \A w \in Workers : pc[w] = "demote" => hand[w].job # j

\* The backoff of a retrying row elapses.
BecomeDue(j) ==
    /\ status[j] = "retrying" /\ ~due[j] /\ Unchecked(j)
    /\ due' = [due EXCEPT ![j] = TRUE]
    /\ UNCHANGED <<status, attempts, owner, prio, stale, active, procVars, cancelSeen,
                   faults, disturbed, overtaken, late>>

\* The stale timeout elapses.
BecomeStale(j) ==
    /\ status[j] = "running" /\ ~stale[j] /\ Unchecked(j)
    /\ stale' = [stale EXCEPT ![j] = TRUE]
    /\ UNCHANGED <<status, attempts, owner, prio, due, active, procVars, cancelSeen,
                   faults, disturbed, overtaken, late>>

\* The admin or the chat agent flips workers_active.
ToggleKillSwitch ==
    /\ active' = ~active
    /\ late' = [w \in Workers |-> IF active \/ stopping[w] THEN late[w] ELSE 0]
    /\ UNCHANGED <<rowVars, procVars, cancelSeen, faults, disturbed,
                   overtaken>>

\* SIGTERM sets shutdown_event; the main loop tests it at its head only.
Stop(w) ==
    /\ Up(w) /\ ~stopping[w] /\ Spend
    /\ stopping' = [stopping EXCEPT ![w] = TRUE]
    /\ UNCHANGED <<rowVars, active, pc, hand, tasks, permits, reads, cancelSeen, disturbed,
                   overtaken, late>>

LeaveLoop(w) ==
    /\ pc[w] = "poll" /\ stopping[w]
    /\ pc' = [pc EXCEPT ![w] = "drain"]
    /\ UNCHANGED <<rowVars, active, hand, tasks, permits, stopping, reads, cancelSeen, faults,
                   disturbed, overtaken, late>>

\* The process is gone, with every task still in it; no row is written.
Gone(w) ==
    /\ pc' = [pc EXCEPT ![w] = "down"]
    /\ hand' = [hand EXCEPT ![w] = NoExec]
    /\ tasks' = [tasks EXCEPT ![w] = {}]
    /\ permits' = [permits EXCEPT ![w] = MaxConcurrency]
    /\ reads' = [reads EXCEPT ![w] = {}]
    /\ UNCHANGED <<rowVars, active, stopping, cancelSeen, disturbed, overtaken, late>>

\* All tasks ended, or 60 seconds passed and the rest are cancelled unawaited.
DrainEnd(w) == pc[w] = "drain" /\ Gone(w) /\ UNCHANGED faults

Crash(w) == pc[w] # "down" /\ Spend /\ Gone(w)

Restart(w) ==
    /\ pc[w] = "down"
    /\ pc' = [pc EXCEPT ![w] = "poll"]
    /\ stopping' = [stopping EXCEPT ![w] = FALSE]
    /\ late' = [late EXCEPT ![w] = 0]
    /\ UNCHANGED <<rowVars, active, hand, tasks, permits, reads, cancelSeen, faults, disturbed,
                   overtaken>>

-----------------------------------------------------------------------------

Init ==
    /\ status = [j \in Jobs |-> "absent"]
    /\ attempts = [j \in Jobs |-> 0]
    /\ owner = [j \in Jobs |-> NoWorker]
    /\ prio = [j \in Jobs |-> 5]
    /\ due = [j \in Jobs |-> TRUE]
    /\ stale = [j \in Jobs |-> FALSE]
    /\ active = TRUE
    /\ pc = [w \in Workers |-> "poll"]
    /\ hand = [w \in Workers |-> NoExec]
    /\ tasks = [w \in Workers |-> {}]
    /\ permits = [w \in Workers |-> MaxConcurrency]
    /\ reads = [w \in Workers |-> {}]
    /\ stopping = [w \in Workers |-> FALSE]
    /\ cancelSeen = {}
    /\ faults = 0
    /\ disturbed = {} /\ overtaken = {}
    /\ late = [w \in Workers |-> 0]

ClaimStep(w) == ClaimNone(w) \/ \E j \in Jobs : Claim(w, j)

Report(w, e) == Complete(w, e) \/ FailRead(w, e) \/ FailWrite(w, e)

Loop(w) ==
    \/ Poll(w)
    \/ ClaimStep(w)
    \/ ClaimError(w) \/ \E j \in Jobs : ClaimLost(w, j)
    \/ Demote(w)
    \/ Dispatch(w)
    \/ \E e \in tasks[w] : Report(w, e) \/ ReportLost(w, e)
    \/ Stop(w)
    \/ LeaveLoop(w)
    \/ DrainEnd(w)
    \/ Crash(w)
    \/ Restart(w)

Row(j) ==
    \/ Enqueue(j)
    \/ AdminCancelRead(j)
    \/ AdminCancelWrite(j)
    \/ AgentCancel(j)
    \/ BecomeDue(j)
    \/ BecomeStale(j)

Next ==
    \/ \E w \in Workers : Loop(w)
    \/ \E j \in Jobs : Row(j)
    \/ Reclaim
    \/ ToggleKillSwitch

Spec == Init /\ [][Next]_vars

\* The main coroutine and every scheduler keep running, handlers end (their
\* HTTP calls have timeouts), clocks advance and the platform restarts a dead
\* process.  Nothing is assumed of operators, faults, or the kill switch.
Fairness ==
    /\ \A w \in Workers :
          /\ WF_vars(Poll(w)) /\ WF_vars(ClaimStep(w))
          /\ WF_vars(Demote(w)) /\ WF_vars(Dispatch(w))
          /\ WF_vars(LeaveLoop(w)) /\ WF_vars(DrainEnd(w)) /\ WF_vars(Restart(w))
          /\ \A j \in Jobs : WF_vars(\E e \in tasks[w] : e.job = j /\ Report(w, e))
    /\ \A j \in Jobs : WF_vars(BecomeDue(j)) /\ WF_vars(BecomeStale(j))
    /\ WF_vars(Reclaim)

FairSpec == Spec /\ Fairness

-----------------------------------------------------------------------------
(* Properties.                                                             *)

\* The larger of the two limits a row is subject to.
Limit(j) == IF RowMax[j] > TypeMax[j] THEN RowMax[j] ELSE TypeMax[j]

Statuses == {"absent", "running"} \cup Queued \cup Terminal

Reads == [exec : Execs, att : Nat, st : Statuses, own : Workers \cup {NoWorker}]

TypeOK ==
    /\ status \in [Jobs -> Statuses]
    /\ attempts \in [Jobs -> Nat]
    /\ owner \in [Jobs -> Workers \cup {NoWorker}]
    /\ prio \in [Jobs -> 1..10]
    /\ due \in [Jobs -> BOOLEAN]
    /\ stale \in [Jobs -> BOOLEAN]
    /\ active \in BOOLEAN
    /\ pc \in [Workers -> {"poll", "claim", "demote", "acquire", "drain", "down"}]
    /\ hand \in [Workers -> Execs \cup {NoExec}]
    /\ tasks \in [Workers -> SUBSET Execs]
    /\ permits \in [Workers -> 0..MaxConcurrency]
    /\ reads \in [Workers -> SUBSET Reads]
    /\ stopping \in [Workers -> BOOLEAN]
    /\ cancelSeen \subseteq Jobs
    /\ faults \in 0..MaxFaults
    /\ disturbed \subseteq Jobs /\ overtaken \subseteq Jobs
    /\ late \in [Workers -> Nat]

\* A job that was neither reclaimed nor cancelled under a live execution has at
\* most one live execution in the whole fleet, whatever crashed, was lost, was
\* reclaimed and claimed again; and while it has one its row is running under
\* that worker and that attempt (claim_job: "prevent two workers from ever
\* claiming the same job").
ExclusiveExecution ==
    \A w \in Workers : \A e \in Held(w) :
        e.job \notin disturbed =>
            /\ status[e.job] = "running"
            /\ owner[e.job] = w
            /\ attempts[e.job] = e.att

\* A finished row is final unless its job was reclaimed or cancelled under a
\* live execution: the writes by id of complete_job, fail_job, the admin's
\* cancel and the backpressure merge never reopen it.
TerminalIsFinal ==
    [][\A j \in Jobs \ disturbed' :
          status[j] \in Terminal => status'[j] = status[j]]_vars

\* The semaphore neither leaks permits nor gives out too many: on every way out
\* of a task (success, failure, a lost report, a drained or dead process) its
\* permit is back, and no task runs twice.
PermitsAccounted ==
    \A w \in Workers :
        /\ permits[w] + Cardinality(tasks[w]) = MaxConcurrency
        /\ hand[w] \notin tasks[w]

\* Two retry limits (the row's, read by reclaim, and the type's, read by
\* fail_job) and two counters of attempts (claim and reclaim) still bound the
\* executions: none starts beyond the larger limit, and a row waiting for its
\* next execution has an attempt left; unless a reclaim came between fail_job's
\* read and its write, and the row went back for a count it had no more.
AttemptsBounded ==
    /\ \A w \in Workers : \A e \in Held(w) :
          e.job \notin overtaken => e.att <= Limit(e.job)
    /\ \A j \in Jobs \ overtaken : /\ attempts[j] <= Limit(j) + 1
                                   /\ status[j] \in Queued => attempts[j] < Limit(j)

\* The kill switch and the shutdown event are read before the claim, in
\* another transaction: a worker claims once more after either at most.
OneLateClaim == \A w \in Workers : late[w] <= 1

\* The queue implements the leases.
Phase == [j \in Jobs |-> IF status[j] \in Queued THEN "open"
                         ELSE IF status[j] = "running" THEN "leased"
                         ELSE IF status[j] \in Terminal THEN "closed"
                         ELSE "absent"]

HoldersOf == [j \in Jobs |->
    UNION {{w} \X {e \in Held(w) : e.job = j} : w \in Workers}]

Leases == INSTANCE LeaseQueue WITH
    Holders <- Workers \X Execs, phase <- Phase, holders <- HoldersOf, tainted <- disturbed

\* Every step of the queue is a step of LeaseQueue or leaves it alone: only a
\* revoked lease or a late withdrawal lets a job be held twice or reopened.
ImplementsLeases == Leases!LSpec

\* A row does not stay running for ever, even with the kill switch off, a
\* worker dead in the middle of the job, or its report lost.
RunningEnds == \A j \in Jobs : status[j] = "running" ~> status[j] # "running"

\* Once the kill switch stays on, every inserted job ends up finished for good.
Settles ==
    <>[]active => \A j \in Jobs :
        status[j] # "absent" ~> [](status[j] \in Terminal)

\* ThinkTank_Specification.md 6.5: a transcription whose worker crashed is
\* returned to the queue.  With an attempt of its limit left, it would be.
FailsWhenSpent ==
    [][\A j \in Jobs :
          status[j] # "failed" /\ status'[j] = "failed" => attempts[j] >= RowMax[j]]_vars
=============================================================================
