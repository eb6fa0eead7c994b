# ThinkTank in TLA+

ThinkTank ingests podcasts, videos and papers of domain experts ("thinkers"),
transcribes what is worth transcribing, discovers and vets new experts with an
LLM, and answers inquiries from the corpus.  Everything it does is a row of one
Postgres table, `jobs`, and a fleet of worker processes that claims those rows.

This directory holds TLA+ models of the system's components, TLC configurations
that check them on small instances, and TLAPS proofs about some of them for
every instance.  Paths below are relative to `src/thinktank/`; `PROJECT.json`
maps every definition to the lines it models.

- [1. The system](#1-the-system)
- [2. The modules](#2-the-modules)
- [3. The runs](#3-the-runs)
- [4. Where code and documents disagree](#4-where-code-and-documents-disagree)
- [5. The proofs](#5-the-proofs)
- [6. What is not modelled](#6-what-is-not-modelled)
- [7. Plan](#7-plan)

## 1. The system

Processes: the read API, the admin app, `worker-cpu` (several replicas),
`worker-gpu`, and a worker on a Mac that takes only the types in its
`WORKER_JOB_TYPES`.  They share nothing but the database, at READ COMMITTED with
sessions that do not expire objects on commit: what a handler read stays in its
memory, and is written back by primary key, however old it is.

| Component | State | Operations | What is hard | What makes it correct |
|---|---|---|---|---|
| Job queue and worker loop (`queue/`, `worker/loop.py`) | `jobs` rows; per worker a semaphore, the task set, a shutdown event | claim, backpressure check, dispatch, complete, fail with backoff, reclaim, cancel, kill switch, drain | replicas claim at once; a worker dies or is slow; reports are lost; writes are by id; two retry limits and two counters | a job runs once at a time unless it was taken away under its execution; finished rows stay finished; permits come back; every job ends |
| Recurring scheduler (`worker/recurring.py`) | `system_config` rows `scheduler_*` | tick in every replica under an advisory lock; save, toggle, run now on the admin page | replicas tick together; the page writes the same rows without the lock | one run per period, no pile-up, a due task is served |
| Content pipeline (`handlers/scan_episodes…`, `rescan_cataloged…`, `enqueue_pending_transcriptions`, `process_content`) | `content.status`, `content_thinkers`, transcription jobs | promote, sweep, transcribe | handlers read, compute, and write by key; sweep counts in three snapshots; reruns | one transcription in flight, done is final, nothing is forgotten |
| Transcription passes (`transcription/`) | temporary audio files, AssemblyAI's transcripts, cost rows | captions, existing transcript, AssemblyAI with an upload fallback, GPU over segments | tools, requests and unlinks fail; a reclaimed execution goes on beside its rerun; a worker dies | audio that an execution knows of is gone when it is over |
| Embedding and authored texts (`handlers/embed_*`, `ingest_*`, `ingestion/text_content.py`) | chunks, unique per content and index; content, unique per URL | chunk, embed, store, sweep; ingest papers and posts | overlap of the per-item and the sweep job; two ingestions of co-authored papers wait for each other | what was found is kept, every text is embedded |
| Candidate discovery, vetting, roster critic (`handlers/expert_search`, `vet_candidate`, `critique_roster`, `scan_for_candidates`; `discovery/`) | `candidate_thinkers`, `roster_critiques` | search, vet, judge, critique, nominate | "the last one to finish" trigger evaluated by executions that do not see each other | every candidate is decided; one critique per area; no feedback loop |
| LLM approval gate (`handlers/llm_approval_check`, `llm/decisions`, `llm/escalation`, `admin/routers/llm_panel`) | `llm_reviews`, approval statuses | ask, apply the verdict, escalate, override | verdicts arrive minutes after their context was read | whoever waits for a verdict has a check, or one that an operator can see ended |
| Thinker and source administration (`admin/routers/thinkers, sources, experts`) | `thinkers`, `sources` | add, import, approve, reject, toggle, resubmit, trigger, refresh | buttons on outdated pages | the page's precondition holds when the click arrives |
| LLM schedules (`llm/scheduled.py`, `worker/loop.py`) | `llm_reviews` | health check, digest, audit in every replica | replicas wake early, late, together, or after a restart | one review per period, no period skipped |
| Inquiries (`handlers/run_inquiry`, `discovery/claim_resolution`) | inquiries, observations, positions | one run, one commit per expert, session lock | a rerun skips when the lock is held; one expert fails | one account per expert; a launched inquiry completes |
| Rate limiter and usage rollup (`queue/rate_limiter.py`, `handlers/rollup_api_usage.py`) | `rate_limit_usage`, `llm_reviews`, `api_usage` | count and record under a lock; add up and purge | the row shares the handler's transaction; the rollup deletes rows the limiter counts | no purge lets the limiter admit more; every row is added up once |
| GPU scaling (`scaling/railway.py`) | each replica's idle timer | scale up and down | the lock moves among replicas, each with its own timer; a tick raises after it has read; a failed call took effect | no shutdown by a replica whose ticks returned having seen work lately; a backlog gets its GPU |
| Feed ingestion (`handlers/fetch_*`, `refresh_due_sources`, `ingestion/`) | sources, content | refresh, fetch, deduplicate, advance the mark | overlapping fetches of one source; entries that appear late, or share a date | no entry is lost but those below what was already read; what is due is fetched |
| Chat agent (`agent/`, `admin/routers/chat.py`) | sessions in memory: history and proposals | stream, use tools, propose, confirm | two tabs, double clicks, a restart in a stream | an action is executed once |
| Configuration, dashboard, API, external clients, GPU service, authentication | – | key-value edits, read-only views, I/O | – | – |

How they meet: the scheduler and the handlers insert job rows; workers claim
them; `process_content` jobs count for backpressure and for GPU scaling; the
kill switch in `system_config` stops claims; the admin's and the chat agent's
buttons insert, cancel and rewrite rows without any lock of the workers; the
approval gate starts discovery and fetches; transcripts start embed jobs.

## 2. The modules

| Module | What it is |
|---|---|
| `JobQueue` | the queue and the worker loop |
| `LeaseQueue` | abstract specification: leases that may be revoked; `JobQueue` implements it |
| `RecurringScheduler` | ticks of all replicas against the scheduler page |
| `ContentPipeline` | an episode from cataloged to transcribed |
| `Transcription` | the passes of one transcription and what they leave on disk |
| `Corpus` | ingestion of papers and posts, embedding, the embedding sweep |
| `CandidateReview` | candidates of one search area, from search to thinker, and the critic |
| `ApprovalGate` | thinkers and sources, their checks, and the operators beside them |
| `Inquiry` | one inquiry under its session lock |
| `StanceMatrix` | abstract specification: cells filled once, with their evidence; `Inquiry` implements it |
| `FeedIngest` | the refresh, the fetches, the high-water mark |
| `GpuScaling` | the scaling loop of every replica |
| `LlmSchedules` | the supervisor's three scheduled reviews |
| `UsageLimits` | the rate limiter's rows, the reviews, and the rollup that adds them up |
| `AgentChat` | the chat's sessions, streams, proposals and confirmations |
| `…Proofs` | theorems, see section 5 |
| `MCJobQueue`, `MCContentPipeline`, `MCCandidateReview`, `MCFeedIngest` | values of the constants for TLC |
| `MCScheduling`, `MCLifecycles`, `MCIntake`, `MCRaces` | several components in one run, see section 3 |

Every definition named `X_Suffix` and commented "Faulty variant" is not part of
the model: it is the body a plausible bug would give to `X`, and `PROJECT.json`
("mutants") says which property then fails.

### JobQueue

One entry of `status`, `attempts`, `owner`, `prio`, `due`, `stale` per row.
`due` and `stale` are the two comparisons with the clock (`scheduled_at`,
`started_at`), so that time is `BecomeDue` and `BecomeStale`.  A worker's main
coroutine is `pc`: poll the kill switch (`Poll`), claim (`Claim`), check
backpressure (`Demote`), take a permit and dispatch (`Dispatch`); its tasks end
with `Complete`, with `FailRead` and `FailWrite`, or with `ReportLost`.  An
execution is named by its job and
the attempt its claim wrote.

- A claim sees rows unlocked: rows another transaction holds are skipped by
  `SKIP LOCKED`, which is the same as claiming before or after it.
- Among equal priorities any row may come first (`scheduled_at` and
  `created_at` only break ties).
- `fail_job` reads the row (`FailRead`, kept in `reads`) and writes it later
  (`FailWrite`).  It chooses between retry and failure by what it read, and the
  ORM leaves a column out of the UPDATE that gets the value it was read with.
  A reclaim in between takes an attempt it does not see: `overtaken` (history)
  collects the rows sent back for a count they had no more.
- The backpressure check is short against backoffs and timeouts: the row in
  hand does not become due or stale during it.
- The retry button copies a row: it is `Enqueue` of another job.
- `disturbed` (history) collects the jobs that were reclaimed or cancelled
  while an execution was alive.  For them the code promises at-least-once.
- `MaxFaults` bounds crashes, shutdowns, failed claims and lost replies.

### LeaseQueue

A job is open, leased or closed, and holders act on leases.  No worker loop, no
attempts, no priorities.  A lease may be revoked under its holder, which taints
the job; only a tainted job can have two holders or be reopened.

### RecurringScheduler

A configuration row is `[enabled, ready, ran]`: hours are abstracted to "due or
not".  A tick takes the transaction lock, looks at each task, and commits
everything at once.  An admin request reads a row and later writes a whole value
back.  No period elapses within a tick or a request (periods are hours).
`unearned` counts scheduled runs since the period last elapsed.

The code loses an admin's "disable" that commits between a tick's read and its
commit.  Nothing in the repository promises otherwise, so this is listed as a
hazard and not as a finding.

### ContentPipeline

Promoters and sweeps keep what they read in `look`, `covered` and `picked`.  A
promoter's look takes one snapshot for all episodes of its batch.  Attributing
one thinker twice collides with the key of `content_thinkers` and rolls the
handler back.  The three statements of the sweep have a snapshot each.  The
transcription passes are one step that succeeds or fails; `Transcription` takes
it apart.  `raced` (history) collects the episodes two handlers decided about at
once.
An episode may start as 'pending' with no job (the backlog that the sweep was
written for).  A reclaimed execution that is still alive is the subject of
`JobQueue` and `Transcription`, and neither it nor copies by the retry button
are repeated here.

### Transcription

One content item, its `process_content` rows (`rows`) and their executions
(`passes`), each execution named by its row and the attempt its claim counted
and at a stage of the chain: captions (channels only), an existing transcript
(sources with a pattern), AssemblyAI (when `transcription_api_enabled`, not for
channels), the GPU.  A row that is reclaimed is claimed again while its slow
execution goes on, and each execution reports to the row by key (`Reports`).
`disk` holds the temporary files with the execution that made them, and an
execution's `files` are those its `finally` knows of: a file only once the tool
that makes it has returned.  A tool that fails leaves nothing, or a partial file
(`ToolFails`); an unlink that raises is logged and the file stays (`CleansUp`).
`orphans` (history) are those partial files, those that could not be unlinked,
and a dead worker's, file by file: the others of the same execution still have
to go.  Long audio is cut into `Segments` that are sent in order; the first that
fails fails the pass.  A text is its method, its segments and the execution it
is of.  `MaxMishaps` bounds lost workers, partial files and failed unlinks;
failures that leave nothing behind are not bounded.

### Corpus

Transcripts become done in some order (`done`, the order of `processed_at`);
papers and posts are rows unique by canonical URL, inserted by transactions of
`ingest_expert_papers` and `ingest_owned_text_source` that see only what is
committed.  `ON CONFLICT DO NOTHING` waits for an uncommitted row of the same
URL (`IngestInserts` is not enabled then), and two transactions that wait for
each other are resolved by the database, which aborts one (`IngestDeadlocks`).
An embed job reads whether there are chunks and commits its own much later; the
unique constraint on (content, index) refuses the second of two.  The sweep
reads the covered texts, then the texts without chunks, oldest first.

### CandidateReview

The rows of the three job types are a bag; done rows leave it.  An execution
goes through `stage`: `gather` or `ask` (the handler's work before its commit),
`flight`, `rows`, `open` (the three counts of `_maybe_enqueue_roster_critique`),
`fire`, `end`.  `vet_candidate` commits its decision before the look; a verdict
looks first and sees its own flushed write, while its row lock keeps others from
updating the candidate (`RowLocked`).  ORM writes leave unchanged columns out,
so a verdict after an operator's decision is equal to the two in sequence.
`doubtful` (history) collects candidates whose verdict was delivered twice or
that an operator decided on an outdated page; for them the code does create a
second thinker.  Scores and evidence are reduced to the outcomes of the gate;
"rejected" stands for the four statuses that take a candidate out.  The `force`
payload is left out since no code inserts it, and so are copies of failed rows by the
retry button, duplicate names (one row per name), and an operator's cancel of a
candidate's pending judge job (`agent/tools.py:384`, `admin/routers/pipeline.py:325`):
after one the candidate waits for a judge that is not there, so
`AwaitingHasJudge` and `Decided` are about crashes, retries and lost reports.

### ApprovalGate

Thinkers and sources with their approval status; `checks` is the bag of open
`llm_approval_check` rows, `payloads` what the retry buttons can copy (a row of
any status, by the agent's; `RetryCheck`), and `dropped` (history) the entities
of which a check failed for good, was cancelled, or was lost after a cancel.  A check reads its entity when it starts and
writes its verdict when the LLM has answered.  Whether the session still holds
the entity it read, or reads it again, depends on Python's garbage collector;
`Answer` takes either, and the ORM does not write what it believes is there.
The chat agent's check carries a payload `llm_approval_check` cannot read
(`wellFormed`).  `work` counts the discovery and ingestion jobs that an approval
starts.  Operators resubmit, approve, reject, override, deactivate, retry and
cancel at any moment, `MaxActs` times.  A cancel removes a check that waits; one
that a worker has claimed since the page read it is overwritten and goes on
(`CancelCheck`), and nothing reclaims its row if that worker is lost
(`CheckLost`).  A check whose row is reclaimed while its worker lives is run
again, as is one whose worker died; the slow execution beside the rerun is the
subject of `JobQueue` and is not repeated here.

### Inquiry

A row of `run_inquiry` and a copy by the retry button; an execution loads the
inquiry, tries the session lock (on a connection of its own), and otherwise
reports done.  With the lock it commits the status, the headline claim and then
one transaction per expert, which deletes what it sees of earlier runs before it
writes.  The lock goes with the execution.  `abandoned` (history): the holder
died or failed after another execution had skipped for it.

### StanceMatrix

The positions and observations of an inquiry as a reader sees them: cells that
are filled one at a time while the inquiry runs, together with the evidence they
rest on, and never change.  No rows, lock, roster or transaction.

### FeedIngest

An entry has a publication date, which others may share, and appears in the feed
on that day or later and in any order; `published_at <= cutoff` is dropped.  An
entry without a date is never cut off, and left out.
`fetches` is the bag of fetch rows with what each execution has read.  The
high-water mark and the cutoff are read at the start and written at the commit,
where the ORM writes only what differs from what was read (`Written`).
`overtaken` (history) collects the entries the filter cannot but drop: those that
appeared after a fetch had read one of the same date or a younger one, and those
not younger than a fetch that found nothing, whose own date is then the cutoff.

### GpuScaling

Each replica's tick takes the advisory lock, reads the depth, then the replica
count over the Railway API, then scales by what it read.  `idleFor` is the
replica's own timer in steps of the clock.  A tick may raise after it has read
the depth (`ScaleRaises`): the loop logs it and keeps the timer it had.  A call
that reports failure may have taken effect.  `sawWork` (history) is how long ago
a tick of each replica last returned having seen a queued row.

### LlmSchedules

Health check, digest and audit have a lock and rows each, so a behaviour is
about one of them.  `wake` is the end of a loop's sleep, computed from the
present moment; a loop may wake `MaxSkew` early or late.  A transaction's
`began` is the review's `created_at`.

### UsageLimits

Time in half hours.  A transaction of a client takes the service's advisory lock
until it ends, counts the rows of the past hour, inserts its own, and calls.
Rows are stamped with the transaction's start (Postgres `NOW()`), so they may
be committed hours late, or never.  `admitted` (history) keeps every committed
row of a call made within an hour of its transaction's start (`soon`), those
that were purged since too; `WithinLimit` is about them.  A rollup adds up the finished hours that
have no entry yet and purges rows older than two hours.  `late` and `overlapped`
(histories) collect what the code does not protect against: rows committed after
their hour's rollup, and two rollups at once.

### AgentChat

Sessions live in the memory of the admin process.  A stream appends to its
session's history while others do; it awaits the API key between its own message
and the copy of the history (`MessagesBuilt`).  `Paired` is what the messages API
accepts of it.  A confirmation pops the proposal before its first `await`.

## 3. The runs

| Run | Instance | Shows |
|---|---|---|
| `queue_safety` | 2 workers with one permit each; a fetch with row limit 2 and type limit 3 (3 and 4 in the code), and a transcription that only waits, for the depth; 2 faults | types, exclusive execution, permits, attempts, late claims, final states |
| `queue_fair` | 1 worker with one permit; 2 jobs: a transcription an operator started (row limit 3, type limit 2, as in the code), which is reclaimed with an attempt left and claimed again while its slow execution holds the permit, and one without a handler (one attempt); 1 fault | rows leave 'running'; jobs settle once the switch stays on; refinement of `LeaseQueue` |
| `content_safety` | 1 episode naming 2 thinkers, scan and rescan, 2 sweeps, 1 fault | one transcription in flight, stored once, done is final, unless raced |
| `scheduling` | tasks: 2 replicas, 2 tasks, 2 admin requests, 1 fault; GPU: 2 replicas, depths below, at and above the threshold, 1 failed call, tick that raises, or restart; reviews: 2 replicas, a day of 4 steps, a week of 2 days, 3 days, skew 1, 1 failure | once per period, no pile-up, due tasks are served; the GPU is shut down only by who saw no work, and comes back for a backlog; one review per period, none skipped |
| `lifecycles` | 1 candidate with 3 tries, 1 fault and 2 clicks; 1 expert, 2 inquiry rows with 2 tries, 1 crash or reclaim; 2 episodes, a sweep whose budget is 1, 1 fault | each ends: decided, complete, transcribed; one thinker per promotion, a judge for who waits for one, refinement of `StanceMatrix` |
| `intake` | feeds: 1 source (podcast or channel) over 3 days with 3 entries, two of one date, 1 forced fetch, 1 change of approval, 2 tries; texts: 2 papers of the same two experts, a transcript without chunks, a budget of 2, 1 fault | no entry and no paper is lost; due feeds are fetched and texts embedded in the end |
| `races` | nominees: a seed, a nominee, a launched critique; approval: 2 thinkers, 1 source, 2 acts, 2 tries; passes: a row with 3 tries, reclaimed and claimed again beside its slow execution, 2 segments, 1 worker lost, partial file or failed unlink; usage: limit 1, 2 clients, 1 reviewer, 2 rollups, 5 half hours; chat: 2 messages, 2 confirmations, 1 restart | nominees trigger no critique; who waits has a check; audio is gone; the purge leaves the limit and the ledger is exact; an action runs once |

The other five runs are counterexamples, see the next section.

Composite runs.  The components of `scheduling`, `lifecycles`, `intake` and
`races` share no variable: what connects them (job rows, configuration) is in
each as far as it matters to it.  Letting them interleave would multiply their
states and show nothing, so each behaviour has a `focus`, chosen in the initial
state, and only that component moves; the others keep one initial state.
`MCLifecycles` takes `ContentPipeline` as an instance, since its variables share
names with those of `CandidateReview`; the others are extended, so that TLC
evaluates their assumptions.  A liveness property or fairness condition is that
of its module with `focus` beside it (`DueTasksServed`, `DueFeedsFetched`,
`EpisodesTranscribed`).

Why the bounds are enough.  Conflicts here are between pairs: two claims, a
zombie and its successor, two promoters, a tick and a request, a vetting and a
verdict, two fetches, two ingestions, two tabs; each run has the two actors, and
the third (reclamation, the sweep, the operator) that can come between.  One
fault is enough for the crash between any two steps; a second one
(`queue_safety` has two) repeats what the retry already does, and the queue's
safety is proved for any number.  `MaxTries` is the real limit wherever it
matters (a candidate needs 3, because reclamation counts a try of its own).
Two instances stay below what their property is about, and the theorems cover
the rest: with two tries `content_safety` does not reach the rerun after a lost
report (three exceed its five minutes; `StoredOnce`), and with one expert
`lifecycles` has no others whom a failing expert could touch (`InquiryRefines`).
Clocks run just long enough for what they can disturb: two day boundaries and
one week boundary for the reviews, a purge (more than four half hours) and two
rollups for usage, a fetch on each of three days for feeds, one step beyond the
idle limit for the GPU.  Counters are bounded by these: no run needs a state
constraint.  Symmetry is used for workers and sweeps in safety runs only.
Deadlock is checked for the queue and the content pipeline, which never stop;
the other components end when their bounded inputs are used up.

Fairness.  `JobQueue!FairSpec`: each worker's main coroutine and reclamation
keep running (they are `while` loops that catch every exception), handlers end
(their HTTP clients have timeouts), clocks advance, the platform restarts a dead
worker.  `RecurringScheduler`: each replica ticks every minute, jobs are claimed
and end, periods elapse.  `GpuScaling`: each replica's tick comes again and gets
the lock at times (strong fairness: another holds it for seconds of every
minutes), and time passes.  `ContentPipeline`, `CandidateReview`, `Inquiry`,
`Corpus` and `FeedIngest` take weak fairness of a row's execution from the first
and of sweeps and refreshes from the second: `FeedFair`, `CorpusFair` and
`InquiryFair` assume that a claimed row is run on, that a dead one's row is
reclaimed, and nothing of one outcome against another, except that an embed
job's service does not fail for ever (`MaxFails`).  Nothing is assumed of
operators, faults, feeds or the kill switch: `Settles` asks for it to stay on.
`ApprovalGate`, `Transcription`, `UsageLimits`, `LlmSchedules` and `AgentChat`
have safety properties only.

## 4. Where code and documents disagree

| Run | What is promised | What the code does |
|---|---|---|
| `queue_reclaim` | a transcription whose worker crashed returns to the queue (`ThinkTank_Specification.md` 6.5) | reclamation counts an attempt that the claim had already counted: of two attempts none is left |
| `content_once` | an episode is promoted once, "cannot double-enqueue" (`scan_episodes_for_thinkers.py`) | two promoters that read it 'cataloged' both enqueue |
| `review_once` | the critic "fires at most once per area, ever" (`vet_candidate.py`) | two looks that overlap both fire |
| `review_settled` | each terminal path looks, or "the critique never auto-fires" (`decisions.py`) | the overturned rejection returns without the look; two overlapping verdicts each see the other's candidate in flight |
| `feed_refresh` | a source's refresh interval is "set by tier at approval" (`ThinkTank_Specification.md` 3.5, 4.3) | nothing but a seed script sets it; NULL is never due, and the source is fetched once |

Met on the way and not stated as properties (each is in the model that names it,
or is why a property there has an exemption):

- `JobQueue`: `get_effective_priority` "restores when depth drops"
  (`queue/backpressure.py:97`), but the demoted priority was persisted and is
  all the check ever sees.  A reclaim between `fail_job`'s read and its write
  lets a row run once beyond its limit (`AttemptsBounded` exempts exactly these
  rows).  The cancel button reads 'pending' and later updates by primary key, so
  it can cancel a running job (`disturbed`).
- `GpuScaling`: `manage_gpu_scaling` says "If queue depth > 0: reset idle timer"
  (`scaling/railway.py:198`), but a tick that raises after it saw the depth
  leaves the loop's timer as it was (`worker/loop.py:406`): the next empty tick
  may scale down although there was work within the limit.
- `ApprovalGate`: `escalate_timed_out_reviews` selects jobs in status
  'awaiting_llm' (`llm/escalation.py:43`), which no job ever has, so nothing is
  escalated, against `docs/operations-runbook.md:248`.  The chat agent's check
  names the thinker where the handler wants the target, and fails.  The override
  panel looks for ids that the LLM's context snapshots do not carry.  A thinker
  whose check an operator cancels goes on waiting (`dropped`).
- `Inquiry`: an execution that loaded the inquiry before another's commit makes
  a second headline claim.  A skip counts as done, so the retry the skip relied
  on is gone when the holder dies (`abandoned`).
- `FeedIngest`: two open fetches of a source abort the whole refresh; the model
  shows that it comes back.  Overlapping fetches may lose an increment of
  `item_count`.  An entry that is listed late, or on the date of one already
  read, is dropped for good by `published_at <= cutoff`
  (`handlers/fetch_podcast_feed.py:162`; `overtaken`).
- `Corpus`: a paper of two experts is attributed to the one ingested first.  A
  title that is ingested under one DOI is skipped under another, although the
  second may be the fuller text.  A transcript that is replaced keeps its old
  chunks.  Texts that yield no chunk are enqueued by every sweep, and as many of
  them as its budget starve the others (the assumption on `Blank`).
- `Transcription`: "guarantees cleanup" (`transcription/audio.py:126`) does not
  hold for files of a tool that failed half way, for a file whose unlink raises,
  nor for a killed worker (`orphans`).  A
  transcript that AssemblyAI completes after its worker died is paid and never
  costed.  A segment that comes back empty is joined silently.
- `UsageLimits`: the limiter counts what is committed since an hour before the
  transaction's start, so that more calls than the limit may be sent in an hour
  (`queue/rate_limiter.py:50`): calls of a handler that fails later are not
  counted, nor are, by a transaction that asks hours after its start, rows that
  were purged meanwhile; a row that commits after its hour's rollup is
  never added up; two overlapping rollups insert an hour twice.
- `AgentChat`: `chat_send` wraps events that are already SSE lines in JSON once
  more, so the page's parser sees no type; a stream that ends between a tool use and
  its result leaves a history the API refuses from then on; a session lost to a
  restart is replaced by one the browser does not learn of; nothing calls
  `cleanup_old`; a failed query leaves the session's transaction aborted.
- Two admin pages save configuration keys that no code reads.

## 5. The proofs

Every theorem holds for all values of the constants that the module's named
assumption admits (`QueueAssumption`, `SchedulerAssumption`, ...: shapes of the
constants, finite sets, positive limits, and where two constants name different
things, that they differ: `PipelineAssumption` has that a promoter is no sweep).

| Module | Theorem | Property |
|---|---|---|
| `JobQueueProofs` | `TypeCorrect` | `TypeOK` |
| | `Exclusive` | `ExclusiveExecution` |
| | `Permits` | `PermitsAccounted` |
| | `Final` | `TerminalIsFinal` |
| | `Attempts` | `AttemptsBounded` |
| | `LateClaims` | `OneLateClaim` |
| | `Refinement` | `ImplementsLeases` |
| `ContentPipelineProofs` | `InFlightOnce`, `StoredOnce`, `DoneForGood`, `PipelineTypes` | `SingleFlight`, `TranscribedOnce`, `DoneIsFinal`, `TypeOK` |
| `SchedulingProofs` (`MCScheduling`) | `ScheduledOnce`, `NeverPilesUp`, `SchedulerTypes` | `OncePerPeriod`, `NoPileUp`, `TypeOK` |
| | `ShutDownOnlyIdle`, `ScalingTypes` | `ShutDownIdle`, `ScalingTypeOK` |
| | `ReviewedOnce`, `EveryPeriodReviewed`, `SuperTypes` | `OneReviewPerPeriod`, `NoPeriodSkipped`, `SuperTypeOK` |
| | `ClocksTypes` | `TypesOK` |
| `LifecyclesProofs` (`MCLifecycles`) | `InquiryRefines`, `MatrixFilled` | `ImplementsMatrix`, of an inquiry and in the composition |
| | `AccountedOnce`, `InquiryTypes` | `OneAccountPerExpert`, `InquiryTypeOK` |
| | `LifecyclesTypes` | `TypesOK` |
| `CandidateReviewProofs` | `PromotedOnce`, `NoneAwaitsNobody`, `NomineesNeverTrigger`, `ReviewTypes` | `RosterConsistent`, `AwaitingHasJudge`, `NomineesDoNotTrigger`, `TypeOK` |
| `IntakeProofs` (`MCIntake`) | `NothingPassedOver`, `FeedTypesHold` | `NoEntryLost`, `FeedTypeOK` |
| | `FoundIsKept`, `CorpusTypesHold` | `FetchedIsKept`, `CorpusTypeOK` |
| | `IntakeTypes` | `TypesOK` |
| `RacesProofs` (`MCRaces`) | `WaitersAreChecked`, `GateTypes` | `WaitingHasCheck`, `GateTypeOK` |
| | `AudioIsGone`, `StoredWhole`, `TextTypes` | `AudioGone`, `BodyWhole`, `TextTypeOK` |
| | `LimitHolds`, `CallsAreCounted`, `UsageTypes` | `WithinLimit`, `EveryCallCounted`, `UsageTypeOK` |
| | `RacesTypes` | `TypesOK` |
| `AgentChatProofs` | `ActionOnce`, `ChatTypes` | `ExecutedOnce`, `ChatTypeOK` |

So every invariant, action property and refinement of a passing run is a theorem.
The module in brackets is the composition that the proof module extends; its
last section proves that the composition keeps the invariants of its components
(`ClocksInvariant`, `LifecyclesInvariant`, `RacesInvariant`).

Each proof follows one plan: an inductive invariant, a theorem or lemma that the
initial states satisfy it (`...InitInv`, `...Initially`), one that every step
keeps it (`...StepInv`: a step per action, under it one per conjunct the action
can disturb), and that it implies the property.  Most of the properties are not
inductive as they stand; what has to be known besides is the argument for the
code's correctness:

- **JobQueue.** An execution that finishes writes by id, so no other execution
  may hold the row.  `IInv` adds `HandShape` (a worker has a job in hand exactly
  between claim and dispatch), `PermitsInv` (the task set is finite and disjoint
  from the hand; free permits plus tasks make the semaphore's size),
  `NewestAttempt` (no live execution is ahead of its row's attempts, hence a new
  claim's name is fresh) and `CheckedRow` (the row under a backpressure check has
  the attempt of the hand and is nobody else's claim).  `AttemptsInv`, `LateInv`
  and `LeaseInv` strengthen it for the last three; `Refinement` maps each action
  to one of `LeaseQueue` or to a stutter (`LeaseStep`).
- **RecurringScheduler.** Only the lock's holder is ticking, and a task it plans
  to enqueue has no unearned run; for the pile, queued jobs, plans and
  operators' requests on their way stay within one bound (`Room`).
- **ContentPipeline.** An episode that no two handlers raced for is `Tidy`: its
  jobs are one execution's, what is stored is done, what handlers have read of
  it is still so, and it was made at most once per fault and once of its own.
- **GpuScaling.** A replica's timer never runs ahead of the time since a tick of
  its own returned having seen work (`TimersTrailWork`): a tick that raises leaves
  both as they were.
- **LlmSchedules.** Who is calling the LLM has found no review of its period, and
  none has come since, because it has the lock (`CallerIsAlone`).  The rest is
  arithmetic about hours, days and guards (`EarlierDay`, `GuardSeparates`).
  That no period is skipped needs the converse: every loop sleeps until this
  period's seven or the next one's (`InTime`), so unless something spoiled the
  period it has its review, is getting it, or has a loop still to wake for it
  (`NoneMissed`).  This proof asked for more than TLC's constants had shown:
  `SupervisionAssumption` now says that two skews after seven are still the same
  day, and that the audit's guard plus a skew is shorter than its week.  Both
  are true of the code (seven of 24 hours; a guard of six days against seven); without
  them a late review could shut out the next period's.
- **CandidateReview.** A candidate has one vetting row and one judge's row at
  most (`RowsSingle`), and where an execution is in its handler says what the
  status can be (`RowsFit`): until the judge's row has decided, the candidate is
  at the judge.  Only operators and redeliveries get between the two, and those
  are `doubtful`.  A nominee's look never passes the count of critiques, since
  nominees exist only once a critique is stored (`NomineeHasCritique`).
- **Inquiry.** Who works has the lock (`WorksUnderLock`), executions have names
  of their own (`Named`), and within the transaction of an expert that expert
  has no position (`WithoutPosition`).  `OneAccountPerExpert` follows (no run
  checks it by itself), and with it the refinement of `StanceMatrix`: a commit is
  one `Fill` because the transaction is one expert's and the inquiry is 'running'
  while anybody works (`CellInv`).
- **ApprovalGate.** `WaitingHasCheck` speaks of any check, but one that read the
  thinker before it was resubmitted may end without touching it.  Inductive is
  that a waiting thinker none of whose checks was cancelled or redelivered
  (`dropped`) has a check which has not read it yet, or has read it waiting
  (`WaitingHasFreshCheck`).
- **Transcription.** Every file on the disk is known to its execution or left
  behind for good, in `orphans` (`FilesKnown`); an execution knows files only
  while a clean-up is ahead of it (`ExecFine`), whether its row was reclaimed
  meanwhile or not.  Files are told apart by the execution that wrote them, so
  the proof needs that a claim's execution is a new one: its number is above
  that of every execution still running (`ExecsClaimed`), and a row in the queue
  has a try left (`RowsMayGo`).  Every segment is on the disk while they are
  sent, so a stored text is of the whole recording (`BodyWhole`, `StoredWhole`;
  no run checks this one).
- **UsageLimits.** The property counts the calls that were admitted, but the
  limiter counts rows, and the rollup purges rows.  The invariant connects the
  two: what was admitted in the last two hours is still a row (`RecentlyThere`),
  so a client that counts within an hour of its transaction's start counts
  everything admitted in its window, and since then nothing came into it, because
  the client has the lock (`LockHeld`, `RoomForHolder`).  Counting rests on the
  cardinality theorems for rows with ids (`IdsFresh`).  For the ledger: what an open rollup is about
  to insert is exact, and it leaves out no hour whose rows it may purge
  (`RollupFaithful`), since it purges hours older than those it adds up.
- **FeedIngest.** Both the columns of a source and what any open fetch has read
  of them pass nothing over (`Trusted`): this is why a fetch that writes back old
  values does no harm.  Several entries may share a day, and one that is listed
  late with a day the mark has reached is `overtaken`; what a fetch has got
  covers everything else that is no younger (`Covers`), and the mark becomes the
  youngest day of it, so the proof needs that a finite set of days has a largest
  one (`Largest`).
- **Corpus.** Open transactions have rows of different URLs, none of them
  committed (`RowsApart`), and whatever one has left behind is there, or its
  title is, or will be when that transaction itself commits (`LeftIsKept`).
- **AgentChat.** A proposal is pending in its own session and taken by nobody, or
  taken by one confirmation (`TakenOnce`); a new proposal's name is new because
  what a stream proposed before lies behind its position (`NamesAreNew`).

`LifecyclesProofs` does not repeat the pipeline's proof.  It takes
`ContentPipelineProofs` as an instance with the values `MCLifecycles` gives its
constants, proves its assumption for them from `LifecyclesAssumption`
(`EpisodesAssumed`; that episodes can be ordered at all is `OrderIsThere`), and
cites the theorems.

Facts about bags are proved where they are needed (`Without`, `With`, ...: what
adding or taking one copy leaves); sums over them are not used: where a count
matters, in `UsageLimits`, the rows have ids and form a set.  Induction over
finite sets is reached through a least counterexample (`WFMin` with the ordering
of finite subsets, in `Largest`), which needs no theorem with an operator
parameter.  The strengthened invariants were checked by TLC on the runs'
instances before they were proved.

Only model-checked:

- everything under fairness (`RunningEnds`, `Settles`, `DueTasksServed`,
  `BacklogGetsGpu`, `Decided`, `InquiryCompletes`, `EpisodesTranscribed`,
  `DueFeedsFetched`, `EmbeddedInTheEnd`), since TLAPS here has neither `ENABLED`
  nor fairness rules;
- the five counterexamples of section 4, which a proof cannot give.

No module declares a RECURSIVE operator.

## 6. What is not modelled

- External services (LLM, search, transcription, feeds, Railway): they answer,
  fail, or fail half way where the code tells the difference.
- Evidence, scores, prompts, context snapshots, texts, prices: reduced to the
  outcomes the code branches on.  Chunking, feed parsing, filters and URL
  normalisation are reduced to which items are considered the same, considered
  at all, or yield anything.
- Claim extraction and resolution: to the rows an inquiry's transaction leaves.
- Read-only pages, the read API, authentication, the configuration editor, the
  external discovery clients, and the inference service on the GPU, which keep
  no state of their own or only do I/O.
- Error categories: they select a message; every one of them retries alike.
- Connection pools and statement timeouts beyond "the reply was lost".
- `scan_for_candidates`' quota: the task is scheduled with an empty payload, for
  which the handler returns before it counts.
- The cost rows of the chat: they are written once per call and read by no code
  with a decision.

Components with status `partly` in `PROJECT.json` name beside it what is left out.

## 7. Plan

Done: the queue with its refinement; the scheduler; the pipeline, its passes and
the corpus; candidates; the gate; inquiries; usage; feeds; GPU; reviews; chat;
a proof of every safety property that a run checks.

Left:

1. A limiter as a bounded window: an abstract specification beside `LeaseQueue`
   and `StanceMatrix`, with the refinement proved.
2. `CandidateReview`: several rows per name.
3. `Inquiry`: claim resolution as rows of its own.
