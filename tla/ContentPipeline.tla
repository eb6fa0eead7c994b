--------------------------- MODULE ContentPipeline ---------------------------
(***************************************************************************)
(* An episode's way from 'cataloged' over 'pending' to 'done': the two     *)
(* handlers that promote it (scan_episodes_for_thinkers,                   *)
(* rescan_cataloged_for_thinker), the sweep that enqueues what was missed  *)
(* (enqueue_pending_transcriptions) and the transcription itself           *)
(* (process_content), as executions that interleave in several workers.    *)
(*                                                                         *)
(* Each handler reads its rows, computes, and writes at one commit by      *)
(* primary key.  What it read is kept in `look`, `covered` or `picked`, and *)
(* may be out of date at the commit.                                       *)
(*                                                                         *)
(* The queue is the one of JobQueue, seen per row: `tries` is jobs.attempts *)
(* and "queued" is pending or retrying.  Handlers may run again after they *)
(* committed: the queue delivers at least once.                            *)
(***************************************************************************)
EXTENDS Integers, Sequences, FiniteSets, SequencesExt

CONSTANTS
    Contents,    \* content rows, already cataloged by a feed fetch
    Thinkers,
    Promoters,   \* executions of scan_episodes or rescan_cataloged
    Rescans,     \* those of them that rescan for one thinker
    Finds,       \* the thinkers a promoter attributes each episode to
    Recent,      \* episodes that the transcription age policy admits
    Discovered,  \* discovered_at, which orders the sweep
    Sweeps,      \* executions of the sweep that can overlap
    Threshold,   \* max_pending_transcriptions
    MaxTries,    \* get_max_attempts("process_content")
    MaxFaults    \* bound on crashes and failed commits

ASSUME PipelineAssumption ==
    /\ IsFiniteSet(Contents)
    /\ Rescans \subseteq Promoters /\ Promoters \cap Sweeps = {}
    /\ Finds \in [Promoters -> [Contents -> SUBSET Thinkers]]
    /\ Recent \subseteq Contents
    /\ Discovered \in [Contents -> Nat]
    /\ Threshold \in Nat /\ MaxTries \in Nat \ {0} /\ MaxFaults \in Nat

VARIABLES
    content,  \* content.status
    attrib,   \* content_thinkers, pairs <<content, thinker>>
    jobs,     \* the process_content rows, in insertion order
    look,     \* a promoter's targets: {} or the episodes it found cataloged
    pcs,      \* where each sweep is
    budget,   \* how many jobs it may insert
    covered,  \* the episodes it found covered by a job
    picked,   \* the episodes it will enqueue
    faults,
    made,     \* history: transcripts stored per episode
    raced     \* history: episodes that two handlers decided about at once

sweepVars == <<pcs, budget, covered, picked>>
vars == <<content, attrib, jobs, look, sweepVars, faults, made, raced>>

Ids == 1..Len(jobs)

InFlight(i) == jobs[i].status \in {"queued", "running"}

\* Rows of the given episodes, pending, as the code inserts them.
NewJobs(S, origin) ==
    SetToSeq({[content |-> c, by |-> origin, status |-> "queued", tries |-> 0,
               was |-> "pending", wrote |-> FALSE] : c \in S})

Seen(p) == {x[1] : x \in look[p]}

\* c is in the hands of another handler, which read it and will write.
Promoting(c, except) == \E p \in Promoters \ {except} : c \in Seen(p)

Sweeping(c, except) ==
    \E s \in Sweeps \ {except} :
        \/ pcs[s] = "covered" /\ c \notin covered[s]
        \/ pcs[s] = "picked" /\ c \in picked[s]

Contested(S, except) == {c \in S : Promoting(c, except) \/ Sweeping(c, except)}

Spend == faults < MaxFaults /\ faults' = faults + 1

-----------------------------------------------------------------------------
(* Promotion.                                                              *)

New(p, c) == {t \in Finds[p][c] : <<c, t>> \notin attrib}

\* Faulty variant: episodes of any status are promoted.
Targets_AnyStatus(p) == {c \in Contents : Finds[p][c] # {}}

\* A rescan leaves out the episodes its thinker is attributed to already.
Targets(p) ==
    {c \in Contents :
        /\ content[c] = "cataloged" /\ Finds[p][c] # {}
        /\ p \in Rescans => New(p, c) = Finds[p][c]}

PromoteLook(p) ==
    /\ look[p] = {} /\ Targets(p) # {}
    /\ look' = [look EXCEPT ![p] = {<<c, New(p, c)>> : c \in Targets(p)}]
    /\ UNCHANGED <<content, attrib, jobs, sweepVars, faults, made, raced>>

Attributions(p) == UNION {{x[1]} \X x[2] : x \in look[p]}

\* The transaction sets the status by primary key and inserts attributions
\* and jobs.  A handler that attributed the same episode to the same thinker
\* since the look makes the primary key of content_thinkers collide.
PromoteCommit(p) ==
    /\ look[p] # {} /\ Attributions(p) \cap attrib = {}
    /\ content' = [c \in Contents |-> IF c \in Seen(p) THEN "pending" ELSE content[c]]
    /\ attrib' = attrib \cup Attributions(p)
    /\ jobs' = jobs \o NewJobs(Seen(p) \cap Recent, "promotion")
    /\ look' = [look EXCEPT ![p] = {}]
    /\ raced' = raced \cup Contested(Seen(p), p)
    /\ UNCHANGED <<sweepVars, faults, made>>

\* The transaction rolls back and the job is retried.
PromoteAbort(p) ==
    /\ look[p] # {}
    /\ IF Attributions(p) \cap attrib # {} THEN UNCHANGED faults ELSE Spend
    /\ look' = [look EXCEPT ![p] = {}]
    /\ UNCHANGED <<content, attrib, jobs, sweepVars, made, raced>>

-----------------------------------------------------------------------------
(* The sweep: four statements, each with a snapshot of its own.            *)

\* Faulty variant: failed and cancelled rows count as queued.
Depth_All == Cardinality({i \in Ids : jobs[i].status # "done"})

Depth == Cardinality({i \in Ids : jobs[i].status = "queued"})

\* Faulty variant: the sweep does not stop at capacity.
SweepDepth_NoStop(s) ==
    /\ pcs[s] = "idle"
    /\ pcs' = [pcs EXCEPT ![s] = "depth"]
    /\ budget' = [budget EXCEPT ![s] = Threshold - Depth]
    /\ UNCHANGED <<content, attrib, jobs, look, covered, picked, faults, made, raced>>

SweepDepth(s) ==
    /\ pcs[s] = "idle" /\ Depth < Threshold
    /\ pcs' = [pcs EXCEPT ![s] = "depth"]
    /\ budget' = [budget EXCEPT ![s] = Threshold - Depth]
    /\ UNCHANGED <<content, attrib, jobs, look, covered, picked, faults, made, raced>>

\* Faulty variant: running rows do not cover their episode.
Covered_Queued == {c \in Contents : \E i \in Ids :
                      jobs[i].content = c /\ jobs[i].status \notin {"running", "done"}}

\* Failed and cancelled rows cover their episode too.
Covered == {c \in Contents : \E i \in Ids : jobs[i].content = c /\ jobs[i].status # "done"}

SweepCovered(s) ==
    /\ pcs[s] = "depth"
    /\ pcs' = [pcs EXCEPT ![s] = "covered"]
    /\ covered' = [covered EXCEPT ![s] = Covered]
    /\ UNCHANGED <<content, attrib, jobs, look, budget, picked, faults, made, raced>>

\* Faulty variant: episodes that are not pending are enqueued too.
Backlog_AnyStatus(s) == {c \in Recent : content[c] # "cataloged" /\ c \notin covered[s]}

Backlog(s) == {c \in Recent : content[c] = "pending" /\ c \notin covered[s]}

\* Oldest discovered first, within the budget.
Picks(s) == {c \in Backlog(s) :
    Cardinality({d \in Backlog(s) : Discovered[d] < Discovered[c]}) < budget[s]}

SweepPick(s) ==
    /\ pcs[s] = "covered"
    /\ pcs' = [pcs EXCEPT ![s] = IF Picks(s) = {} THEN "idle" ELSE "picked"]
    /\ picked' = [picked EXCEPT ![s] = Picks(s)]
    /\ covered' = [covered EXCEPT ![s] = {}]
    /\ budget' = [budget EXCEPT ![s] = 0]
    /\ UNCHANGED <<content, attrib, jobs, look, faults, made, raced>>

SweepCommit(s) ==
    /\ pcs[s] = "picked"
    /\ pcs' = [pcs EXCEPT ![s] = "idle"]
    /\ jobs' = jobs \o NewJobs(picked[s], "sweep")
    /\ picked' = [picked EXCEPT ![s] = {}]
    /\ raced' = raced \cup Contested(picked[s], s)
    /\ UNCHANGED <<content, attrib, look, budget, covered, faults, made>>

-----------------------------------------------------------------------------
(* Transcription jobs.                                                     *)

Update(i, row) == jobs' = [jobs EXCEPT ![i] = row]

\* The execution is over: what its handler had in memory is gone.
Settle(i, s, n) ==
    Update(i, [jobs[i] EXCEPT !.status = s, !.tries = n, !.was = "pending", !.wrote = FALSE])

\* The claim, and the handler's read of the episode.
Start(i) ==
    /\ jobs[i].status = "queued"
    /\ Update(i, [jobs[i] EXCEPT !.status = "running", !.tries = @ + 1,
                                 !.was = content[jobs[i].content], !.wrote = FALSE])
    /\ UNCHANGED <<content, attrib, look, sweepVars, faults, made, raced>>

\* Stores the transcript.  A status that read 'done' is not written again.
Transcribe(i) ==
    /\ jobs[i].status = "running" /\ ~jobs[i].wrote
    /\ content' = IF jobs[i].was = "done" THEN content
                  ELSE [content EXCEPT ![jobs[i].content] = "done"]
    /\ made' = [made EXCEPT ![jobs[i].content] = @ + 1]
    /\ Update(i, [jobs[i] EXCEPT !.wrote = TRUE])
    /\ UNCHANGED <<attrib, look, sweepVars, faults, raced>>

Complete(i) ==
    /\ jobs[i].status = "running" /\ jobs[i].wrote
    /\ Settle(i, "done", jobs[i].tries)
    /\ UNCHANGED <<content, attrib, look, sweepVars, faults, made, raced>>

\* All passes failed, or the source is gone.
Fail(i) ==
    /\ jobs[i].status = "running" /\ ~jobs[i].wrote
    /\ Settle(i, IF jobs[i].tries < MaxTries THEN "queued" ELSE "failed", jobs[i].tries)
    /\ UNCHANGED <<content, attrib, look, sweepVars, faults, made, raced>>

\* The worker dies or its report is lost, before or after the handler's
\* commit; reclamation settles the row and counts a try of its own.
Lost(i) ==
    /\ jobs[i].status = "running" /\ Spend
    /\ Settle(i, IF jobs[i].tries + 1 < MaxTries THEN "queued" ELSE "failed", jobs[i].tries + 1)
    /\ UNCHANGED <<content, attrib, look, sweepVars, made, raced>>

\* An operator cancels a pending row.
Cancel(i) ==
    /\ jobs[i].status = "queued" /\ jobs[i].tries = 0
    /\ Update(i, [jobs[i] EXCEPT !.status = "cancelled"])
    /\ UNCHANGED <<content, attrib, look, sweepVars, faults, made, raced>>

-----------------------------------------------------------------------------

\* Episodes are cataloged, or left pending without a job by older code.
Init ==
    /\ content \in [Contents -> {"cataloged", "pending"}]
    /\ attrib = {}
    /\ jobs = <<>>
    /\ look = [p \in Promoters |-> {}]
    /\ pcs = [s \in Sweeps |-> "idle"]
    /\ budget = [s \in Sweeps |-> 0]
    /\ covered = [s \in Sweeps |-> {}]
    /\ picked = [s \in Sweeps |-> {}]
    /\ faults = 0
    /\ made = [c \in Contents |-> 0]
    /\ raced = {}

Promote(p) == PromoteLook(p) \/ PromoteCommit(p) \/ PromoteAbort(p)

Sweep(s) == SweepDepth(s) \/ SweepCovered(s) \/ SweepPick(s) \/ SweepCommit(s)

Handle(i) == Start(i) \/ Transcribe(i) \/ Complete(i) \/ Fail(i)

Next ==
    \/ \E p \in Promoters : Promote(p)
    \/ \E s \in Sweeps : Sweep(s)
    \/ \E i \in Ids : Handle(i) \/ Lost(i) \/ Cancel(i)

Spec == Init /\ [][Next]_vars

\* Handlers and sweeps keep running: JobQueue's fairness, and the recurring
\* scheduler's for the sweep.
FairSpec ==
    /\ Spec
    /\ \A p \in Promoters : WF_vars(Promote(p))
    /\ \A s \in Sweeps : WF_vars(Sweep(s))
    /\ \A c \in Contents : WF_vars(\E i \in Ids : jobs[i].content = c /\ Handle(i))

-----------------------------------------------------------------------------
(* Properties.                                                             *)

TypeOK ==
    /\ content \in [Contents -> {"cataloged", "pending", "done"}]
    /\ attrib \subseteq Contents \X Thinkers
    /\ jobs \in Seq([content : Contents, by : {"promotion", "sweep"},
                     status : {"queued", "running", "done", "failed", "cancelled"},
                     tries : 0..(MaxTries + 1), was : {"cataloged", "pending", "done"},
                     wrote : BOOLEAN])
    /\ look \in [Promoters -> SUBSET (Contents \X SUBSET Thinkers)]
    /\ pcs \in [Sweeps -> {"idle", "depth", "covered", "picked"}]
    /\ budget \in [Sweeps -> 0..Threshold]
    /\ covered \in [Sweeps -> SUBSET Contents]
    /\ picked \in [Sweeps -> SUBSET Contents]
    /\ faults \in 0..MaxFaults
    /\ made \in [Contents -> Nat]
    /\ raced \subseteq Contents

\* Unless two handlers decided about an episode at once, at most one of its
\* transcription jobs is in flight: retries, reruns of handlers that already
\* committed, later sweeps and reclaimed rows never add a second.
SingleFlight ==
    \A c \in Contents \ raced : \A i, k \in Ids :
        /\ jobs[i].content = c /\ jobs[k].content = c
        /\ InFlight(i) /\ InFlight(k)
        => i = k

\* Unless two handlers decided about it at once, an episode is transcribed a
\* second time only when a crash cost the first one's report.
TranscribedOnce == \A c \in Contents \ raced : made[c] <= 1 + faults

\* A finished transcript is never sent back, unless two handlers decided about
\* the episode at once.
DoneIsFinal ==
    [][\A c \in Contents \ raced' : content[c] = "done" => content'[c] = "done"]_vars

\* A promoted episode within the age policy is transcribed in the end, or has
\* a job that an operator stopped or that failed for good.
TranscribedInTheEnd ==
    \A c \in Recent :
        content[c] = "pending" ~>
            \/ content[c] = "done"
            \/ \E i \in Ids : jobs[i].content = c /\ jobs[i].status \in {"failed", "cancelled"}

\* scan_episodes_for_thinkers.py: each episode is promoted from 'cataloged'
\* exactly once, "so this cannot double-enqueue".
EnqueuedByPromotionOnce ==
    \A i, k \in Ids :
        /\ jobs[i].by = "promotion" /\ jobs[k].by = "promotion"
        /\ jobs[i].content = jobs[k].content
        => i = k
=============================================================================
