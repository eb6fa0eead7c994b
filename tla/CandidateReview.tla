--------------------------- MODULE CandidateReview ---------------------------
(***************************************************************************)
(* Expert discovery in one search area: candidates are seeded              *)
(* (expert_search), vetted (vet_candidate), judged by the LLM              *)
(* (llm_approval_check) or by an operator on the Experts page, and when    *)
(* the area has settled the roster critic (critique_roster) nominates      *)
(* names that are missing, which are vetted in turn.                       *)
(*                                                                         *)
(* Vetting commits its decision and then looks whether to enqueue the      *)
(* critic; a verdict looks first, within the transaction of the decision.  *)
(* The look is three counts, each with a snapshot of its own.              *)
(*                                                                         *)
(* "rejected" stands for the statuses that take a candidate out: rejected, *)
(* auto_rejected, rejected_duplicate and needs_more_data.  The queue is    *)
(* the one of JobQueue, seen per row, and delivers at least once; rows     *)
(* that are done are left out, since nothing reads them.                   *)
(***************************************************************************)
EXTENDS Integers, Sequences, FiniteSets, Bags

CONSTANTS
    Seeds,      \* names a search of the area can find
    Nominees,   \* names the critic can find missing
    NoCand,     \* the area itself: a critic that an operator launched
    MaxTries,   \* get_max_attempts of the three job types
    MaxFaults,  \* bound on crashes and lost reports
    MaxClicks,  \* bound on what operators decide
    MaxLaunches \* bound on critiques that operators launch

Candidates == Seeds \cup Nominees

ASSUME ReviewAssumption ==
    /\ IsFiniteSet(Candidates) /\ Seeds \cap Nominees = {}
    /\ NoCand \notin Candidates
    /\ MaxTries \in Nat \ {0} /\ MaxFaults \in Nat /\ MaxClicks \in Nat /\ MaxLaunches \in Nat

VARIABLES
    status,     \* candidate_thinkers.status
    thinkers,   \* thinkers created from each candidate
    jobs,       \* the open and failed rows of the three job types, a bag
    fired,      \* history: whose look enqueued the critic, in order
    critiques,  \* roster_critiques rows of the area
    offered,    \* candidates for which an open Experts page shows buttons
    faults,
    clicks,
    launches,
    doubtful    \* history: candidates whose verdict was delivered again, or
                \* decided by an operator on an outdated page

vars == <<status, thinkers, jobs, fired, critiques, offered, faults, clicks, launches, doubtful>>

Rows == BagToSet(jobs)

NewJob(kind, c) == [kind |-> kind, cand |-> c, state |-> "queued", tries |-> 0,
                    stage |-> "none", verdict |-> "none"]

\* The rows after j became k and others were inserted.
Changed(j, k, new) ==
    (jobs (-) SetToBag({j})) (+) SetToBag({k}) (+) SetToBag(new)

At(j, kind, stage) == j.state = "running" /\ j.kind = kind /\ j.stage = stage

Spend == faults < MaxFaults /\ faults' = faults + 1

-----------------------------------------------------------------------------
(* Seeding: a candidate and its vetting job, for names nobody has yet.     *)

Inserted(S) ==
    /\ status' = [c \in Candidates |-> IF c \in S THEN "vetting" ELSE status[c]]
    /\ jobs' = jobs (+) SetToBag({NewJob("vet", c) : c \in S})

ExpertSearch ==
    /\ \E S \in SUBSET {c \in Seeds : status[c] = "absent"} : S # {} /\ Inserted(S)
    /\ UNCHANGED <<thinkers, fired, critiques, offered, faults, clicks, launches, doubtful>>

-----------------------------------------------------------------------------
(* The claim, with the handler's first read.                               *)

\* Faulty variant: a candidate that was decided is vetted again.
FirstStage_NoSkip(j) == IF j.kind = "vet" THEN "gather" ELSE "ask"

\* Faulty variant: a job that is tried again does nothing.
FirstStage_Once(j) ==
    IF j.tries > 0 THEN "end" ELSE IF j.kind = "vet" THEN "gather" ELSE "ask"

\* A candidate that left 'vetting' is skipped.
FirstStage(j) ==
    IF j.kind # "vet" THEN "ask"
    ELSE IF status[j.cand] = "vetting" THEN "gather" ELSE "end"

Start(j) ==
    /\ j.state = "queued"
    /\ jobs' = Changed(j, [j EXCEPT !.state = "running", !.tries = @ + 1,
                                !.stage = FirstStage(j)], {})
    /\ UNCHANGED <<status, thinkers, fired, critiques, offered, faults, clicks, launches, doubtful>>

-----------------------------------------------------------------------------
(* vet_candidate: evidence, gate, commit; then the look.                   *)

\* Auto-rejected, or borderline: no LLM call.
VetSettled(j) ==
    /\ At(j, "vet", "gather")
    /\ \E s \in {"rejected", "pending_human"} :
          status' = [status EXCEPT ![j.cand] = s]
    /\ jobs' = Changed(j, [j EXCEPT !.stage = "flight"], {})
    /\ UNCHANGED <<thinkers, fired, critiques, offered, faults, clicks, launches, doubtful>>

\* The adjudicator overturns a rejection: returns without the look.
VetOverturned(j) ==
    /\ At(j, "vet", "gather")
    /\ status' = [status EXCEPT ![j.cand] = "pending_human"]
    /\ jobs' = Changed(j, [j EXCEPT !.stage = "end"], {})
    /\ UNCHANGED <<thinkers, fired, critiques, offered, faults, clicks, launches, doubtful>>

\* Faulty variant: the judge's job is inserted by the first try only.
VetShortlisted_FirstTry(j) ==
    /\ At(j, "vet", "gather")
    /\ status' = [status EXCEPT ![j.cand] = "awaiting_llm"]
    /\ jobs' = Changed(j, [j EXCEPT !.stage = "flight"],
               IF j.tries = 1 THEN {NewJob("judge", j.cand)} ELSE {})
    /\ UNCHANGED <<thinkers, fired, critiques, offered, faults, clicks, launches, doubtful>>

\* Shortlisted, practitioner or rescued: the judge decides.
VetShortlisted(j) ==
    /\ At(j, "vet", "gather")
    /\ status' = [status EXCEPT ![j.cand] = "awaiting_llm"]
    /\ jobs' = Changed(j, [j EXCEPT !.stage = "flight"], {NewJob("judge", j.cand)})
    /\ UNCHANGED <<thinkers, fired, critiques, offered, faults, clicks, launches, doubtful>>

-----------------------------------------------------------------------------
(* llm_approval_check of a candidate: the verdict is flushed, the look     *)
(* sees it, and the first commit after the look makes it visible.          *)

\* The flushed verdict locks the candidate's row: who else would update it waits.
RowLocked(c) ==
    \E j \in Rows :
        j.kind = "judge" /\ j.cand = c /\ j.stage \in {"flight", "rows", "open", "fire"}

JudgeAnswers(j) ==
    /\ At(j, "judge", "ask") /\ ~RowLocked(j.cand)
    /\ \E v \in {"promoted", "rejected", "pending_human"} :
          jobs' = Changed(j, [j EXCEPT !.stage = "flight", !.verdict = v], {})
    /\ UNCHANGED <<status, thinkers, fired, critiques, offered, faults, clicks, launches, doubtful>>

\* apply_candidate_decision asks nothing of the candidate's status, and
\* promote_candidate_to_thinker finds a free slug for every thinker.
Decide(c, v) ==
    /\ status' = [status EXCEPT ![c] = v]
    /\ thinkers' = [thinkers EXCEPT ![c] = IF v = "promoted" THEN @ + 1 ELSE @]

\* What the execution has in its transaction when the look is over.
Settle(j) ==
    IF j.kind = "judge" THEN Decide(j.cand, j.verdict)
    ELSE UNCHANGED <<status, thinkers>>

-----------------------------------------------------------------------------
(* _maybe_enqueue_roster_critique.                                         *)

\* Candidates the execution sees in flight; a verdict sees its own write.
InFlight(j) ==
    {c \in Candidates : status[c] \in {"vetting", "awaiting_llm"}}
        \ (IF j.kind = "judge" THEN {j.cand} ELSE {})

OpenCritic == \E k \in Rows : k.kind = "critic" /\ k.state \in {"queued", "running"}

\* Faulty variant: earlier critiques do not count.
Passes_NoRow(j) ==
    \/ j.stage = "flight" /\ InFlight(j) = {}
    \/ j.stage = "rows"
    \/ j.stage = "open" /\ ~OpenCritic

\* The count at this stage is zero.
Passes(j) ==
    \/ j.stage = "flight" /\ InFlight(j) = {}
    \/ j.stage = "rows" /\ critiques = 0
    \/ j.stage = "open" /\ ~OpenCritic

NextStage == [flight |-> "rows", rows |-> "open", open |-> "fire"]

Looking(j) == j.state = "running" /\ j.stage \in DOMAIN NextStage

LookOn(j) ==
    /\ Looking(j) /\ Passes(j)
    /\ jobs' = Changed(j, [j EXCEPT !.stage = NextStage[j.stage]], {})
    /\ UNCHANGED <<status, thinkers, fired, critiques, offered, faults, clicks, launches, doubtful>>

LookEnds(j) ==
    /\ Looking(j) /\ ~Passes(j)
    /\ Settle(j)
    /\ jobs' = Changed(j, [j EXCEPT !.stage = "end"], {})
    /\ UNCHANGED <<fired, critiques, offered, faults, clicks, launches, doubtful>>

Fire(j) ==
    /\ j.state = "running" /\ j.stage = "fire"
    /\ Settle(j)
    /\ jobs' = Changed(j, [j EXCEPT !.stage = "end"], {NewJob("critic", j.cand)})
    /\ fired' = Append(fired, j.cand)
    /\ UNCHANGED <<critiques, offered, faults, clicks, launches, doubtful>>

\* critique_roster: nominees and the critique's row at one commit.
Critique(j) ==
    /\ At(j, "critic", "ask")
    /\ \E S \in SUBSET {c \in Nominees : status[c] = "absent"} :
          /\ status' = [c \in Candidates |-> IF c \in S THEN "vetting" ELSE status[c]]
          /\ jobs' = Changed(j, [j EXCEPT !.stage = "end"], {NewJob("vet", c) : c \in S})
    /\ critiques' = critiques + 1
    /\ UNCHANGED <<thinkers, fired, offered, faults, clicks, launches, doubtful>>

-----------------------------------------------------------------------------
(* How executions end.                                                     *)

Ended(j, s, n) == 
    Changed(j, [j EXCEPT !.state = s, !.tries = n, !.stage = "none", !.verdict = "none"], {})

Complete(j) ==
    /\ j.state = "running" /\ j.stage = "end"
    /\ jobs' = jobs (-) SetToBag({j})
    /\ UNCHANGED <<status, thinkers, fired, critiques, offered, faults, clicks, launches, doubtful>>

\* A client or the LLM raises before anything was committed.
Fail(j) ==
    /\ j.state = "running" /\ j.stage \in {"gather", "ask"}
    /\ jobs' = Ended(j, IF j.tries < MaxTries THEN "queued" ELSE "failed", j.tries)
    /\ UNCHANGED <<status, thinkers, fired, critiques, offered, faults, clicks, launches, doubtful>>

\* Faulty variant: reclamation does not count tries against the limit.
Lost_NoLimit(j) ==
    /\ j.state = "running" /\ Spend
    /\ jobs' = Ended(j, "queued", j.tries + 1)
    /\ doubtful' = IF At(j, "judge", "end") THEN doubtful \cup {j.cand} ELSE doubtful
    /\ UNCHANGED <<status, thinkers, fired, critiques, offered, clicks, launches>>

\* The worker dies, or its report is lost; reclamation settles the row.  A
\* verdict that was committed is then given again.
Lost(j) ==
    /\ j.state = "running" /\ Spend
    /\ jobs' = Ended(j, IF j.tries + 1 < MaxTries THEN "queued" ELSE "failed",
                     j.tries + 1)
    /\ doubtful' = IF At(j, "judge", "end") THEN doubtful \cup {j.cand} ELSE doubtful
    /\ UNCHANGED <<status, thinkers, fired, critiques, offered, clicks, launches>>

-----------------------------------------------------------------------------
(* Operators.                                                              *)

\* A page that no click follows is of no consequence.
LoadPage ==
    /\ clicks < MaxClicks
    /\ offered' = {c \in Candidates : status[c] = "pending_human"}
    /\ offered' # offered
    /\ UNCHANGED <<status, thinkers, jobs, fired, critiques, faults, clicks, launches, doubtful>>

\* The page's promote and reject buttons ask nothing of the status either.
HumanDecides(c) ==
    /\ c \in offered /\ ~RowLocked(c)
    /\ clicks < MaxClicks /\ clicks' = clicks + 1
    /\ \E v \in {"promoted", "rejected"} : Decide(c, v)
    /\ doubtful' = IF status[c] = "pending_human" THEN doubtful ELSE doubtful \cup {c}
    /\ UNCHANGED <<jobs, fired, critiques, offered, faults, launches>>

LaunchCritique ==
    /\ \E c \in Candidates : status[c] # "absent"
    /\ launches < MaxLaunches /\ launches' = launches + 1
    /\ jobs' = jobs (+) SetToBag({NewJob("critic", NoCand)})
    /\ UNCHANGED <<status, thinkers, fired, critiques, offered, faults, clicks, doubtful>>

-----------------------------------------------------------------------------

Init ==
    /\ status = [c \in Candidates |-> "absent"]
    /\ thinkers = [c \in Candidates |-> 0]
    /\ jobs = EmptyBag /\ fired = <<>>
    /\ critiques = 0
    /\ offered = {}
    /\ faults = 0 /\ clicks = 0 /\ launches = 0
    /\ doubtful = {}

Handle(j) ==
    \/ Start(j)
    \/ VetSettled(j) \/ VetOverturned(j) \/ VetShortlisted(j)
    \/ JudgeAnswers(j)
    \/ LookOn(j) \/ LookEnds(j) \/ Fire(j)
    \/ Critique(j)
    \/ Complete(j) \/ Fail(j)

Next ==
    \/ ExpertSearch
    \/ \E j \in Rows : Handle(j) \/ Lost(j)
    \/ LoadPage
    \/ \E c \in Candidates : HumanDecides(c)
    \/ LaunchCritique

Spec == Init /\ [][Next]_vars

\* Jobs are claimed, retried and end: JobQueue's fairness.  Nothing is assumed
\* of searches, faults or operators.
FairSpec ==
    /\ Spec
    /\ \A c \in Candidates \cup {NoCand} : \A kind \in {"vet", "judge", "critic"} :
          WF_vars(\E j \in Rows : j.cand = c /\ j.kind = kind /\ Handle(j))

-----------------------------------------------------------------------------
(* Properties.                                                             *)

Stages == {"none", "gather", "ask", "flight", "rows", "open", "fire", "end"}

JobRows == [kind : {"vet", "judge", "critic"}, cand : Candidates \cup {NoCand},
            state : {"queued", "running", "failed"},
            tries : 0..(MaxTries + 1), stage : Stages,
            verdict : {"none", "promoted", "rejected", "pending_human"}]

TypeOK ==
    /\ status \in [Candidates -> {"absent", "vetting", "awaiting_llm", "pending_human",
                                  "promoted", "rejected"}]
    /\ thinkers \in [Candidates -> Nat]
    /\ IsABag(jobs) /\ Rows \subseteq JobRows
    /\ fired \in Seq(Candidates)
    /\ critiques \in Nat
    /\ offered \subseteq Candidates
    /\ faults \in 0..MaxFaults /\ clicks \in 0..MaxClicks
    /\ launches \in 0..MaxLaunches
    /\ doubtful \subseteq Candidates

\* A candidate is promoted exactly when one thinker was made from it, unless
\* its verdict was delivered twice or an operator used an outdated page:
\* vetting jobs that run again, before or after their commit, change nothing.
RosterConsistent ==
    \A c \in Candidates \ doubtful :
        thinkers[c] = IF status[c] = "promoted" THEN 1 ELSE 0

\* A candidate at the judge has a judge's job that will run, runs, or failed
\* for good, whatever crashed between the two: none waits for nobody.
AwaitingHasJudge ==
    \A c \in Candidates :
        status[c] = "awaiting_llm" =>
            \E j \in Rows : j.kind = "judge" /\ j.cand = c

\* The critic's own nominees never trigger it again (vet_candidate.py: "the
\* critic's own nominees would re-trigger it when THEIR vetting completes").
NomineesDoNotTrigger == \A j \in DOMAIN fired : fired[j] \notin Nominees

\* Every candidate leaves the pipeline, by the gate's decision, the judge's or
\* for the operators' page, unless a job of its own failed for good.
Decided ==
    \A c \in Candidates :
        status[c] \in {"vetting", "awaiting_llm"} ~>
            \/ status[c] \notin {"vetting", "awaiting_llm"}
            \/ \E j \in Rows : j.cand = c /\ j.state = "failed"

\* vet_candidate.py: the critique "fires at most once per area, ever".
FiresOnce == Len(fired) <= 1

Settled ==
    /\ \E c \in Candidates : status[c] # "absent"
    /\ \A c \in Candidates : status[c] \notin {"vetting", "awaiting_llm"}

\* decisions.py: without the judge's look "the critique never auto-fires"; with
\* it, an area that has settled gets its critic.
SettledIsCritiqued == Settled ~> ~Settled \/ fired # <<>>
=============================================================================
