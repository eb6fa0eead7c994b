------------------------------- MODULE Inquiry -------------------------------
(***************************************************************************)
(* One inquiry: run_inquiry under the session lock of the inquiry, one     *)
(* transaction per expert, skipped when another execution holds the lock.  *)
(* A reclaimed job runs again while its first execution may still be       *)
(* alive; an operator may enqueue a copy of the job.                       *)
(***************************************************************************)
EXTENDS Integers, FiniteSets

CONSTANTS
    Experts,      \* the vetted thinkers of the area
    InquiryRows,  \* the run_inquiry rows: the launch and the retry buttons' copies
    NoHolder,
    InquiryTries, \* get_max_attempts("run_inquiry")
    MaxCrashes    \* bound on crashes and reclaims

ASSUME InquiryAssumption ==
    /\ IsFiniteSet(Experts) /\ IsFiniteSet(InquiryRows) /\ NoHolder \notin InquiryRows
    /\ InquiryTries \in Nat \ {0} /\ MaxCrashes \in Nat

VARIABLES
    inquiry,      \* inquiries.status
    headlines,    \* headline claims created for it
    position,     \* inquiry_positions: the execution each was resolved by
    observations, \* claim_observations: the executions that stored some, per expert
    rows,         \* the jobs: state and attempts
    runs,         \* the executions alive
    holder,       \* who holds the session lock
    crashes,
    skipped,      \* history: an execution skipped for the present holder
    abandoned     \* history: a holder died or failed after another execution skipped for it

inquiryVars == <<inquiry, headlines, position, observations, rows, runs, holder, crashes, skipped, abandoned>>

Free == <<NoHolder, 0>>

\* An execution is named by its row and the attempt.
Run(r, n) == [row |-> r, try |-> n, stage |-> "loaded", headline |-> headlines > 0, todo |-> {}, cur |-> {}, seen |-> {}]
Name(x) == <<x.row, x.try>>

RunBecomes(x, y) == (runs \ {x}) \cup {y}

SpendCrash == crashes < MaxCrashes /\ crashes' = crashes + 1

-----------------------------------------------------------------------------
\* The Inquiries page, and later the retry button.
LaunchInquiry(r) ==
    /\ rows[r].state = "absent"
    /\ rows' = [rows EXCEPT ![r].state = "queued"]
    /\ inquiry' = IF inquiry = "absent" THEN "pending" ELSE inquiry
    /\ UNCHANGED <<headlines, position, observations, runs, holder, crashes, skipped, abandoned>>

\* pg_try_advisory_lock, on a connection of its own.
Acquires(r) == holder = Free

\* The claim, and the inquiry as the execution goes on to know it.
RunLoads(r) ==
    /\ rows[r].state = "queued"
    /\ rows' = [rows EXCEPT ![r].state = "running", ![r].tries = @ + 1]
    /\ runs' = runs \cup {Run(r, rows[r].tries + 1)}
    /\ UNCHANGED <<inquiry, headlines, position, observations, holder, crashes, skipped, abandoned>>

\* The lock, on another connection; without it the handler returns.
RunBegins(x) ==
    /\ x.stage = "loaded"
    /\ IF Acquires(x.row)
       THEN /\ runs' = RunBecomes(x, [x EXCEPT !.stage = "headline"])
            /\ holder' = Name(x) /\ inquiry' = "running" /\ skipped' = FALSE
       ELSE /\ runs' = RunBecomes(x, [x EXCEPT !.stage = "end"])
            /\ skipped' = TRUE /\ UNCHANGED <<holder, inquiry>>
    /\ UNCHANGED <<headlines, position, observations, rows, crashes, abandoned>>

\* The proposition, unless the inquiry as loaded has one; then the roster.  A
\* run that loaded it before another's commit makes a second headline.
RunResolves(x) ==
    /\ x.stage = "headline"
    /\ headlines' = IF x.headline THEN headlines ELSE headlines + 1
    /\ runs' = RunBecomes(x, [x EXCEPT !.stage = "roster"])
    /\ UNCHANGED <<inquiry, position, observations, rows, holder, crashes, skipped, abandoned>>

RunReadsRoster(x) ==
    /\ x.stage = "roster"
    /\ \E roster \in SUBSET Experts : runs' = RunBecomes(x, [x EXCEPT !.stage = "experts", !.todo = roster])
    /\ UNCHANGED <<inquiry, headlines, position, observations, rows, holder, crashes, skipped, abandoned>>

\* An expert with a position is complete.
ExpertDone(x, e) ==
    /\ x.stage = "experts" /\ e \in x.todo /\ position[e] # Free
    /\ runs' = RunBecomes(x, [x EXCEPT !.todo = x.todo \ {e}])
    /\ UNCHANGED <<inquiry, headlines, position, observations, rows, holder, crashes, skipped, abandoned>>

\* The transaction of an expert opens with the delete of what it sees of
\* earlier runs, and holds the lanes and the position.
ExpertBegins(x, e) ==
    /\ x.stage = "experts" /\ e \in x.todo /\ position[e] = Free
    /\ runs' = RunBecomes(x, [x EXCEPT !.stage = "lanes", !.cur = {e}, !.seen = observations[e]])
    /\ UNCHANGED <<inquiry, headlines, position, observations, rows, holder, crashes, skipped, abandoned>>

\* Both lanes, the position and the commit.
ExpertCommits(x) ==
    /\ x.stage = "lanes"
    /\ observations' = [e \in Experts |->
          IF e \in x.cur THEN (observations[e] \ x.seen) \cup {Name(x)} ELSE observations[e]]
    /\ position' = [e \in Experts |-> IF e \in x.cur THEN Name(x) ELSE position[e]]
    /\ runs' = RunBecomes(x, [x EXCEPT !.stage = "experts", !.todo = x.todo \ x.cur, !.cur = {}, !.seen = {}])
    /\ UNCHANGED <<inquiry, headlines, rows, holder, crashes, skipped, abandoned>>

\* Faulty variant: the next commit takes the failed expert's half with it.
ExpertFails_NoRollback(x) ==
    /\ x.stage = "lanes"
    /\ observations' = [e \in Experts |-> observations[e] \cup (IF e \in x.cur THEN {Name(x)} ELSE {})]
    /\ runs' = RunBecomes(x, [x EXCEPT !.stage = "experts", !.todo = x.todo \ x.cur, !.cur = {}, !.seen = {}])
    /\ UNCHANGED <<inquiry, headlines, position, rows, holder, crashes, skipped, abandoned>>

\* Rolled back, logged, and on to the next expert.
ExpertFails(x) ==
    /\ x.stage = "lanes"
    /\ runs' = RunBecomes(x, [x EXCEPT !.stage = "experts", !.todo = x.todo \ x.cur, !.cur = {}, !.seen = {}])
    /\ UNCHANGED <<inquiry, headlines, position, observations, rows, holder, crashes, skipped, abandoned>>

Unlocked(x) == IF holder = Name(x) THEN Free ELSE holder

\* Nobody is left: the status, and the lock.  An empty roster ends here too.
RunCompletes(x) ==
    /\ x.stage = "experts" /\ x.todo = {}
    /\ inquiry' = "complete" /\ holder' = Unlocked(x)
    /\ runs' = RunBecomes(x, [x EXCEPT !.stage = "end"])
    /\ UNCHANGED <<headlines, position, observations, rows, crashes, skipped, abandoned>>

\* complete_job, by the id of the row.
RunReports(x) ==
    /\ x.stage = "end"
    /\ rows' = [rows EXCEPT ![x.row].state = "done"]
    /\ runs' = runs \ {x}
    /\ UNCHANGED <<inquiry, headlines, position, observations, holder, crashes, skipped, abandoned>>

Again(r) == IF rows[r].tries < InquiryTries THEN "queued" ELSE "failed"

\* Faulty variant: the exception passes the unlock by.
RunFails_KeepsLock(x) ==
    /\ x.stage \in {"headline", "roster"}
    /\ rows' = [rows EXCEPT ![x.row].state = Again(x.row)]
    /\ runs' = runs \ {x}
    /\ UNCHANGED <<inquiry, headlines, position, observations, holder, crashes, skipped, abandoned>>

\* The proposition or the question's embedding fails: the lock's block is
\* left and fail_job writes the row by id.
RunFails(x) ==
    /\ x.stage \in {"headline", "roster"}
    /\ rows' = [rows EXCEPT ![x.row].state = Again(x.row)]
    /\ runs' = runs \ {x} /\ holder' = Unlocked(x)
    /\ abandoned' = (abandoned \/ skipped)
    /\ UNCHANGED <<inquiry, headlines, position, observations, crashes, skipped>>

\* The worker dies; its connections close and the lock goes with them.
RunDies(x) ==
    /\ SpendCrash
    /\ runs' = runs \ {x} /\ holder' = Unlocked(x)
    /\ abandoned' = (abandoned \/ (holder = Name(x) /\ skipped))
    /\ UNCHANGED <<inquiry, headlines, position, observations, rows, skipped>>

Reclaimed(r) ==
    /\ rows' = [rows EXCEPT ![r].state = Again(r)]
    /\ UNCHANGED <<inquiry, headlines, position, observations, runs, holder, skipped, abandoned>>

\* A row whose execution is gone is reclaimed in the end; one that is slow may be.
ReclaimDead(r) ==
    /\ rows[r].state = "running" /\ ~\E x \in runs : x.row = r
    /\ Reclaimed(r) /\ UNCHANGED crashes

ReclaimSlow(r) ==
    /\ rows[r].state = "running" /\ \E x \in runs : x.row = r
    /\ Reclaimed(r) /\ SpendCrash

-----------------------------------------------------------------------------
InquiryInit ==
    /\ inquiry = "absent" /\ headlines = 0
    /\ position = [e \in Experts |-> Free] /\ observations = [e \in Experts |-> {}]
    /\ rows = [r \in InquiryRows |-> [state |-> "absent", tries |-> 0]]
    /\ runs = {} /\ holder = Free /\ crashes = 0 /\ skipped = FALSE /\ abandoned = FALSE

RunStep(r) ==
    \/ RunLoads(r) \/ ReclaimDead(r)
    \/ \E x \in runs :
          /\ x.row = r
          /\ \/ RunBegins(x) \/ RunResolves(x) \/ RunReadsRoster(x) \/ ExpertCommits(x) \/ ExpertFails(x)
             \/ RunCompletes(x) \/ RunReports(x) \/ RunFails(x)
             \/ \E e \in Experts : ExpertDone(x, e) \/ ExpertBegins(x, e)

InquiryNext ==
    \/ \E r \in InquiryRows : LaunchInquiry(r) \/ RunStep(r) \/ ReclaimSlow(r)
    \/ \E x \in runs : RunDies(x)

\* Workers claim and run what is queued; reclamation runs every few minutes.
InquiryFair == \A r \in InquiryRows : WF_inquiryVars(RunStep(r))

InquirySpec == InquiryInit /\ [][InquiryNext]_inquiryVars /\ InquiryFair

-----------------------------------------------------------------------------
InquiryTypeOK ==
    /\ inquiry \in {"absent", "pending", "running", "complete"} /\ headlines \in Nat
    /\ \A r \in InquiryRows :
          rows[r].state \in {"absent", "queued", "running", "done", "failed"} /\ rows[r].tries \in 0..InquiryTries
    /\ \A x \in runs : x.row \in InquiryRows /\ x.todo \cup x.cur \subseteq Experts
    /\ crashes \in 0..MaxCrashes

\* Every cell of the stance matrix rests on the observations of the one
\* execution that resolved it, and no observation is left without a cell, over
\* reclaims of live executions, copies, crashes and failing experts
\* (run_inquiry.py:184: "doubled observations and a coin-flip stance").
OneAccountPerExpert ==
    \A e \in Experts : observations[e] = (IF position[e] = Free THEN {} ELSE {position[e]})

\* The positions and observations are a row of the stance matrix: over copies,
\* reclaims of live executions, crashes and failing experts a position and what
\* it rests on appear together, while the inquiry runs, and stand for good
\* (run_inquiry.py:26: "a mid-roster crash retries without losing completed
\* experts").
Matrix == INSTANCE StanceMatrix WITH
    Columns <- Experts, Executions <- InquiryRows \X (1..InquiryTries), Unfilled <- Free,
    phase <- inquiry, cell <- position, evidence <- observations

ImplementsMatrix == Matrix!MatrixSpec

\* A launched inquiry is completed or one of its rows failed, unless the
\* lock's holder died or failed after another execution had skipped for it:
\* the skip counts as done.
InquiryCompletes ==
    inquiry = "pending" ~> (inquiry = "complete" \/ abandoned
                            \/ \E r \in InquiryRows : rows[r].state = "failed")
=============================================================================
