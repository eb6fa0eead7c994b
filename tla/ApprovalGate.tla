----------------------------- MODULE ApprovalGate -----------------------------
(***************************************************************************)
(* The LLM approval of thinkers and sources: operators, the chat agent and *)
(* the discovery handlers create them, llm_approval_check jobs judge them, *)
(* operators approve, reject, override, resubmit and deactivate, and what  *)
(* is approved starts the discovery or the ingestion.                      *)
(*                                                                         *)
(* A check reads its entity, asks the LLM for minutes, and applies the     *)
(* answer in one transaction.  Whether the session still holds the entity  *)
(* it read, or reads it again, depends on the garbage collector: the model *)
(* takes either.                                                           *)
(***************************************************************************)
EXTENDS Integers, FiniteSets, Bags

CONSTANTS
    Thinkers,
    Sources,
    GateTries,    \* get_max_attempts("llm_approval_check")
    MaxActs       \* bound on what operators and the agent do

Entities == Thinkers \cup Sources

ASSUME GateAssumption ==
    /\ IsFiniteSet(Entities) /\ Thinkers \cap Sources = {}
    /\ GateTries \in Nat \ {0} /\ MaxActs \in Nat

VARIABLES
    approval,   \* approval_status
    active,     \* thinkers.active
    checks,     \* the open llm_approval_check jobs, a bag
    payloads,   \* those of all the check jobs there ever were: entity, well formed?
    dropped,    \* history: entities of which a check failed for good, was cancelled
                \* or was lost after a cancel, since their last check was queued
    work,       \* the discovery and ingestion jobs not yet run, per entity
    audits,     \* sources with a review row that names them, which can be overridden
    escalated,  \* entities with a timeout_escalation review
    acts

gateVars == <<approval, active, checks, payloads, dropped, work, audits, escalated, acts>>

quietVars == <<checks, payloads, dropped>>

CheckRows == BagToSet(checks)

\* The chat agent's payload names the thinker, not the review.
NewCheck(e, wellFormed) ==
    [of |-> e, wellFormed |-> wellFormed, state |-> "queued", tries |-> 0, seen |-> "none"]

CheckBecomes(j, k) == (checks (-) SetToBag({j})) (+) SetToBag({k})

\* Check jobs are queued.
Queues(rows) ==
    /\ checks' = checks (+) SetToBag(rows)
    /\ payloads' = payloads \cup {<<j.of, j.wellFormed>> : j \in rows}
    /\ dropped' = dropped \ {j.of : j \in rows}

\* A check job ends without an answer.
Drops(j) ==
    /\ checks' = checks (-) SetToBag({j})
    /\ dropped' = dropped \cup {j.of}
    /\ UNCHANGED payloads

Act == acts < MaxActs /\ acts' = acts + 1

-----------------------------------------------------------------------------
(* Creation.                                                               *)

Created(S, status, rows) ==
    /\ \A e \in S : approval[e] = "absent"
    /\ approval' = [e \in Entities |-> IF e \in S THEN status ELSE approval[e]]
    /\ active' = [e \in Entities |-> active[e] \/ e \in S]
    /\ Queues(rows)
    /\ UNCHANGED <<work, audits, escalated>>

\* The Add form, and the promotion of a candidate by an operator.
AddThinker(t) == Created({t}, "awaiting_llm", {NewCheck(t, TRUE)}) /\ UNCHANGED acts

\* One transaction for the names whose slug nobody has.
BulkImport ==
    /\ \E S \in SUBSET {t \in Thinkers : approval[t] = "absent"} :
          Cardinality(S) > 1 /\ Created(S, "awaiting_llm", {NewCheck(t, TRUE) : t \in S})
    /\ UNCHANGED acts

\* The chat agent's confirmed action.
AgentAddsThinker(t) ==
    Act /\ Created({t}, "awaiting_llm", {NewCheck(t, FALSE)})

\* The Add form creates no check.
AddSource(s) == Created({s}, "pending_llm", {}) /\ UNCHANGED acts

\* discover_expert_sources and the promotion's YouTube hint: a check when the
\* URL is new.
RegisterSource(s) == Created({s}, "pending_llm", {NewCheck(s, TRUE)}) /\ UNCHANGED acts

\* discover_guests_podcastindex, run by the discovery job of an approved thinker.
DiscoverGuests(t, s) ==
    /\ approval[t] = "approved" /\ active[t] /\ work[t] > 0
    /\ Created({s}, "pending_llm", {NewCheck(s, TRUE)})
    /\ UNCHANGED acts

-----------------------------------------------------------------------------
(* Operators and the agent.                                                *)

OperatorDecides(e, status) ==
    /\ approval[e] # "absent"
    /\ approval' = [approval EXCEPT ![e] = status]

\* Faulty variant: a thinker that was resubmitted only waits.
Resubmit_NoCheck(t) ==
    /\ Act /\ OperatorDecides(t, "awaiting_llm")
    /\ UNCHANGED <<quietVars, active, work, audits, escalated>>

\* Whatever the thinker's status, and beside a check that is still open.
Resubmit(t) ==
    /\ Act /\ OperatorDecides(t, "awaiting_llm")
    /\ Queues({NewCheck(t, TRUE)})
    /\ UNCHANGED <<active, work, audits, escalated>>

\* Approve and reject, on the Sources page or by the agent.
DecideSource(s) ==
    /\ Act /\ \E status \in {"approved", "rejected"} : OperatorDecides(s, status)
    /\ audits' = audits \cup {s}
    /\ UNCHANGED <<quietVars, active, work, escalated>>

\* The LLM panel overrides a review; only an operator's or the agent's review
\* names its entity in the snapshot.
Override(s) ==
    /\ Act /\ s \in audits
    /\ \E status \in {"approved", "rejected"} : OperatorDecides(s, status)
    /\ UNCHANGED <<quietVars, active, work, audits, escalated>>

ToggleActive(t) ==
    /\ Act /\ approval[t] # "absent"
    /\ active' = [active EXCEPT ![t] = ~@]
    /\ UNCHANGED <<quietVars, approval, work, audits, escalated>>

\* The edit form writes the flag it was loaded with, or its new value.
EditThinker(t) ==
    /\ Act /\ approval[t] # "absent"
    /\ \E on \in BOOLEAN : active' = [active EXCEPT ![t] = on]
    /\ UNCHANGED <<quietVars, approval, work, audits, escalated>>

WorkFor(e) == work' = [work EXCEPT ![e] = @ + 1]

\* The Discover and Refresh buttons ask nothing of the status.
TriggerDiscovery(e) ==
    /\ Act /\ approval[e] # "absent" /\ WorkFor(e)
    /\ UNCHANGED <<quietVars, approval, active, audits, escalated>>

\* The jobs run: what is not approved or not active is left alone.
WorkRuns(e) ==
    /\ work[e] > 0 /\ work' = [work EXCEPT ![e] = @ - 1]
    /\ UNCHANGED <<quietVars, approval, active, audits, escalated, acts>>

-----------------------------------------------------------------------------
(* llm_approval_check.                                                     *)

\* The claim, the payload's validation and the context snapshot.
CheckStarts(j) ==
    /\ j.state = "queued" /\ j.wellFormed
    /\ checks' = CheckBecomes(j, [j EXCEPT !.state = "running", !.tries = @ + 1, !.seen = approval[j.of]])
    /\ UNCHANGED <<approval, active, payloads, dropped, work, audits, escalated, acts>>

\* apply_thinker_decision, apply_source_decision: whatever the row's status.
\* What the session still holds is not written again.
Answer(j, status) ==
    /\ \E held \in {j.seen, approval[j.of]} :
          approval' = [approval EXCEPT ![j.of] = IF status = held THEN @ ELSE status]
    /\ work' = [work EXCEPT ![j.of] = IF status = "approved" THEN @ + 1 ELSE @]

Executing(j) == j.state \in {"running", "overwritten"}

\* The review row, the decision and the jobs it starts, in one commit.
CheckAnswered(j) ==
    /\ Executing(j)
    /\ \E status \in {"approved", "rejected_by_llm", "pending_human"} : Answer(j, status)
    /\ checks' = checks (-) SetToBag({j})
    /\ UNCHANGED <<active, payloads, dropped, audits, escalated, acts>>

\* Faulty variant: one attempt more than the limit.
GateRetries_OffByOne(tries) == tries <= GateTries

GateRetries(tries) == tries < GateTries

\* The attempts a failure leaves on the row: those of the claims, and one more
\* when the reclamation of a lost worker's row counts its own; it takes the
\* running rows only.
TriesAfter(j) ==
    CASE j.state = "running"     -> {j.tries, j.tries + 1}
      [] j.state = "overwritten" -> {j.tries}
      [] OTHER                   -> {j.tries + 1}

\* A malformed payload, an exception of the client, or a lost worker.
CheckFails(j) ==
    /\ Executing(j) \/ ~j.wellFormed
    /\ \E tries \in TriesAfter(j) :
          IF GateRetries(tries)
          THEN /\ checks' = CheckBecomes(j, [j EXCEPT !.state = "queued", !.tries = tries, !.seen = "none"])
               /\ UNCHANGED <<payloads, dropped>>
          ELSE Drops(j)
    /\ UNCHANGED <<approval, active, work, audits, escalated, acts>>

\* The agent's cancel finds the row pending; the job page's button writes by
\* primary key, whatever became of the row since it was read as pending, and a
\* worker that has claimed it goes on.
CancelCheck(j) ==
    /\ Act /\ j.state # "overwritten"
    /\ IF j.state = "queued" THEN Drops(j)
       ELSE /\ checks' = CheckBecomes(j, [j EXCEPT !.state = "overwritten"])
            /\ UNCHANGED <<payloads, dropped>>
    /\ UNCHANGED <<approval, active, work, audits, escalated>>

\* The worker of a cancelled row is lost: nothing reclaims it.
CheckLost(j) ==
    /\ j.state = "overwritten" /\ Drops(j)
    /\ UNCHANGED <<approval, active, work, audits, escalated, acts>>

\* The retry buttons copy a job, malformed payload and all: the job page's a
\* failed one, the agent's a job in any status.
RetryCheck(e, wellFormed) ==
    /\ Act /\ <<e, wellFormed>> \in payloads
    /\ Queues({NewCheck(e, wellFormed)})
    /\ UNCHANGED <<approval, active, work, audits, escalated>>

\* escalate_timed_out_reviews takes the jobs in 'awaiting_llm', a status that
\* no code gives a job: the checks of a waiting thinker are none of them.
TimedOut(j) == j.state = "awaiting_llm"

Escalate ==
    /\ escalated' = escalated \cup {j.of : j \in {k \in CheckRows : TimedOut(k)}}
    /\ UNCHANGED <<quietVars, approval, active, work, audits, acts>>

-----------------------------------------------------------------------------
GateInit ==
    /\ approval = [e \in Entities |-> "absent"] /\ active = [e \in Entities |-> FALSE]
    /\ checks = EmptyBag /\ payloads = {} /\ dropped = {} /\ work = [e \in Entities |-> 0]
    /\ audits = {} /\ escalated = {} /\ acts = 0

CheckStep(e) == \E j \in CheckRows :
    j.of = e /\ (CheckStarts(j) \/ CheckAnswered(j) \/ CheckFails(j) \/ CheckLost(j))

GateNext ==
    \/ BulkImport
    \/ \E t \in Thinkers :
          \/ AddThinker(t) \/ AgentAddsThinker(t) \/ Resubmit(t) \/ ToggleActive(t) \/ EditThinker(t)
          \/ \E s \in Sources : DiscoverGuests(t, s)
    \/ \E s \in Sources : AddSource(s) \/ RegisterSource(s) \/ DecideSource(s) \/ Override(s)
    \/ \E e \in Entities : TriggerDiscovery(e) \/ WorkRuns(e) \/ CheckStep(e)
    \/ \E j \in CheckRows : CancelCheck(j)
    \/ \E e \in Entities, wellFormed \in BOOLEAN : RetryCheck(e, wellFormed)
    \/ Escalate

GateSpec == GateInit /\ [][GateNext]_gateVars
-----------------------------------------------------------------------------
StatusesOf(e) == {"absent", "pending_human", "approved", "rejected_by_llm"}
                 \cup (IF e \in Thinkers THEN {"awaiting_llm"} ELSE {"pending_llm", "rejected"})

CheckJobs == [of : Entities, wellFormed : BOOLEAN, state : {"queued", "running", "overwritten"},
              tries : 0..GateTries, seen : {"none"} \cup UNION {StatusesOf(e) : e \in Entities}]

GateTypeOK ==
    /\ approval \in [Entities -> UNION {StatusesOf(e) : e \in Entities}]
    /\ \A e \in Entities : approval[e] \in StatusesOf(e)
    /\ active \in [Entities -> BOOLEAN] /\ work \in [Entities -> Nat]
    /\ IsABag(checks) /\ CheckRows \subseteq CheckJobs
    /\ payloads \subseteq Entities \X BOOLEAN /\ dropped \subseteq Entities
    /\ audits \subseteq Sources /\ escalated \subseteq Entities /\ acts \in 0..MaxActs

\* A thinker that waits for the LLM has a check that is open, or its last one
\* failed for good or was cancelled, where an operator can see it: over
\* resubmissions that overlap verdicts, copies of old checks, and cancels of
\* rows that a worker has claimed (resubmit_approval, llm_approval_check.py:3).
WaitingHasCheck ==
    \A t \in Thinkers : approval[t] = "awaiting_llm" =>
        t \in dropped \/ \E j \in CheckRows : j.of = t
=============================================================================
