----------------------------- MODULE RacesProofs -----------------------------
(* The approval gate keeps a check for every thinker that waits; a           *)
(* transcription attempt that is over leaves no audio; the limiter's window  *)
(* never holds more calls than the limit, and no call goes uncounted; and    *)
(* the types of every component that MCRaces composes.                       *)
EXTENDS MCRaces, CandidateReviewProofs, AgentChatProofs, FiniteSetTheorems, TLAPS

-----------------------------------------------------------------------------
(* ApprovalGate.                                                           *)

\* Only a check with tries left waits.
QueuedHasTry == \A j \in CheckRows : j.state = "queued" => j.tries < GateTries

\* A waiting thinker whose checks were not dropped has one that has read nothing
\* yet, or the waiting status: its answer, whatever it is, ends the wait.
WaitingHasFreshCheck ==
    \A t \in Thinkers : approval[t] = "awaiting_llm" =>
        t \in dropped \/ \E j \in CheckRows : j.of = t /\ j.seen \in {"none", "awaiting_llm"}

GateInv == GateTypeOK /\ QueuedHasTry /\ WaitingHasFreshCheck

\* What the steps that insert checks do.
LEMMA ChecksInserted ==
    ASSUME IsABag(checks), NEW queued, Queues(queued)
    PROVE  IsABag(checks') /\ CheckRows' = CheckRows \cup queued
BY With DEF CheckRows, Queues

LEMMA NewCheckTyped ==
    ASSUME NEW e \in Entities, NEW w \in BOOLEAN
    PROVE  /\ NewCheck(e, w) \in CheckJobs /\ NewCheck(e, w).of = e
           /\ NewCheck(e, w).seen = "none" /\ NewCheck(e, w).tries < GateTries
BY GateAssumption DEF NewCheck, CheckJobs

\* What the steps on a check do.
LEMMA CheckMoves ==
    ASSUME IsABag(checks), NEW j \in CheckRows, NEW k, checks' = CheckBecomes(j, k)
    PROVE  /\ IsABag(checks')
           /\ CheckRows' \subseteq CheckRows \cup {k}
           /\ (CheckRows \ {j}) \cup {k} \subseteq CheckRows'
<1> DEFINE B == checks (-) SetToBag({j})
<1>0. j \in BagToSet(checks)
  BY DEF CheckRows
<1>1. IsABag(B) /\ BagToSet(B) = {x \in BagToSet(checks) : x # j \/ checks[x] > 1}
  BY ONLY <1>0, IsABag(checks), Without
<1>2. checks' = B (+) SetToBag({k})
  BY DEF CheckBecomes
<1> HIDE DEF B
<1>3. IsABag(checks') /\ BagToSet(checks') = BagToSet(B) \cup {k}
  BY ONLY <1>1, <1>2, With
<1> QED BY <1>1, <1>3 DEF CheckRows

\* A step that inserts checks, of entities of which those that begin to wait
\* get one.
LEMMA GateInserts ==
    ASSUME GateInv, NEW queued \in SUBSET CheckJobs,
           \A x \in queued : x.tries < GateTries /\ x.seen = "none",
           Queues(queued),
           approval' \in [Entities -> UNION {StatusesOf(e) : e \in Entities}],
           \A e \in Entities : approval'[e] \in StatusesOf(e),
           \A t \in Thinkers : approval'[t] = "awaiting_llm" =>
               approval[t] = "awaiting_llm" \/ \E x \in queued : x.of = t,
           active' \in [Entities -> BOOLEAN], work' \in [Entities -> Nat],
           audits' \subseteq Sources, escalated' \subseteq Entities, acts' \in 0..MaxActs
    PROVE  GateInv'
<1>1. IsABag(checks') /\ CheckRows' = CheckRows \cup queued
  BY ChecksInserted DEF GateInv, GateTypeOK
<1>2. GateTypeOK'
  <2>1. payloads' \subseteq Entities \X BOOLEAN /\ dropped' \subseteq Entities
    BY DEF Queues, GateInv, GateTypeOK, CheckJobs
  <2> QED BY <1>1, <2>1 DEF GateInv, GateTypeOK
<1>3. QueuedHasTry'
  BY <1>1 DEF GateInv, QueuedHasTry
<1>4. WaitingHasFreshCheck'
  <2>1. dropped' = dropped \ {x.of : x \in queued}
    BY DEF Queues
  <2> QED BY <1>1, <2>1 DEF GateInv, WaitingHasFreshCheck
<1> QED BY <1>2, <1>3, <1>4 DEF GateInv

\* A step that leaves the checks alone, and makes nobody wait.
LEMMA GateQuiet ==
    ASSUME GateInv, UNCHANGED quietVars,
           approval' \in [Entities -> UNION {StatusesOf(e) : e \in Entities}],
           \A e \in Entities : approval'[e] \in StatusesOf(e),
           \A t \in Thinkers : approval'[t] = "awaiting_llm" => approval[t] = "awaiting_llm",
           active' \in [Entities -> BOOLEAN], work' \in [Entities -> Nat],
           audits' \subseteq Sources, escalated' \subseteq Entities, acts' \in 0..MaxActs
    PROVE  GateInv'
BY DEF GateInv, GateTypeOK, QueuedHasTry, WaitingHasFreshCheck, CheckRows, quietVars

LEMMA GateTyped ==
    ASSUME GateInv
    PROVE  /\ approval \in [Entities -> UNION {StatusesOf(e) : e \in Entities}]
           /\ \A e \in Entities : approval[e] \in StatusesOf(e)
           /\ active \in [Entities -> BOOLEAN] /\ work \in [Entities -> Nat]
           /\ audits \subseteq Sources /\ escalated \subseteq Entities /\ acts \in 0..MaxActs
           /\ IsABag(checks) /\ CheckRows \subseteq CheckJobs
           /\ payloads \subseteq Entities \X BOOLEAN /\ dropped \subseteq Entities
BY DEF GateInv, GateTypeOK

LEMMA CreatedKeeps ==
    ASSUME GateInv, NEW S \in SUBSET Entities, NEW given, NEW queued \in SUBSET CheckJobs,
           Created(S, given, queued),
           \A e \in S : given \in StatusesOf(e),
           \A x \in queued : x.tries < GateTries /\ x.seen = "none",
           given = "awaiting_llm" => \A t \in S : \E x \in queued : x.of = t,
           acts' \in 0..MaxActs
    PROVE  GateInv'
<1>1. /\ approval' = [e \in Entities |-> IF e \in S THEN given ELSE approval[e]]
      /\ active' = [e \in Entities |-> active[e] \/ e \in S]
      /\ Queues(queued)
      /\ UNCHANGED <<work, audits, escalated>>
  BY DEF Created
<1>2. \A e \in Entities : approval'[e] \in StatusesOf(e)
  BY <1>1, GateTyped
<1>3. approval' \in [Entities -> UNION {StatusesOf(e) : e \in Entities}]
  BY <1>1, <1>2
<1>4. \A t \in Thinkers : approval'[t] = "awaiting_llm" =>
         approval[t] = "awaiting_llm" \/ \E x \in queued : x.of = t
  BY <1>1 DEF Entities
<1>5. active' \in [Entities -> BOOLEAN]
  BY <1>1, GateTyped, Zenon
<1> QED BY <1>1, <1>2, <1>3, <1>4, <1>5, GateTyped, GateInserts

LEMMA GateCreates ==
    ASSUME GateInv,
           \/ BulkImport
           \/ \E t \in Thinkers : AddThinker(t) \/ AgentAddsThinker(t)
           \/ \E t \in Thinkers : \E s \in Sources : DiscoverGuests(t, s)
           \/ \E s \in Sources : AddSource(s) \/ RegisterSource(s)
    PROVE  GateInv'
<1>1. /\ \A t \in Thinkers : t \in Entities /\ "awaiting_llm" \in StatusesOf(t)
      /\ \A s \in Sources : s \in Entities /\ "pending_llm" \in StatusesOf(s)
  BY GateAssumption DEF Entities, StatusesOf
<1>2. acts \in 0..MaxActs
  BY GateTyped
<1>3. \A e \in Entities, w \in BOOLEAN :
         /\ NewCheck(e, w) \in CheckJobs /\ NewCheck(e, w).of = e
         /\ NewCheck(e, w).seen = "none" /\ NewCheck(e, w).tries < GateTries
  BY NewCheckTyped
<1>4. CASE BulkImport
  <2>1. PICK S \in SUBSET Thinkers : Created(S, "awaiting_llm", {NewCheck(t, TRUE) : t \in S})
    BY <1>4 DEF BulkImport
  <2> DEFINE queued == {NewCheck(t, TRUE) : t \in S}
  <2>2. queued \in SUBSET CheckJobs /\ \A x \in queued : x.tries < GateTries /\ x.seen = "none"
    <3> SUFFICES ASSUME NEW t \in S
                 PROVE  LET x == NewCheck(t, TRUE)
                        IN  x \in CheckJobs /\ x.tries < GateTries /\ x.seen = "none"
      OBVIOUS
    <3>1. t \in Entities /\ TRUE \in BOOLEAN
      BY <1>1
    <3> QED BY <1>3, <3>1
  <2>3. \A t \in S : \E x \in queued : x.of = t
    BY <1>1, <1>3
  <2>4. acts' \in 0..MaxActs
    BY <1>2, <1>4 DEF BulkImport
  <2>5. S \in SUBSET Entities /\ \A e \in S : "awaiting_llm" \in StatusesOf(e)
    BY <1>1
  <2>6. Created(S, "awaiting_llm", queued)
    BY <2>1
  <2> HIDE DEF queued
  <2> QED BY ONLY GateInv, <2>2, <2>3, <2>4, <2>5, <2>6, CreatedKeeps
<1>5. ASSUME NEW t \in Thinkers, AddThinker(t) \/ AgentAddsThinker(t) PROVE GateInv'
  <2>1. PICK w \in BOOLEAN : Created({t}, "awaiting_llm", {NewCheck(t, w)})
    BY <1>5 DEF AddThinker, AgentAddsThinker
  <2> DEFINE queued == {NewCheck(t, w)}
  <2>2. queued \in SUBSET CheckJobs /\ \A x \in queued : x.tries < GateTries /\ x.seen = "none"
    BY <1>1, <1>3
  <2>3. \A e \in {t} : \E x \in queued : x.of = e
    BY <1>1, <1>3
  <2>4. acts' \in 0..MaxActs
    BY <1>2, <1>5, GateAssumption DEF AddThinker, AgentAddsThinker, Act
  <2>5. {t} \in SUBSET Entities /\ \A e \in {t} : "awaiting_llm" \in StatusesOf(e)
    BY <1>1
  <2>6. Created({t}, "awaiting_llm", queued)
    BY <2>1
  <2> HIDE DEF queued
  <2> QED BY ONLY GateInv, <2>2, <2>3, <2>4, <2>5, <2>6, CreatedKeeps
<1>6. ASSUME NEW s \in Sources,
             \/ AddSource(s) \/ RegisterSource(s)
             \/ \E t \in Thinkers : DiscoverGuests(t, s)
      PROVE  GateInv'
  <2>1. PICK queued \in {{}, {NewCheck(s, TRUE)}} : Created({s}, "pending_llm", queued)
    BY <1>6 DEF AddSource, RegisterSource, DiscoverGuests
  <2>2. queued \in SUBSET CheckJobs /\ \A x \in queued : x.tries < GateTries /\ x.seen = "none"
    BY <1>1, <1>3, <2>1
  <2>3. acts' \in 0..MaxActs
    BY <1>2, <1>6 DEF AddSource, RegisterSource, DiscoverGuests
  <2>4. {s} \in SUBSET Entities /\ \A e \in {s} : "pending_llm" \in StatusesOf(e)
    BY <1>1
  <2>5. "pending_llm" # "awaiting_llm"
    OBVIOUS
  <2> QED BY ONLY GateInv, <2>1, <2>2, <2>3, <2>4, <2>5, CreatedKeeps
<1> QED BY <1>4, <1>5, <1>6

LEMMA ResubmitKeeps == ASSUME GateInv, NEW t \in Thinkers, Resubmit(t) PROVE GateInv'
<1> DEFINE queued == {NewCheck(t, TRUE)}
<1>1. /\ approval' = [approval EXCEPT ![t] = "awaiting_llm"]
      /\ Queues(queued)
      /\ UNCHANGED <<active, work, audits, escalated>>
      /\ acts' \in 0..MaxActs
  BY GateTyped, GateAssumption DEF Resubmit, OperatorDecides, Act
<1>2. t \in Entities /\ "awaiting_llm" \in StatusesOf(t)
  BY DEF Entities, StatusesOf
<1>3. queued \in SUBSET CheckJobs /\ (\A x \in queued : x.tries < GateTries /\ x.seen = "none")
      /\ \E x \in queued : x.of = t
  BY <1>2, NewCheckTyped
<1> HIDE DEF queued
<1>4. /\ approval' \in [Entities -> UNION {StatusesOf(e) : e \in Entities}]
      /\ \A e \in Entities : approval'[e] \in StatusesOf(e)
      /\ \A e \in Entities : e # t => approval'[e] = approval[e]
  BY <1>1, <1>2, GateTyped
<1>5. \A u \in Thinkers : approval'[u] = "awaiting_llm" =>
         approval[u] = "awaiting_llm" \/ \E x \in queued : x.of = u
  BY <1>3, <1>4 DEF Entities
<1> QED BY <1>1, <1>3, <1>4, <1>5, GateTyped, GateInserts

\* Operators' and the agent's other steps, and the jobs they start.
LEMMA GateOthers ==
    ASSUME GateInv,
           \/ \E s \in Sources : DecideSource(s) \/ Override(s)
           \/ \E t \in Thinkers : ToggleActive(t) \/ EditThinker(t)
           \/ \E e \in Entities : TriggerDiscovery(e) \/ WorkRuns(e)
           \/ Escalate
           \/ UNCHANGED gateVars
    PROVE  GateInv'
<1>1. ASSUME NEW s \in Sources, DecideSource(s) \/ Override(s) PROVE GateInv'
  <2>1. PICK given \in {"approved", "rejected"} : approval' = [approval EXCEPT ![s] = given]
    BY <1>1 DEF DecideSource, Override, OperatorDecides
  <2>2. /\ UNCHANGED <<quietVars, active, work, escalated>> /\ audits' \subseteq Sources
        /\ acts' \in 0..MaxActs
    BY <1>1, GateTyped, GateAssumption DEF DecideSource, Override, Act
  <2>3. s \in Entities /\ s \notin Thinkers /\ given \in StatusesOf(s)
    BY GateAssumption DEF Entities, StatusesOf
  <2>4. /\ approval' \in [Entities -> UNION {StatusesOf(e) : e \in Entities}]
        /\ \A e \in Entities : approval'[e] \in StatusesOf(e)
        /\ \A e \in Entities : e # s => approval'[e] = approval[e]
    BY <2>1, <2>3, GateTyped
  <2>5. \A t \in Thinkers : approval'[t] = "awaiting_llm" => approval[t] = "awaiting_llm"
    BY <2>3, <2>4 DEF Entities
  <2> QED BY <2>2, <2>4, <2>5, GateTyped, GateQuiet
<1>2. ASSUME NEW t \in Thinkers, ToggleActive(t) \/ EditThinker(t) PROVE GateInv'
  <2>1. PICK on \in BOOLEAN : active' = [active EXCEPT ![t] = on]
    <3>1. CASE ToggleActive(t)
      <4>1. active[t] \in BOOLEAN
        BY GateTyped DEF Entities
      <4> QED BY <3>1, <4>1 DEF ToggleActive
    <3>2. CASE EditThinker(t)
      BY <3>2 DEF EditThinker
    <3> QED BY <1>2, <3>1, <3>2
  <2>2. UNCHANGED <<quietVars, approval, work, audits, escalated>> /\ acts' \in 0..MaxActs
    BY <1>2, GateTyped, GateAssumption DEF ToggleActive, EditThinker, Act
  <2>3. active' \in [Entities -> BOOLEAN]
    BY <2>1, GateTyped
  <2> QED BY <2>2, <2>3, GateTyped, GateQuiet
<1>3. ASSUME NEW e \in Entities, TriggerDiscovery(e) \/ WorkRuns(e) PROVE GateInv'
  <2>1. /\ UNCHANGED <<quietVars, approval, active, audits, escalated>> /\ acts' \in 0..MaxActs
    BY <1>3, GateTyped, GateAssumption DEF TriggerDiscovery, WorkRuns, Act
  <2>2. work' \in [Entities -> Nat]
    <3>1. work[e] \in Nat
      BY GateTyped
    <3>2. CASE TriggerDiscovery(e)
      BY <3>1, <3>2, GateTyped DEF TriggerDiscovery, WorkFor
    <3>3. CASE WorkRuns(e)
      <4>1. work[e] - 1 \in Nat /\ work' = [work EXCEPT ![e] = work[e] - 1]
        BY <3>1, <3>3 DEF WorkRuns
      <4> QED BY <4>1, GateTyped
    <3> QED BY <1>3, <3>2, <3>3
  <2> QED BY <2>1, <2>2, GateTyped, GateQuiet
<1>4. CASE Escalate
  <2>1. UNCHANGED <<quietVars, approval, active, work, audits, acts>>
    BY <1>4 DEF Escalate
  <2>2. escalated' \subseteq Entities
    BY <1>4, GateTyped DEF Escalate, CheckJobs
  <2> QED BY <2>1, <2>2, GateTyped, GateQuiet
<1>5. CASE UNCHANGED gateVars
  <2>1. UNCHANGED <<quietVars, approval, active, work, audits, escalated, acts>>
    BY <1>5 DEF gateVars, quietVars
  <2> QED BY <2>1, GateTyped, GateQuiet
<1> QED BY <1>1, <1>2, <1>3, <1>4, <1>5

\* A check that moves on stays of its entity; it has read nothing, what it had
\* read, or the status as it is now.
LEMMA CheckKept ==
    ASSUME GateInv, NEW j \in CheckRows, NEW k \in CheckJobs,
           k.of = j.of, k.seen \in {"none", j.seen, approval[j.of]},
           k.state = "queued" => k.tries < GateTries,
           checks' = CheckBecomes(j, k),
           UNCHANGED <<approval, active, payloads, dropped, work, audits, escalated>>,
           acts' \in 0..MaxActs
    PROVE  GateInv'
<1>1. /\ IsABag(checks')
      /\ CheckRows' \subseteq CheckRows \cup {k}
      /\ (CheckRows \ {j}) \cup {k} \subseteq CheckRows'
  BY GateTyped, CheckMoves
<1>2. GateTypeOK'
  BY <1>1 DEF GateInv, GateTypeOK
<1>3. QueuedHasTry'
  BY <1>1 DEF GateInv, QueuedHasTry
<1>4. WaitingHasFreshCheck'
  <2> SUFFICES ASSUME NEW t \in Thinkers, approval[t] = "awaiting_llm", t \notin dropped
               PROVE  \E x \in CheckRows' : x.of = t /\ x.seen \in {"none", "awaiting_llm"}
    BY DEF WaitingHasFreshCheck
  <2>1. PICK x \in CheckRows : x.of = t /\ x.seen \in {"none", "awaiting_llm"}
    BY DEF GateInv, WaitingHasFreshCheck
  <2>2. CASE x = j
    BY <1>1, <2>1, <2>2
  <2>3. CASE x # j
    BY <1>1, <2>1, <2>3
  <2> QED BY <2>2, <2>3
<1> QED BY <1>2, <1>3, <1>4 DEF GateInv

\* A check that ends without an answer is remembered as dropped.
LEMMA CheckDropped ==
    ASSUME GateInv, NEW j \in CheckRows, Drops(j),
           UNCHANGED <<approval, active, work, audits, escalated>>, acts' \in 0..MaxActs
    PROVE  GateInv'
<1>1. j.of \in Entities /\ j \in BagToSet(checks) /\ IsABag(checks)
  BY GateTyped DEF CheckJobs, CheckRows
<1>2. checks' = checks (-) SetToBag({j}) /\ dropped' = dropped \cup {j.of} /\ UNCHANGED payloads
  BY DEF Drops
<1>3. IsABag(checks') /\ BagToSet(checks') = {x \in BagToSet(checks) : x # j \/ checks[x] > 1}
  BY ONLY <1>1, <1>2, Without
<1>4. CheckRows \ {j} \subseteq CheckRows' /\ CheckRows' \subseteq CheckRows
  BY <1>3 DEF CheckRows
<1>5. GateTypeOK'
  BY <1>1, <1>2, <1>3, <1>4 DEF GateInv, GateTypeOK
<1>6. QueuedHasTry'
  BY <1>4 DEF GateInv, QueuedHasTry
<1>7. WaitingHasFreshCheck'
  BY <1>2, <1>4 DEF GateInv, WaitingHasFreshCheck
<1> QED BY <1>5, <1>6, <1>7 DEF GateInv

LEMMA CheckMovesOn ==
    ASSUME GateInv, NEW j \in CheckRows,
           CheckStarts(j) \/ CheckFails(j) \/ CancelCheck(j) \/ CheckLost(j)
    PROVE  GateInv'
<1>1. j \in CheckJobs /\ (j.state = "queued" => j.tries < GateTries)
  BY GateTyped DEF GateInv, QueuedHasTry
<1>0. acts \in 0..MaxActs
  BY GateTyped
<1>2. CASE CheckStarts(j)
  <2>1. PICK a : a = approval[j.of] /\ a \in UNION {StatusesOf(e) : e \in Entities}
    BY <1>1, GateTyped DEF CheckJobs
  <2>2. j.tries + 1 \in 0..GateTries
    BY <1>1, <1>2, GateAssumption DEF CheckStarts, CheckJobs
  <2> DEFINE k == [j EXCEPT !.state = "running", !.tries = j.tries + 1, !.seen = a]
  <2>3. k \in CheckJobs /\ k.of = j.of /\ k.seen = a /\ k.state = "running"
    BY <1>1, <2>1, <2>2 DEF CheckJobs
  <2>4. /\ checks' = CheckBecomes(j, k)
        /\ UNCHANGED <<approval, active, payloads, dropped, work, audits, escalated, acts>>
    BY <1>2, <2>1 DEF CheckStarts
  <2> HIDE DEF k
  <2> QED BY <1>0, <2>1, <2>3, <2>4, CheckKept
<1>3. CASE CheckFails(j)
  <2>1. UNCHANGED <<approval, active, work, audits, escalated, acts>>
    BY <1>3 DEF CheckFails
  <2>2. PICK n \in TriesAfter(j) :
          IF GateRetries(n)
          THEN /\ checks' = CheckBecomes(j, [j EXCEPT !.state = "queued", !.tries = n, !.seen = "none"])
               /\ UNCHANGED <<payloads, dropped>>
          ELSE Drops(j)
    BY <1>3 DEF CheckFails
  <2>3. CASE GateRetries(n)
    <3>1. PICK m \in 0..GateTries : m = n /\ m < GateTries
      BY <1>1, <2>3, GateAssumption DEF TriesAfter, CheckJobs, GateRetries
    <3> DEFINE k == [j EXCEPT !.state = "queued", !.tries = m, !.seen = "none"]
    <3>2. k \in CheckJobs /\ k.of = j.of /\ k.seen = "none" /\ k.tries < GateTries
      BY <1>1, <3>1 DEF CheckJobs
    <3>3. checks' = CheckBecomes(j, k) /\ UNCHANGED <<payloads, dropped>>
      BY <2>2, <2>3, <3>1
    <3> HIDE DEF k
    <3> QED BY <1>0, <2>1, <3>2, <3>3, CheckKept
  <2>4. CASE ~GateRetries(n)
    BY <1>0, <2>1, <2>2, <2>4, CheckDropped
  <2> QED BY <2>3, <2>4
<1>4. CASE CancelCheck(j)
  <2>1. UNCHANGED <<approval, active, work, audits, escalated>> /\ acts' \in 0..MaxActs
    BY <1>0, <1>4, GateAssumption DEF CancelCheck, Act
  <2>2. CASE j.state = "queued"
    BY <1>4, <2>1, <2>2, CheckDropped DEF CancelCheck
  <2>3. CASE j.state # "queued"
    <3> DEFINE k == [j EXCEPT !.state = "overwritten"]
    <3>1. k \in CheckJobs /\ k.of = j.of /\ k.seen = j.seen /\ k.state = "overwritten"
      BY <1>1 DEF CheckJobs
    <3>2. checks' = CheckBecomes(j, k) /\ UNCHANGED <<payloads, dropped>>
      BY <1>4, <2>3 DEF CancelCheck
    <3> HIDE DEF k
    <3> QED BY <2>1, <3>1, <3>2, CheckKept
  <2> QED BY <2>2, <2>3
<1>5. CASE CheckLost(j)
  BY <1>0, <1>5, CheckDropped DEF CheckLost
<1> QED BY <1>2, <1>3, <1>4, <1>5

\* An answer leaves its thinker waiting only if it was read before a
\* resubmission, whose check is another one.
LEMMA CheckAnsweredKeeps == ASSUME GateInv, NEW j \in CheckRows, CheckAnswered(j) PROVE GateInv'
<1> DEFINE e == j.of
<1>1. e \in Entities /\ j \in BagToSet(checks) /\ IsABag(checks)
  BY GateTyped DEF CheckJobs, CheckRows
<1>2. PICK given \in {"approved", "rejected_by_llm", "pending_human"}, held \in {j.seen, approval[e]} :
         /\ approval' = [approval EXCEPT ![e] = IF given = held THEN @ ELSE given]
         /\ work' = [work EXCEPT ![e] = IF given = "approved" THEN @ + 1 ELSE @]
  BY DEF CheckAnswered, Answer
<1>3. checks' = checks (-) SetToBag({j}) /\ UNCHANGED <<active, payloads, dropped, audits, escalated, acts>>
  BY DEF CheckAnswered
<1>4. IsABag(checks') /\ BagToSet(checks') = {x \in BagToSet(checks) : x # j \/ checks[x] > 1}
  BY ONLY <1>1, <1>3, Without
<1>5. CheckRows \ {j} \subseteq CheckRows' /\ CheckRows' \subseteq CheckRows
  BY <1>4 DEF CheckRows
<1>6. given \in StatusesOf(e)
  BY DEF StatusesOf
<1>7. /\ approval' \in [Entities -> UNION {StatusesOf(d) : d \in Entities}]
      /\ \A d \in Entities : approval'[d] \in StatusesOf(d)
      /\ \A d \in Entities \ {e} : approval'[d] = approval[d]
      /\ approval'[e] = IF given = held THEN approval[e] ELSE given
  BY <1>1, <1>2, <1>6, GateTyped
<1>8. work' \in [Entities -> Nat]
  BY <1>1, <1>2, GateTyped
<1>9. GateTypeOK'
  BY <1>3, <1>4, <1>5, <1>7, <1>8, GateTyped DEF GateTypeOK
<1>10. QueuedHasTry'
  BY <1>5 DEF GateInv, QueuedHasTry
<1>11. WaitingHasFreshCheck'
  <2> SUFFICES ASSUME NEW t \in Thinkers, approval'[t] = "awaiting_llm", t \notin dropped
               PROVE  \E x \in CheckRows' : x.of = t /\ x.seen \in {"none", "awaiting_llm"}
    BY <1>3 DEF WaitingHasFreshCheck
  <2>1. approval[t] = "awaiting_llm" /\ (t = e => given = j.seen)
    BY <1>2, <1>7 DEF Entities
  <2>2. PICK x \in CheckRows : x.of = t /\ x.seen \in {"none", "awaiting_llm"}
    BY <2>1 DEF GateInv, WaitingHasFreshCheck
  <2>3. x # j
    BY <2>1, <2>2
  <2> QED BY <1>5, <2>2, <2>3
<1> QED BY <1>9, <1>10, <1>11 DEF GateInv

LEMMA RetryCheckKeeps ==
    ASSUME GateInv, NEW e \in Entities, NEW w \in BOOLEAN, RetryCheck(e, w)
    PROVE  GateInv'
<1> DEFINE queued == {NewCheck(e, w)}
<1>1. queued \in SUBSET CheckJobs /\ \A x \in queued : x.tries < GateTries /\ x.seen = "none"
  BY NewCheckTyped
<1>2. /\ Queues(queued)
      /\ UNCHANGED <<approval, active, work, audits, escalated>> /\ acts' \in 0..MaxActs
  BY GateTyped, GateAssumption DEF RetryCheck, Act
<1> HIDE DEF queued
<1> QED BY <1>1, <1>2, GateTyped, GateInserts

LEMMA GateInitially == GateInit => GateInv
<1> SUFFICES ASSUME GateInit PROVE GateInv
  OBVIOUS
<1>1. CheckRows = {} /\ IsABag(checks)
  BY DEF GateInit, CheckRows, EmptyBag, SetToBag, BagToSet, IsABag
<1>2. \A e \in Entities : approval[e] = "absent" /\ "absent" \in StatusesOf(e)
  BY DEF GateInit, StatusesOf
<1>3. GateTypeOK
  BY <1>1, <1>2, GateAssumption DEF GateInit, GateTypeOK
<1> QED BY <1>1, <1>2, <1>3 DEF GateInv, QueuedHasTry, WaitingHasFreshCheck, Entities

LEMMA GateStep == GateInv /\ [GateNext]_gateVars => GateInv'
<1> SUFFICES ASSUME GateInv, [GateNext]_gateVars PROVE GateInv'
  OBVIOUS
<1>1. CASE \/ BulkImport
           \/ \E t \in Thinkers : AddThinker(t) \/ AgentAddsThinker(t)
           \/ \E t \in Thinkers : \E s \in Sources : DiscoverGuests(t, s)
           \/ \E s \in Sources : AddSource(s) \/ RegisterSource(s)
  BY <1>1, GateCreates
<1>2. ASSUME NEW t \in Thinkers, Resubmit(t) PROVE GateInv'
  BY <1>2, ResubmitKeeps
<1>3. CASE \/ \E s \in Sources : DecideSource(s) \/ Override(s)
           \/ \E t \in Thinkers : ToggleActive(t) \/ EditThinker(t)
           \/ \E e \in Entities : TriggerDiscovery(e) \/ WorkRuns(e)
           \/ Escalate
           \/ UNCHANGED gateVars
  BY <1>3, GateOthers
<1>4. ASSUME NEW j \in CheckRows, CheckStarts(j) \/ CheckFails(j) \/ CancelCheck(j) \/ CheckLost(j)
      PROVE  GateInv'
  BY <1>4, CheckMovesOn
<1>5. ASSUME NEW j \in CheckRows, CheckAnswered(j) PROVE GateInv'
  BY <1>5, CheckAnsweredKeeps
<1>6. ASSUME NEW e \in Entities, NEW w \in BOOLEAN, RetryCheck(e, w) PROVE GateInv'
  BY <1>6, RetryCheckKeeps
<1> QED BY <1>1, <1>2, <1>3, <1>4, <1>5, <1>6 DEF GateNext, CheckStep

\* The inductive invariant of the gate.
THEOREM GateInvariant == GateSpec => []GateInv
<1>1. GateInit => GateInv
  BY GateInitially
<1>2. GateInv /\ [GateNext]_gateVars => GateInv'
  BY GateStep
<1> QED BY <1>1, <1>2, PTL DEF GateSpec

\* Statuses, checks and their tries keep their types.
THEOREM GateTypes == GateSpec => []GateTypeOK
BY GateInvariant, PTL DEF GateInv

\* A thinker that waits for the LLM has an open check or one that was dropped,
\* over any number of resubmissions, copies, cancels and answers that cross.
THEOREM WaitersAreChecked == GateSpec => []WaitingHasCheck
<1>1. GateInv => WaitingHasCheck
  BY DEF GateInv, WaitingHasFreshCheck, WaitingHasCheck
<1> QED BY <1>1, GateInvariant, PTL

-----------------------------------------------------------------------------
(* Transcription.                                                          *)

TextRows == [at : {"queued", "running", "done", "failed"}, tries : Nat]

\* A row that waits has a try left.
RowsMayGo == \A j \in TextJobs : rows[j].at = "queued" => rows[j].tries < TextTries[j]

\* What an execution holds: its own files, and only while a clean-up is ahead;
\* every segment's while they are sent; and a text only when it is whole.
ExecFine(a, e) ==
    /\ \A f \in e.files : f[1] = a
    /\ e.files # {} => e.at \in CleanUpAhead
    /\ e.at = "send" /\ item.long => \A i \in Whole : Part(a, i) \in e.files
    /\ e.at = "cleanup" /\ e.method = "parakeet" => e.parts = Whole
    /\ e.at = "store" => e.parts = Whole /\ e.method # "none"
    /\ e.at \notin {"cleanup", "store", "stored", "raised"} => e.method = "none"

ExecsFine == \A a \in Attempts : ExecFine(a, passes[a])

\* A claim gives its execution a number that no earlier one has.
ExecsClaimed == \A a \in Attempts : passes[a].at # "over" => a[2] <= rows[a[1]].tries

\* A temporary file is known to its execution, or left behind for good.
FilesKnown == \A f \in disk : f \in orphans \/ f \in passes[f[1]].files

\* The stored transcript, when there is one, is of every segment.
BodyWhole == body = NoText \/ (body.parts = Whole /\ body.method # "none")

TextInv == TextTypeOK /\ RowsMayGo /\ ExecsFine /\ ExecsClaimed /\ FilesKnown /\ BodyWhole

\* One execution goes on; the others stay as they are.
LEMMA ExecMoves ==
    ASSUME TextTypeOK, ExecsFine, NEW a \in Attempts, NEW e \in Executions, ExecFine(a, e),
           Becomes(a, e), UNCHANGED item
    PROVE  /\ passes' \in [Attempts -> Executions] /\ passes'[a] = e
           /\ \A b \in Attempts : b # a => passes'[b] = passes[b]
           /\ ExecsFine'
<1>1. /\ passes' \in [Attempts -> Executions] /\ passes'[a] = e
      /\ \A b \in Attempts : b # a => passes'[b] = passes[b]
  BY DEF TextTypeOK, Becomes
<1>2. ASSUME NEW b \in Attempts PROVE ExecFine(b, passes'[b])
  <2>1. CASE b = a BY <2>1, <1>1
  <2>2. CASE b # a BY <2>2, <1>1 DEF ExecsFine
  <2> QED BY <2>1, <2>2
<1>3. ExecsFine'
  BY <1>2 DEF ExecsFine, ExecFine, Part, Whole
<1> QED BY <1>1, <1>3

\* Files are typed.
LEMMA FileOwners ==
    ASSUME TextTypeOK
    PROVE  /\ \A f \in disk : f \in Files /\ f[1] \in Attempts
           /\ \A a \in Attempts : \A f \in passes[a].files : f \in Files
BY DEF TextTypeOK, Files, Executions

LEMMA ClaimsHold ==
    ASSUME TextTypeOK, ExecsClaimed, NEW a \in Attempts,
           \A b \in Attempts : b # a => passes'[b] = passes[b],
           rows' \in [TextJobs -> TextRows],
           \A j \in TextJobs : rows'[j].tries >= rows[j].tries,
           passes'[a].at # "over" => a[2] <= rows'[a[1]].tries
    PROVE  ExecsClaimed'
<1> SUFFICES ASSUME NEW b \in Attempts, passes'[b].at # "over" PROVE b[2] <= rows'[b[1]].tries
  BY DEF ExecsClaimed
<1>1. CASE b = a BY <1>1
<1>2. CASE b # a
  <2>1. b[1] \in TextJobs /\ b[2] \in Int
    BY TextAssumption DEF Attempts
  <2>2. b[2] <= rows[b[1]].tries BY <1>2 DEF ExecsClaimed
  <2>3. rows[b[1]].tries \in Int /\ rows'[b[1]].tries \in Int
    BY <2>1 DEF TextTypeOK, TextRows
  <2> QED BY <2>1, <2>2, <2>3
<1> QED BY <1>1, <1>2

\* A step of one execution that touches no file: it forgets none.
LEMMA KeepsDisk ==
    ASSUME TextInv, NEW a \in Attempts, NEW e \in Executions, ExecFine(a, e), Becomes(a, e),
           passes[a].files \subseteq e.files, UNCHANGED <<item, apiOn, storeVars, fileVars>>,
           rows' \in [TextJobs -> TextRows], RowsMayGo',
           \A j \in TextJobs : rows'[j].tries >= rows[j].tries,
           e.at # "over" => a[2] <= rows'[a[1]].tries,
           remote' \in [Attempts -> {"none", "queued", "completed"}]
    PROVE  TextInv'
<1>1. /\ passes' \in [Attempts -> Executions] /\ passes'[a] = e
      /\ \A b \in Attempts : b # a => passes'[b] = passes[b]
      /\ ExecsFine'
  BY ExecMoves DEF TextInv
<1>2. TextTypeOK'
  BY <1>1 DEF TextInv, TextTypeOK, TextRows, storeVars, fileVars, NoText, Files, Attempts, Whole
<1>3. FilesKnown'
  BY <1>1, FileOwners DEF TextInv, FilesKnown, fileVars
<1>4. BodyWhole'
  BY DEF TextInv, BodyWhole, storeVars, NoText, Whole
<1>5. ExecsClaimed'
  BY <1>1, ClaimsHold DEF TextInv
<1> QED BY <1>1, <1>2, <1>3, <1>4, <1>5 DEF TextInv

\* A step of one execution that makes, deletes or leaves files: each one is
\* known to it afterwards, or left behind.
LEMMA ChangesDisk ==
    ASSUME TextInv, NEW a \in Attempts, NEW e \in Executions, ExecFine(a, e), Becomes(a, e),
           UNCHANGED <<item, apiOn, rows, storeVars>>, mishaps' \in 0..MaxMishaps,
           remote' \in [Attempts -> {"none", "queued", "completed"}],
           passes[a].at # "over" \/ e.at = "over",
           disk' \subseteq Files, orphans' \subseteq Files, orphans \subseteq orphans',
           \A f \in disk' : f[1] = a => f \in orphans' \/ f \in e.files,
           \A f \in disk' : f[1] # a => f \in disk
    PROVE  TextInv'
<1>1. /\ passes' \in [Attempts -> Executions] /\ passes'[a] = e
      /\ \A b \in Attempts : b # a => passes'[b] = passes[b]
      /\ ExecsFine'
  BY ExecMoves DEF TextInv
<1>2. TextTypeOK'
  BY <1>1 DEF TextInv, TextTypeOK, storeVars, NoText
<1>3. FilesKnown'
  <2>1. ASSUME NEW f \in disk' PROVE f \in orphans' \/ f \in passes'[f[1]].files
    <3>1. CASE f[1] = a BY <1>1, <2>1, <3>1
    <3>2. CASE f[1] # a
      <4>1. f \in disk /\ f[1] \in Attempts BY <3>2, <2>1, FileOwners DEF TextInv
      <4>2. f \in orphans \/ f \in passes[f[1]].files BY <4>1 DEF TextInv, FilesKnown
      <4> QED BY <1>1, <3>2, <4>1, <4>2
    <3> QED BY <3>1, <3>2
  <2> QED BY <2>1 DEF FilesKnown
<1>4. BodyWhole'
  BY DEF TextInv, BodyWhole, storeVars, NoText, Whole
<1>5. RowsMayGo' BY DEF TextInv, RowsMayGo
<1>6. ExecsClaimed'
  <2>1. rows \in [TextJobs -> TextRows] BY DEF TextInv, TextTypeOK, TextRows
  <2>2. rows' \in [TextJobs -> TextRows] /\ \A j \in TextJobs : rows'[j].tries >= rows[j].tries
    BY <2>1 DEF TextRows
  <2>3. passes'[a].at # "over" => a[2] <= rows'[a[1]].tries
    BY <1>1 DEF TextInv, ExecsClaimed
  <2> QED BY <1>1, <2>2, <2>3, ClaimsHold DEF TextInv
<1> QED BY <1>1, <1>2, <1>3, <1>4, <1>5, <1>6 DEF TextInv

-----------------------------------------------------------------------------
(* The row.                                                                *)

LEMMA OverFine ==
    ASSUME NEW a \in Attempts
    PROVE  Over \in Executions /\ ExecFine(a, Over) /\ Over.files = {}
BY DEF Over, Executions, ExecFine, TextStages, Methods, CleanUpAhead

LEMMA RequeuedTyped ==
    ASSUME NEW j \in TextJobs, NEW n \in Nat
    PROVE  /\ Requeued(j, n) \in TextRows
           /\ Requeued(j, n).at = "queued" => Requeued(j, n).tries < TextTries[j]
<1>1. CASE n < TextTries[j]
  BY <1>1 DEF Requeued, TextRows
<1>2. CASE ~(n < TextTries[j])
  BY <1>2 DEF Requeued, TextRows
<1> QED BY <1>1, <1>2

\* One row changes, and goes on only with a try left.
LEMMA TextRowMoves ==
    ASSUME TextInv, NEW j \in TextJobs, NEW r \in TextRows,
           rows' = [rows EXCEPT ![j] = r], r.at = "queued" => r.tries < TextTries[j],
           r.tries >= rows[j].tries
    PROVE  /\ rows' \in [TextJobs -> TextRows] /\ rows'[j] = r
           /\ \A i \in TextJobs : rows'[i].tries >= rows[i].tries
           /\ RowsMayGo'
<1>1. rows \in [TextJobs -> TextRows]
  BY DEF TextInv, TextTypeOK, TextRows
<1>2. rows' \in [TextJobs -> TextRows] /\ rows'[j] = r /\ \A i \in TextJobs : i # j => rows'[i] = rows[i]
  BY <1>1
<1>3. \A i \in TextJobs : rows'[i].tries >= rows[i].tries
  BY <1>1, <1>2 DEF TextRows
<1>4. RowsMayGo'
  BY <1>2 DEF TextInv, RowsMayGo
<1> QED BY <1>2, <1>3, <1>4

LEMMA TextStartsKeeps == ASSUME TextInv, NEW j \in TextJobs, TextStarts(j) PROVE TextInv'
<1>1. rows[j].at = "queued" /\ rows[j].tries \in Nat /\ rows[j].tries < TextTries[j] /\ TextTries[j] \in Nat
  BY TextAssumption DEF TextInv, TextTypeOK, RowsMayGo, TextStarts
<1>2. PICK a : a = <<j, rows[j].tries + 1>> OBVIOUS
<1>3. a \in Attempts /\ a[1] = j /\ a[2] = rows[j].tries + 1
  BY <1>1, <1>2 DEF Attempts
<1>4. PICK s \in {"captions", "existing"} : s = IF item.channel THEN "captions" ELSE "existing"
  OBVIOUS
<1>5. PICK e : e = [Over EXCEPT !.at = s] OBVIOUS
<1>6. e \in Executions /\ ExecFine(a, e) /\ e.files = {}
  BY <1>4, <1>5 DEF Over, Executions, ExecFine, TextStages, Methods, CleanUpAhead
<1>7. Becomes(a, e) BY <1>2, <1>4, <1>5 DEF TextStarts
<1>8. PICK r : r = [at |-> "running", tries |-> rows[j].tries + 1] OBVIOUS
<1>9. r \in TextRows /\ r.at # "queued" /\ r.tries = rows[j].tries + 1
  BY <1>1, <1>8 DEF TextRows
<1>10. rows' = [rows EXCEPT ![j] = r] BY <1>8 DEF TextStarts
<1>11. /\ rows' \in [TextJobs -> TextRows] /\ rows'[j] = r
       /\ \A i \in TextJobs : rows'[i].tries >= rows[i].tries
       /\ RowsMayGo'
  <2>1. r.tries >= rows[j].tries BY <1>1, <1>9
  <2> QED BY <1>9, <1>10, <2>1, TextRowMoves
<1>12. passes[a].files = {}
  <2>1. ~(a[2] <= rows[a[1]].tries) BY <1>1, <1>3
  <2>2. passes[a].at = "over" BY <2>1, <1>3 DEF TextInv, ExecsClaimed
  <2> QED BY <2>2, <1>3 DEF TextInv, ExecsFine, ExecFine, CleanUpAhead
<1>13. a[2] <= rows'[a[1]].tries BY <1>1, <1>3, <1>9, <1>11
<1>14. remote' \in [Attempts -> {"none", "queued", "completed"}] /\ UNCHANGED <<item, apiOn, storeVars, fileVars>>
  BY DEF TextInv, TextTypeOK, TextStarts
<1> QED BY <1>3, <1>6, <1>7, <1>11, <1>12, <1>13, <1>14, KeepsDisk

LEMMA RowReclaimedKeeps == ASSUME TextInv, NEW j \in TextJobs, RowReclaimed(j) PROVE TextInv'
<1>1. rows \in [TextJobs -> TextRows] BY DEF TextInv, TextTypeOK, TextRows
<1>2. PICK r : r = Requeued(j, rows[j].tries + 1) OBVIOUS
<1>3. r \in TextRows /\ (r.at = "queued" => r.tries < TextTries[j]) /\ r.tries = rows[j].tries + 1
  BY <1>1, <1>2, RequeuedTyped DEF TextRows, Requeued
<1>4. rows' = [rows EXCEPT ![j] = r] BY <1>2 DEF RowReclaimed
<1>5. /\ rows' \in [TextJobs -> TextRows]
      /\ \A i \in TextJobs : rows'[i].tries >= rows[i].tries
      /\ RowsMayGo'
  <2>1. r.tries >= rows[j].tries BY <1>1, <1>3 DEF TextRows
  <2> QED BY <1>3, <1>4, <2>1, TextRowMoves
<1>6. UNCHANGED <<item, apiOn, passes, remote, storeVars, fileVars>> BY DEF RowReclaimed
<1>7. ExecsClaimed'
  <2> SUFFICES ASSUME NEW b \in Attempts, passes[b].at # "over" PROVE b[2] <= rows'[b[1]].tries
    BY <1>6 DEF ExecsClaimed
  <2>1. b[1] \in TextJobs /\ b[2] \in Int BY TextAssumption DEF Attempts
  <2>2. b[2] <= rows[b[1]].tries BY DEF TextInv, ExecsClaimed
  <2> QED BY <2>1, <2>2, <1>1, <1>5 DEF TextRows
<1>8. TextTypeOK'
  BY <1>5, <1>6 DEF TextInv, TextTypeOK, TextRows, storeVars, fileVars, NoText
<1>9. ExecsFine' /\ FilesKnown' /\ BodyWhole'
  BY <1>6 DEF TextInv, ExecsFine, ExecFine, Part, FilesKnown, BodyWhole, storeVars, fileVars, NoText, Whole
<1> QED BY <1>5, <1>7, <1>8, <1>9 DEF TextInv

LEMMA ReportsKeeps == ASSUME TextInv, NEW a \in Attempts, Reports(a) PROVE TextInv'
<1>1. rows \in [TextJobs -> TextRows] /\ a[1] \in TextJobs
  BY DEF TextInv, TextTypeOK, TextRows, Attempts
<1>2. \E r \in TextRows : /\ rows' = [rows EXCEPT ![a[1]] = r] /\ r.tries = rows[a[1]].tries
                          /\ r.at = "queued" => r.tries < TextTries[a[1]]
  <2>1. CASE rows' = [rows EXCEPT ![a[1]] = [at |-> "done", tries |-> @.tries]]
    <3>1. PICK r : r = [at |-> "done", tries |-> rows[a[1]].tries] OBVIOUS
    <3>2. r \in TextRows /\ r.tries = rows[a[1]].tries /\ r.at # "queued"
      BY <1>1, <3>1 DEF TextRows
    <3> QED BY <2>1, <3>1, <3>2
  <2>2. CASE rows' = [rows EXCEPT ![a[1]] = Requeued(a[1], @.tries)]
    <3>1. PICK r : r = Requeued(a[1], rows[a[1]].tries) OBVIOUS
    <3>2. r \in TextRows /\ r.tries = rows[a[1]].tries /\ (r.at = "queued" => r.tries < TextTries[a[1]])
      BY <1>1, <3>1, RequeuedTyped DEF TextRows, Requeued
    <3> QED BY <2>2, <3>1, <3>2
  <2> QED BY <2>1, <2>2 DEF Reports
<1>3. PICK r \in TextRows : /\ rows' = [rows EXCEPT ![a[1]] = r] /\ r.tries = rows[a[1]].tries
                            /\ r.at = "queued" => r.tries < TextTries[a[1]]
  BY <1>2
<1>4. /\ rows' \in [TextJobs -> TextRows]
      /\ \A i \in TextJobs : rows'[i].tries >= rows[i].tries
      /\ RowsMayGo'
  <2>1. r.tries >= rows[a[1]].tries BY <1>1, <1>3 DEF TextRows
  <2> QED BY <1>1, <1>3, <2>1, TextRowMoves
<1>5. passes[a].files = {}
  BY DEF TextInv, ExecsFine, ExecFine, CleanUpAhead, Reports, InStage
<1>6. /\ Becomes(a, Over) /\ UNCHANGED <<item, apiOn, storeVars, fileVars>>
      /\ remote' \in [Attempts -> {"none", "queued", "completed"}]
  BY DEF Reports, TextInv, TextTypeOK
<1>7. Over.at = "over" BY DEF Over
<1> QED BY <1>4, <1>5, <1>6, <1>7, OverFine, KeepsDisk

LEMMA TextDiesKeeps == ASSUME TextInv, NEW a \in Attempts, TextDies(a) PROVE TextInv'
<1>1. mishaps' \in 0..MaxMishaps
  BY TextAssumption DEF TextInv, TextTypeOK, TextDies, Mishap
<1>2. UNCHANGED <<item, apiOn, rows, storeVars>> /\ remote' \in [Attempts -> {"none", "queued", "completed"}]
      /\ Becomes(a, Over) /\ disk' = disk /\ orphans' = orphans \cup {f \in disk : f[1] = a}
  BY DEF TextInv, TextTypeOK, TextDies
<1>3. disk' \subseteq Files /\ orphans' \subseteq Files
  BY <1>2 DEF TextInv, TextTypeOK
<1>4. Over.at = "over" BY DEF Over
<1> QED BY <1>1, <1>2, <1>3, <1>4, OverFine, ChangesDisk

-----------------------------------------------------------------------------
(* The passes.                                                             *)

\* What the early passes become: another stage, without files or text.
LEMMA StageFine ==
    ASSUME TextInv, NEW a \in Attempts, passes[a].files = {}, passes[a].method = "none",
           NEW s \in {"captions", "existing", "submit", "poll", "download", "cleanup", "raised"}
    PROVE  \E e \in Executions : e = [passes[a] EXCEPT !.at = s] /\ ExecFine(a, e) /\ e.files = {} /\ e.at = s
<1>1. PICK e : e = [passes[a] EXCEPT !.at = s] OBVIOUS
<1>2. passes[a] \in Executions BY DEF TextInv, TextTypeOK
<1>3. e.at = s /\ e.method = "none" /\ e.files = {} /\ e.parts = passes[a].parts /\ e \in Executions
  BY <1>1, <1>2 DEF Executions, TextStages
<1>4. ExecFine(a, e) BY <1>3 DEF ExecFine
<1> QED BY <1>1, <1>3, <1>4

LEMMA TextFine ==
    ASSUME TextInv, NEW a \in Attempts, passes[a].files = {}, NEW m \in Methods \ {"none"}
    PROVE  \E e \in Executions : /\ e = [passes[a] EXCEPT !.at = "store", !.method = m, !.parts = Whole]
                                 /\ ExecFine(a, e) /\ e.files = {} /\ e.at = "store"
<1>1. PICK e : e = [passes[a] EXCEPT !.at = "store", !.method = m, !.parts = Whole] OBVIOUS
<1>2. passes[a] \in Executions BY DEF TextInv, TextTypeOK
<1>3. e.at = "store" /\ e.method = m /\ e.files = {} /\ e.parts = Whole /\ e \in Executions
  BY <1>1, <1>2 DEF Executions, TextStages
<1>4. ExecFine(a, e) BY <1>3 DEF ExecFine
<1> QED BY <1>1, <1>3, <1>4

\* A step from a stage that is not the last leaves the row as it is.
LEMMA StillClaimed ==
    ASSUME TextInv, NEW a \in Attempts, passes[a].at # "over", UNCHANGED rows
    PROVE  /\ a[2] <= rows'[a[1]].tries /\ rows' \in [TextJobs -> TextRows] /\ RowsMayGo'
           /\ \A j \in TextJobs : rows'[j].tries >= rows[j].tries
<1>1. rows \in [TextJobs -> TextRows] BY DEF TextInv, TextTypeOK, TextRows
<1> QED BY <1>1 DEF TextInv, ExecsClaimed, RowsMayGo, TextRows

\* An early pass goes on to another, or has the text.
LEMMA EarlyGoes ==
    ASSUME TextInv, NEW a \in Attempts, passes[a].files = {}, passes[a].method = "none", passes[a].at # "over",
           NEW s \in {"existing", "submit", "poll", "download", "raised"}, Goes(a, s),
           UNCHANGED <<item, apiOn, rows, storeVars, fileVars>>,
           remote' \in [Attempts -> {"none", "queued", "completed"}]
    PROVE  TextInv'
<1>1. PICK e \in Executions : e = [passes[a] EXCEPT !.at = s] /\ ExecFine(a, e) /\ e.files = {}
  <2>1. s \in {"captions", "existing", "submit", "poll", "download", "cleanup", "raised"} OBVIOUS
  <2> QED BY <2>1, StageFine
<1>2. Becomes(a, e) BY <1>1 DEF Goes
<1> QED BY <1>1, <1>2, StillClaimed, KeepsDisk

LEMMA EarlyHas ==
    ASSUME TextInv, NEW a \in Attempts, passes[a].files = {}, passes[a].at # "over",
           NEW m \in Methods \ {"none"}, Has(a, m),
           UNCHANGED <<item, apiOn, rows, remote, storeVars, fileVars>>
    PROVE  TextInv'
<1>1. PICK e \in Executions : /\ e = [passes[a] EXCEPT !.at = "store", !.method = m, !.parts = Whole]
                              /\ ExecFine(a, e) /\ e.files = {}
  BY TextFine
<1>2. Becomes(a, e) BY <1>1 DEF Has
<1>3. remote' \in [Attempts -> {"none", "queued", "completed"}] BY DEF TextInv, TextTypeOK
<1> QED BY <1>1, <1>2, <1>3, StillClaimed, KeepsDisk

LEMMA EarlyFine ==
    ASSUME TextInv, NEW a \in Attempts, passes[a].at \in {"captions", "existing", "submit", "poll", "download"}
    PROVE  passes[a].files = {} /\ passes[a].method = "none"
BY DEF TextInv, ExecsFine, ExecFine, CleanUpAhead

LEMMA AsksTyped ==
    ASSUME TextInv, NEW a \in Attempts, Asks(a) \/ UNCHANGED remote
    PROVE  remote' \in [Attempts -> {"none", "queued", "completed"}]
BY DEF TextInv, TextTypeOK, Asks

LEMMA EarlyPasses ==
    ASSUME TextInv, NEW a \in Attempts, CaptionsPass(a) \/ ExistingPass(a) \/ ApiPoll(a)
    PROVE  TextInv'
<1>1. passes[a].at # "over" /\ passes[a].files = {} /\ passes[a].method = "none"
  BY EarlyFine DEF CaptionsPass, ExistingPass, ApiPoll, InStage
<1>2. UNCHANGED <<item, apiOn, rows, remote, storeVars, fileVars>>
  BY DEF CaptionsPass, ExistingPass, ApiPoll
<1>3. \/ \E m \in {"youtube_captions", "existing_transcript", "assemblyai"} : Has(a, m)
      \/ \E s \in {"existing", "submit", "download"} : Goes(a, s)
  BY DEF CaptionsPass, ExistingPass, ApiPoll
<1>4. CASE \E m \in {"youtube_captions", "existing_transcript", "assemblyai"} : Has(a, m)
  <2>1. PICK m \in Methods \ {"none"} : Has(a, m) BY <1>4 DEF Methods
  <2> QED BY <1>1, <1>2, <2>1, EarlyHas
<1>5. CASE \E s \in {"existing", "submit", "download"} : Goes(a, s)
  <2>1. PICK s \in {"existing", "submit", "poll", "download", "raised"} : Goes(a, s) BY <1>5
  <2> QED BY <1>1, <1>2, <2>1, EarlyGoes, AsksTyped
<1> QED BY <1>3, <1>4, <1>5

-----------------------------------------------------------------------------
(* Temporary files.                                                        *)

LEMMA FileTyped ==
    ASSUME NEW a \in Attempts
    PROVE  /\ \A n \in {"audio", "wav", "upload"} : File(a, n) \in Files /\ File(a, n)[1] = a
           /\ \A i \in Whole : Part(a, i) \in Files /\ Part(a, i)[1] = a
           /\ 1 \in Whole
<1>1. Whole \subseteq Nat /\ 1 \in Whole
  BY TextAssumption DEF Whole
<1> QED BY <1>1 DEF Files, File, Part

\* A tool's files join those its execution knows.
LEMMA MadeKeeps ==
    ASSUME TextInv, NEW a \in Attempts, passes[a].at # "over", passes[a].method = "none",
           NEW s \in {"upload", "convert", "split", "send"}, NEW files \in SUBSET Files,
           \A f \in files : f[1] = a,
           s = "send" /\ item.long => \A i \in Whole : Part(a, i) \in files,
           Made(a, s, files), UNCHANGED <<item, apiOn, rows, remote, storeVars>>
    PROVE  TextInv'
<1>1. PICK e : e = [passes[a] EXCEPT !.at = s, !.files = @ \cup files] OBVIOUS
<1>2. passes[a] \in Executions /\ ExecFine(a, passes[a])
  BY DEF TextInv, TextTypeOK, ExecsFine
<1>3. /\ e \in Executions /\ e.at = s /\ e.method = "none" /\ e.files = passes[a].files \cup files
  BY <1>1, <1>2 DEF Executions, TextStages
<1>4. ExecFine(a, e) BY <1>2, <1>3 DEF ExecFine, CleanUpAhead
<1>5. Becomes(a, e) /\ disk' = disk \cup files /\ UNCHANGED <<orphans, mishaps>> BY <1>1 DEF Made
<1>6. mishaps' \in 0..MaxMishaps /\ disk' \subseteq Files /\ orphans' \subseteq Files
      /\ remote' \in [Attempts -> {"none", "queued", "completed"}]
  BY <1>5 DEF TextInv, TextTypeOK
<1>7. \A f \in disk' : f[1] = a => f \in orphans' \/ f \in e.files
  BY <1>3, <1>5 DEF TextInv, FilesKnown
<1>8. \A f \in disk' : f[1] # a => f \in disk BY <1>5
<1> QED BY <1>3, <1>4, <1>5, <1>6, <1>7, <1>8, ChangesDisk

\* A tool that fails leaves its execution what it knew, and perhaps an orphan.
LEMMA ToolFailsKeeps ==
    ASSUME TextInv, NEW a \in Attempts, passes[a].at # "over", passes[a].method = "none",
           NEW partial \in Files, partial[1] = a,
           ToolFails(a, partial), UNCHANGED <<item, apiOn, rows, remote, storeVars>>
    PROVE  TextInv'
<1>1. PICK e : e = [passes[a] EXCEPT !.at = "cleanup"] OBVIOUS
<1>2. passes[a] \in Executions /\ ExecFine(a, passes[a])
  BY DEF TextInv, TextTypeOK, ExecsFine
<1>3. /\ e \in Executions /\ e.at = "cleanup" /\ e.method = "none" /\ e.files = passes[a].files
  BY <1>1, <1>2 DEF Executions, TextStages
<1>4. ExecFine(a, e) BY <1>2, <1>3 DEF ExecFine, CleanUpAhead
<1>5. Becomes(a, e) BY <1>1 DEF ToolFails, Goes
<1>6. \/ UNCHANGED fileVars
      \/ Mishap /\ disk' = disk \cup {partial} /\ orphans' = orphans \cup {partial}
  BY DEF ToolFails
<1>7. mishaps' \in 0..MaxMishaps /\ disk' \subseteq Files /\ orphans' \subseteq Files
      /\ remote' \in [Attempts -> {"none", "queued", "completed"}]
  BY <1>6, TextAssumption DEF TextInv, TextTypeOK, fileVars, Mishap
<1>8. orphans \subseteq orphans' /\ \A f \in disk' : f \in disk \/ (f = partial /\ f \in orphans')
  BY <1>6 DEF fileVars
<1>9. \A f \in disk' : f[1] = a => f \in orphans' \/ f \in e.files
  BY <1>3, <1>8 DEF TextInv, FilesKnown
<1>10. \A f \in disk' : f[1] # a => f \in disk BY <1>8
<1> QED BY <1>3, <1>4, <1>5, <1>7, <1>8, <1>9, <1>10, ChangesDisk

\* The clean-up: what it knew is gone, or cannot be unlinked.
LEMMA CleansUpKeeps ==
    ASSUME TextInv, NEW a \in Attempts, passes[a].at # "over",
           NEW s \in {"poll", "download", "store", "raised"}, CleansUp(a, s),
           s = "store" => passes[a].parts = Whole /\ passes[a].method # "none",
           s \in {"poll", "download"} => passes[a].method = "none",
           UNCHANGED <<item, apiOn, rows, storeVars>>, Asks(a) \/ UNCHANGED remote
    PROVE  TextInv'
<1>1. PICK e : e = [passes[a] EXCEPT !.at = s, !.files = {}] OBVIOUS
<1>2. passes[a] \in Executions /\ ExecFine(a, passes[a])
  BY DEF TextInv, TextTypeOK, ExecsFine
<1>3. /\ e \in Executions /\ e.at = s /\ e.method = passes[a].method /\ e.files = {}
      /\ e.parts = passes[a].parts
  BY <1>1, <1>2 DEF Executions, TextStages
<1>4. ExecFine(a, e) BY <1>2, <1>3 DEF ExecFine, CleanUpAhead
<1>5. Becomes(a, e) BY <1>1 DEF CleansUp
<1>6. PICK kept \in SUBSET passes[a].files :
          /\ disk' = disk \ (passes[a].files \ kept) /\ orphans' = orphans \cup kept
          /\ IF kept = {} THEN UNCHANGED mishaps ELSE Mishap
  BY DEF CleansUp, Cleaned
<1>7. mishaps' \in 0..MaxMishaps
  BY <1>6, TextAssumption DEF TextInv, TextTypeOK, Mishap
<1>8. disk' \subseteq Files /\ orphans' \subseteq Files
  BY <1>6, FileOwners DEF TextInv, TextTypeOK
<1>9. \A f \in disk' : f[1] = a => f \in orphans' \/ f \in e.files
  BY <1>6 DEF TextInv, FilesKnown
<1>10. orphans \subseteq orphans' /\ \A f \in disk' : f[1] # a => f \in disk BY <1>6
<1> QED BY <1>3, <1>4, <1>5, <1>7, <1>8, <1>9, <1>10, AsksTyped, ChangesDisk

LEMMA ApiSubmitKeeps == ASSUME TextInv, NEW a \in Attempts, ApiSubmit(a) PROVE TextInv'
<1>1. passes[a].at # "over" /\ passes[a].files = {} /\ passes[a].method = "none"
  BY EarlyFine DEF ApiSubmit, InStage
<1>2. UNCHANGED <<item, apiOn, rows, storeVars>> BY DEF ApiSubmit
<1>3. CASE \E s \in {"poll", "download"} : Goes(a, s) /\ (Asks(a) \/ UNCHANGED remote) /\ UNCHANGED fileVars
  <2>1. PICK s \in {"existing", "submit", "poll", "download", "raised"} :
            Goes(a, s) /\ (Asks(a) \/ UNCHANGED remote) /\ UNCHANGED fileVars
    BY <1>3
  <2> QED BY <1>1, <1>2, <2>1, AsksTyped, EarlyGoes
<1>4. CASE Made(a, "upload", {File(a, "upload")}) /\ UNCHANGED remote
  BY <1>1, <1>2, <1>4, FileTyped, MadeKeeps
<1> QED BY <1>3, <1>4 DEF ApiSubmit

LEMMA ApiUploadKeeps == ASSUME TextInv, NEW a \in Attempts, ApiUpload(a) PROVE TextInv'
<1>1. passes[a].at = "upload" /\ passes[a].method = "none"
  BY DEF TextInv, ExecsFine, ExecFine, ApiUpload, InStage
<1>2. UNCHANGED <<item, apiOn, rows, storeVars>> BY DEF ApiUpload
<1>3. PICK s \in {"poll", "download", "store", "raised"} :
          s # "store" /\ CleansUp(a, s) /\ (Asks(a) \/ UNCHANGED remote)
  BY DEF ApiUpload
<1> QED BY <1>1, <1>2, <1>3, CleansUpKeeps

LEMMA DownloadKeeps == ASSUME TextInv, NEW a \in Attempts, Download(a) PROVE TextInv'
<1>1. passes[a].at # "over" /\ passes[a].method = "none"
  BY EarlyFine DEF Download, InStage
<1>2. UNCHANGED <<item, apiOn, rows, remote, storeVars>> BY DEF Download
<1> QED BY <1>1, <1>2, FileTyped, MadeKeeps, ToolFailsKeeps DEF Download

LEMMA ConvertKeeps == ASSUME TextInv, NEW a \in Attempts, ConvertToWav(a) PROVE TextInv'
<1>1. passes[a].at # "over" /\ passes[a].method = "none"
  BY DEF ConvertToWav, InStage, TextInv, ExecsFine, ExecFine
<1>2. UNCHANGED <<item, apiOn, rows, remote, storeVars>> BY DEF ConvertToWav
<1>3. CASE \E s \in {"split", "send"} : Made(a, s, {File(a, "wav")}) /\ (s = "send" => ~item.long)
  BY <1>1, <1>2, <1>3, FileTyped, MadeKeeps
<1>4. CASE ToolFails(a, File(a, "wav"))
  BY <1>1, <1>2, <1>4, FileTyped, ToolFailsKeeps
<1> QED BY <1>3, <1>4 DEF ConvertToWav

LEMMA SplitKeeps == ASSUME TextInv, NEW a \in Attempts, SplitAudio(a) PROVE TextInv'
<1>1. passes[a].at # "over" /\ passes[a].method = "none"
  BY DEF SplitAudio, InStage, TextInv, ExecsFine, ExecFine
<1>2. UNCHANGED <<item, apiOn, rows, remote, storeVars>> BY DEF SplitAudio
<1>3. PICK files : files = {Part(a, i) : i \in Whole} OBVIOUS
<1>4. files \subseteq Files /\ (\A f \in files : f[1] = a) /\ \A i \in Whole : Part(a, i) \in files
  BY <1>3, FileTyped
<1>5. CASE Made(a, "send", files)
  BY <1>1, <1>2, <1>4, <1>5, MadeKeeps
<1>6. CASE ToolFails(a, Part(a, 1))
  BY <1>1, <1>2, <1>6, FileTyped, ToolFailsKeeps
<1> QED BY <1>3, <1>5, <1>6 DEF SplitAudio

\* Sending changes what the execution has heard, and no file.
LEMMA SendsOn ==
    ASSUME TextInv, NEW a \in Attempts, passes[a].at = "send",
           NEW s \in {"send", "cleanup"}, NEW m \in Methods, NEW parts \in SUBSET Whole,
           s = "send" => m = "none", s = "cleanup" /\ m = "parakeet" => parts = Whole,
           Becomes(a, [passes[a] EXCEPT !.at = s, !.method = m, !.parts = parts]),
           UNCHANGED <<item, apiOn, rows, remote, storeVars, fileVars>>
    PROVE  TextInv'
<1>1. PICK e : e = [passes[a] EXCEPT !.at = s, !.method = m, !.parts = parts] OBVIOUS
<1>2. passes[a] \in Executions /\ ExecFine(a, passes[a])
  BY DEF TextInv, TextTypeOK, ExecsFine
<1>3. e \in Executions /\ e.at = s /\ e.method = m /\ e.parts = parts /\ e.files = passes[a].files
  BY <1>1, <1>2 DEF Executions, TextStages
<1>4. ExecFine(a, e) BY <1>2, <1>3 DEF ExecFine, CleanUpAhead
<1>5. Becomes(a, e) BY <1>1
<1>6. remote' \in [Attempts -> {"none", "queued", "completed"}] BY DEF TextInv, TextTypeOK
<1> QED BY <1>3, <1>4, <1>5, <1>6, StillClaimed, KeepsDisk

LEMMA SendKeeps == ASSUME TextInv, NEW a \in Attempts, SendSegment(a) \/ SendWhole(a) PROVE TextInv'
<1>1. /\ passes[a].at = "send" /\ passes[a].method = "none" /\ passes[a] \in Executions
      /\ UNCHANGED <<item, apiOn, rows, remote, storeVars, fileVars>>
  BY DEF SendSegment, SendWhole, InStage, TextInv, TextTypeOK, ExecsFine, ExecFine
<1>2. passes[a].parts \in SUBSET Whole BY <1>1 DEF Executions
<1>3. CASE Goes(a, "cleanup")
  <2>1. Becomes(a, [passes[a] EXCEPT !.at = "cleanup", !.method = "none", !.parts = passes[a].parts])
    <3>1. [passes[a] EXCEPT !.at = "cleanup"]
              = [passes[a] EXCEPT !.at = "cleanup", !.method = "none", !.parts = passes[a].parts]
      BY <1>1 DEF Executions
    <3> QED BY <1>3, <3>1 DEF Goes
  <2>2. "none" \in Methods /\ "cleanup" \in {"send", "cleanup"} BY DEF Methods
  <2> QED BY <1>1, <1>2, <2>1, <2>2, SendsOn
<1>4. CASE \E i \in Whole : Becomes(a, [passes[a] EXCEPT !.parts = @ \cup {i}])
  <2>1. PICK i \in Whole : Becomes(a, [passes[a] EXCEPT !.parts = @ \cup {i}]) BY <1>4
  <2>2. PICK parts \in SUBSET Whole : parts = passes[a].parts \cup {i} BY <1>2
  <2>3. [passes[a] EXCEPT !.parts = @ \cup {i}]
            = [passes[a] EXCEPT !.at = "send", !.method = "none", !.parts = parts]
    BY <1>1, <2>2 DEF Executions
  <2>4. "none" \in Methods /\ "send" \in {"send", "cleanup"} BY DEF Methods
  <2>5. Becomes(a, [passes[a] EXCEPT !.at = "send", !.method = "none", !.parts = parts])
    BY <2>1, <2>3
  <2> QED BY <1>1, <2>4, <2>5, SendsOn
<1>5. CASE /\ item.long
           /\ {i \in Whole : Part(a, i) \in passes[a].files /\ i \notin passes[a].parts} = {}
           /\ Becomes(a, [passes[a] EXCEPT !.at = "cleanup", !.method = "parakeet"])
  <2>1. \A i \in Whole : Part(a, i) \in passes[a].files
    BY <1>1, <1>5 DEF TextInv, ExecsFine, ExecFine
  <2>2. passes[a].parts = Whole BY <1>2, <1>5, <2>1
  <2>3. [passes[a] EXCEPT !.at = "cleanup", !.method = "parakeet"]
            = [passes[a] EXCEPT !.at = "cleanup", !.method = "parakeet", !.parts = Whole]
    BY <1>1, <2>2 DEF Executions
  <2>4. "parakeet" \in Methods /\ "cleanup" \in {"send", "cleanup"} BY DEF Methods
  <2>5. Becomes(a, [passes[a] EXCEPT !.at = "cleanup", !.method = "parakeet", !.parts = Whole])
    BY <1>5, <2>3
  <2> QED BY <1>1, <2>4, <2>5, SendsOn
<1>6. CASE Becomes(a, [passes[a] EXCEPT !.at = "cleanup", !.method = "parakeet", !.parts = Whole])
  <2>1. "parakeet" \in Methods /\ "cleanup" \in {"send", "cleanup"} BY DEF Methods
  <2> QED BY <1>1, <1>6, <2>1, SendsOn
<1> QED BY <1>3, <1>4, <1>5, <1>6 DEF SendSegment, SendWhole

LEMMA GpuEndsKeeps == ASSUME TextInv, NEW a \in Attempts, GpuEnds(a) PROVE TextInv'
<1>1. PICK s \in {"poll", "download", "store", "raised"} :
          s = (IF passes[a].method = "parakeet" THEN "store" ELSE "raised")
  OBVIOUS
<1>2. passes[a].at = "cleanup" /\ CleansUp(a, s) /\ UNCHANGED <<item, apiOn, rows, remote, storeVars>>
  BY <1>1 DEF GpuEnds, InStage
<1>3. s = "store" => passes[a].parts = Whole /\ passes[a].method # "none"
  BY <1>1, <1>2 DEF TextInv, ExecsFine, ExecFine
<1>4. s \notin {"poll", "download"} BY <1>1
<1> QED BY <1>2, <1>3, <1>4, CleansUpKeeps

LEMMA StoreKeeps == ASSUME TextInv, NEW a \in Attempts, Store(a) PROVE TextInv'
<1>1. /\ passes[a].at = "store" /\ passes[a].files = {} /\ passes[a] \in Executions
      /\ passes[a].parts = Whole /\ passes[a].method # "none"
  BY DEF Store, InStage, TextInv, TextTypeOK, ExecsFine, ExecFine, CleanUpAhead
<1>2. PICK e : e = [passes[a] EXCEPT !.at = "stored"] OBVIOUS
<1>3. e \in Executions /\ e.at = "stored" /\ e.files = {} BY <1>1, <1>2 DEF Executions, TextStages
<1>4. ExecFine(a, e) BY <1>3 DEF ExecFine
<1>5. Becomes(a, e) /\ UNCHANGED <<item, apiOn, rows, remote, fileVars>> BY <1>2 DEF Store, Goes
<1>6. /\ passes' \in [Attempts -> Executions] /\ passes'[a] = e
      /\ \A b \in Attempts : b # a => passes'[b] = passes[b]
      /\ ExecsFine'
  BY <1>3, <1>4, <1>5, ExecMoves DEF TextInv
<1>7. /\ body' \in [method : Methods, parts : SUBSET Whole, by : Attempts]
      /\ body'.parts = Whole /\ body'.method # "none"
  BY <1>1 DEF Store, Executions
<1>8. costs' \subseteq Attempts /\ embeds' \in Nat
  BY DEF Store, CostsAfter, TextInv, TextTypeOK
<1>9. TextTypeOK'
  BY <1>5, <1>6, <1>7, <1>8 DEF TextInv, TextTypeOK, fileVars
<1>10. FilesKnown'
  BY <1>1, <1>5, <1>6, FileOwners DEF TextInv, FilesKnown, fileVars
<1>11. RowsMayGo' BY <1>5 DEF TextInv, RowsMayGo
<1>12. ExecsClaimed'
  <2>1. /\ rows' \in [TextJobs -> TextRows] /\ a[2] <= rows'[a[1]].tries
        /\ \A j \in TextJobs : rows'[j].tries >= rows[j].tries
    BY <1>1, <1>5, StillClaimed
  <2> QED BY <1>6, <2>1, ClaimsHold DEF TextInv
<1>13. BodyWhole' BY <1>7 DEF BodyWhole, Whole
<1> QED BY <1>6, <1>9, <1>10, <1>11, <1>12, <1>13 DEF TextInv

-----------------------------------------------------------------------------
LEMMA TextInitially == TextInit => TextInv
<1> SUFFICES ASSUME TextInit PROVE TextInv
  OBVIOUS
<1>1. TextTypeOK
  <2>1. [j \in TextJobs |-> [at |-> "queued", tries |-> 0]] \in [TextJobs -> TextRows]
    BY DEF TextRows
  <2>2. passes \in [Attempts -> Executions]
    BY OverFine DEF TextInit
  <2>3. mishaps \in 0..MaxMishaps BY TextAssumption DEF TextInit
  <2> QED BY <2>1, <2>2, <2>3 DEF TextInit, TextTypeOK, TextRows
<1>2. RowsMayGo BY TextAssumption DEF TextInit, RowsMayGo
<1>3. \A a \in Attempts : passes[a] = Over BY DEF TextInit
<1>4. ExecsFine BY <1>3, OverFine DEF ExecsFine
<1>5. ExecsClaimed BY <1>3 DEF ExecsClaimed, Over
<1>6. FilesKnown /\ BodyWhole BY DEF TextInit, FilesKnown, BodyWhole
<1> QED BY <1>1, <1>2, <1>4, <1>5, <1>6 DEF TextInv

\* What happens outside the executions.
LEMMA OutsideKeeps ==
    ASSUME TextInv, ToggleApi \/ (\E a \in Attempts : RemoteCompletes(a)) \/ UNCHANGED textVars PROVE TextInv'
<1>1. UNCHANGED <<item, rows, passes, storeVars, fileVars>>
  BY DEF ToggleApi, RemoteCompletes, textVars
<1>2. apiOn' \in BOOLEAN /\ remote' \in [Attempts -> {"none", "queued", "completed"}]
  BY DEF ToggleApi, RemoteCompletes, textVars, TextInv, TextTypeOK
<1>3. TextTypeOK'
  BY <1>1, <1>2 DEF TextInv, TextTypeOK, storeVars, fileVars, NoText
<1> QED BY <1>1, <1>3 DEF TextInv, RowsMayGo, ExecsFine, ExecFine, ExecsClaimed, Part, FilesKnown, BodyWhole,
                          storeVars, fileVars, NoText, Whole

LEMMA TextStepKeeps == TextInv /\ [TextNext]_textVars => TextInv'
<1> SUFFICES ASSUME TextInv, [TextNext]_textVars PROVE TextInv'
  OBVIOUS
<1>1. ASSUME NEW a \in Attempts, TextStep(a) PROVE TextInv'
  BY <1>1, EarlyPasses, ApiSubmitKeeps, ApiUploadKeeps, DownloadKeeps, ConvertKeeps, SplitKeeps, SendKeeps,
     GpuEndsKeeps, StoreKeeps, ReportsKeeps DEF TextStep
<1> QED BY <1>1, TextStartsKeeps, RowReclaimedKeeps, TextDiesKeeps, OutsideKeeps DEF TextNext

THEOREM TextInvariant == TextSpec => []TextInv
<1> QED BY TextInitially, TextStepKeeps, PTL DEF TextSpec

\* TextTypeOK, for every set of rows, tries, segments and mishaps.
THEOREM TextTypes == TextSpec => []TextTypeOK
<1>1. TextInv => TextTypeOK
  BY DEF TextInv
<1> QED BY <1>1, TextInvariant, PTL

\* AudioGone (audio.py's "Audio never persisted"): whatever tools and requests
\* fail and however many executions of a row overlap, a file outlasts its
\* execution only if the worker died, the tool broke off in it, or its unlink failed.
THEOREM AudioIsGone == TextSpec => []AudioGone
<1>1. TextInv => AudioGone
  <2> SUFFICES ASSUME TextInv, NEW f \in disk \ orphans PROVE passes[f[1]].at \in CleanUpAhead
    BY DEF AudioGone
  <2>1. f[1] \in Attempts /\ f \in passes[f[1]].files
    BY FileOwners DEF TextInv, FilesKnown
  <2> QED BY <2>1 DEF TextInv, ExecsFine, ExecFine
<1> QED BY <1>1, TextInvariant, PTL

\* What is stored is the text of every segment, whichever pass made it.
THEOREM StoredWhole == TextSpec => []BodyWhole
<1>1. TextInv => BodyWhole
  BY DEF TextInv
<1> QED BY <1>1, TextInvariant, PTL

-----------------------------------------------------------------------------
(* UsageLimits.                                                            *)

\* A transaction's row is its own: no other's, and not in the table yet.
IdsFresh ==
    /\ \A r \in calls : r.id <= placed
    /\ \A c \in Callers : txn[c] # None =>
          /\ txn[c].id <= placed
          /\ \A r \in calls : r.id # txn[c].id
          /\ \A d \in Callers : txn[d] # None /\ txn[d].id = txn[c].id => d = c

\* The client that called holds the lock until its transaction ends.
LockHeld == \A c \in Clients : txn[c].at = "called" <=> rateLock = c

\* What was admitted lately has not been purged.
RecentlyThere ==
    /\ \A j \in Rollups : rollup[j] # None => rollup[j].began <= half
    /\ \A r \in admitted : r.kind = "service" /\ (r.at >= half - 4 => r \in calls)

\* What the transactions since an hour before c's start were admitted.
Since(c) == {r \in admitted : r.at > txn[c].began - 2}

\* Since the holder counted, no row of its window came in.
RoomForHolder ==
    limited => \A c \in Clients : rateLock = c /\ txn[c].soon => Cardinality(Since(c)) < Limit

LimitInv ==
    /\ UsageTypeOK /\ IsFiniteSet(admitted) /\ IdsFresh
    /\ LockHeld /\ RecentlyThere /\ RoomForHolder /\ WithinLimit

InLedger(k, h) == \E e \in BagToSet(ledger) : e.kind = k /\ e.hour = h
AboutToBe(j, k, h) == \E e \in rollup[j].new : e.kind = k /\ e.hour = h

\* What an open rollup is about to insert is exact, and leaves out no hour
\* whose rows it may purge; a rollup that is alone repeats no entry.
RollupFaithful ==
    \A j \in Rollups : rollup[j] # None =>
        /\ \A e \in rollup[j].new :
              /\ e.hour < HourOf(rollup[j].began)
              /\ <<e.kind, e.hour>> \notin late => e.count = total[e.kind][e.hour]
        /\ \A k \in Kinds : \A h \in Hours :
              h < HourOf(rollup[j].began) /\ <<k, h>> \notin late /\ CallsOf(k, h) # {}
                  => InLedger(k, h) \/ AboutToBe(j, k, h)
        /\ ~overlapped =>
              /\ \A i \in Rollups : rollup[i] # None => i = j
              /\ \A e \in rollup[j].new : ~InLedger(e.kind, e.hour)

LedgerInv == UsageTypeOK /\ IdsFresh /\ RollupFaithful /\ EveryCallCounted

LEMMA UsageInitially == UsageInit => LimitInv /\ LedgerInv
<1> SUFFICES ASSUME UsageInit PROVE LimitInv /\ LedgerInv
  OBVIOUS
<1>1. IsABag(ledger) /\ BagToSet(ledger) = {}
  BY DEF UsageInit, EmptyBag, SetToBag, BagToSet, IsABag
<1>2. UsageTypeOK
  <2>1. IsFiniteSet(calls)
    BY FS_EmptySet DEF UsageInit
  <2>2. 0 \in Nat /\ 0 \in 0..MaxHalf /\ 0 \in 0..MaxCalls
    BY UsageAssumption
  <2> QED BY <1>1, <2>1, <2>2 DEF UsageInit, UsageTypeOK
<1>3. calls = {} /\ \A c \in Callers : txn[c] = None
  BY DEF UsageInit
<1>4. IdsFresh
  BY <1>3 DEF IdsFresh
<1>5. LockHeld
  BY <1>3, UsageAssumption DEF LockHeld, None, Callers, UsageInit
<1>6. RoomForHolder
  BY UsageAssumption DEF RoomForHolder, UsageInit
<1>7. WithinLimit
  <2> SUFFICES ASSUME NEW h \in 0..MaxHalf
               PROVE  Cardinality({r \in admitted : r.at \in (h - 1)..h}) <= Limit
    BY DEF WithinLimit
  <2>1. {r \in admitted : r.at \in (h - 1)..h} = {}
    BY DEF UsageInit
  <2> QED BY <2>1, FS_EmptySet, UsageAssumption
<1>8. RollupFaithful
  BY DEF RollupFaithful, UsageInit
<1>9. EveryCallCounted
  <2> SUFFICES ASSUME NEW k \in Kinds, NEW h \in Hours
               PROVE  Cardinality(CallsOf(k, h)) = total[k][h]
    BY <1>1 DEF EveryCallCounted
  <2>1. CallsOf(k, h) = {} /\ total[k][h] = 0
    BY <1>3 DEF CallsOf, UsageInit
  <2> QED BY <2>1, FS_EmptySet
<1>10. IsFiniteSet(admitted) /\ RecentlyThere
  BY FS_EmptySet DEF UsageInit, RecentlyThere
<1> QED BY <1>2, <1>4, <1>5, <1>6, <1>7, <1>8, <1>9, <1>10 DEF LimitInv, LedgerInv

-----------------------------------------------------------------------------
(* Types and fresh ids.                                                    *)

UsageBase == UsageTypeOK /\ IdsFresh

Txns == {None} \cup [at : {"begun", "called"}, began : 0..MaxHalf, id : 1..MaxCalls, soon : BOOLEAN]
OpenRollups == {None} \cup [at : {"inserted"}, began : 0..MaxHalf, new : SUBSET Entries]

LEMMA NoneIsNoTxn ==
    /\ None.at = "none"
    /\ \A t \in Txns : t # None => t \in [at : {"begun", "called"}, began : 0..MaxHalf, id : 1..MaxCalls, soon : BOOLEAN]
    /\ \A t \in Txns : t.at \in {"begun", "called"} => t # None
BY DEF None, Txns

\* A step that changes one transaction, to none or to a later stage, and no row.
LEMMA TxnMoves ==
    ASSUME UsageBase, NEW c \in Callers, NEW t \in Txns,
           t # None => txn[c] # None /\ t.id = txn[c].id,
           txn' = [txn EXCEPT ![c] = t],
           rateLock' \in Clients \cup {NoClient},
           UNCHANGED <<half, limited, calls, ledger, rollup, placed, total, late, overlapped, admitted>>
    PROVE  UsageBase'
<1>1. txn \in [Callers -> Txns]
  BY DEF UsageBase, UsageTypeOK, Txns
<1>2. txn' \in [Callers -> Txns] /\ txn'[c] = t /\ \A d \in Callers \ {c} : txn'[d] = txn[d]
  BY <1>1
<1>3. UsageTypeOK'
  BY <1>2 DEF UsageBase, UsageTypeOK, Txns
<1>4. IdsFresh'
  BY <1>2 DEF UsageBase, IdsFresh
<1> QED BY <1>3, <1>4 DEF UsageBase

LEMMA TxnBeginsBase == ASSUME UsageBase, NEW c \in Callers, TxnBegins(c) PROVE UsageBase'
<1> DEFINE t == [at |-> "begun", began |-> half, id |-> placed + 1, soon |-> FALSE]
<1>1. /\ placed' = placed + 1 /\ placed + 1 \in 1..MaxCalls /\ placed' \in 0..MaxCalls
      /\ txn' = [txn EXCEPT ![c] = t]
      /\ UNCHANGED <<half, limited, rateLock, calls, ledger, rollup, total, late, overlapped, admitted>>
  BY UsageAssumption DEF TxnBegins, UsageBase, UsageTypeOK
<1>2. t \in Txns /\ t.id = placed + 1
  BY <1>1 DEF Txns, UsageBase, UsageTypeOK
<1>3. txn \in [Callers -> Txns]
  BY DEF UsageBase, UsageTypeOK, Txns
<1> HIDE DEF t
<1>4. txn' \in [Callers -> Txns] /\ txn'[c] = t /\ \A d \in Callers \ {c} : txn'[d] = txn[d]
  BY <1>1, <1>2, <1>3
<1>5. UsageTypeOK'
  BY <1>1, <1>4 DEF UsageBase, UsageTypeOK, Txns
<1>6. \A r \in calls : r.id \in Nat /\ r.id <= placed
  BY UsageAssumption DEF UsageBase, UsageTypeOK, IdsFresh, CallRows
<1>7. \A d \in Callers : txn[d] # None => txn[d].id \in Nat /\ txn[d].id <= placed
  BY <1>3, NoneIsNoTxn, UsageAssumption DEF UsageBase, IdsFresh
<1>8. placed \in Nat
  BY UsageAssumption DEF UsageBase, UsageTypeOK
<1>9. IdsFresh'
  <2>1. \A r \in calls' : r.id <= placed'
    BY <1>1, <1>6, <1>8
  <2>2. ASSUME NEW d \in Callers, txn'[d] # None
        PROVE  /\ txn'[d].id <= placed'
               /\ \A r \in calls' : r.id # txn'[d].id
               /\ \A e \in Callers : txn'[e] # None /\ txn'[e].id = txn'[d].id => e = d
    <3>1. CASE d = c
      <4>1. txn'[d].id = placed + 1
        BY <1>2, <1>4, <3>1
      <4>2. \A e \in Callers : txn'[e] # None /\ txn'[e].id = placed + 1 => e = d
        BY <1>4, <1>7, <1>8, <3>1
      <4> QED BY <1>1, <1>6, <1>8, <4>1, <4>2
    <3>2. CASE d # c
      <4>1. txn'[d] = txn[d] /\ txn[d].id \in Nat /\ txn[d].id <= placed
        BY <1>4, <1>7, <2>2, <3>2
      <4>2. \A e \in Callers : txn'[e] # None /\ txn'[e].id = txn'[d].id => e # c
        BY <1>2, <1>4, <1>8, <4>1
      <4>3. \A e \in Callers : txn'[e] # None /\ txn'[e].id = txn'[d].id => e = d
        BY <1>4, <2>2, <4>1, <4>2 DEF UsageBase, IdsFresh
      <4>4. \A r \in calls' : r.id # txn'[d].id
        BY <1>1, <2>2, <4>1 DEF UsageBase, IdsFresh
      <4> QED BY <1>1, <1>8, <4>1, <4>3, <4>4
    <3> QED BY <3>1, <3>2
  <2> QED BY <2>1, <2>2 DEF IdsFresh
<1> QED BY <1>5, <1>9 DEF UsageBase

\* A commit that inserts a row inserts a new one.
LEMMA CommitsRow ==
    ASSUME UsageBase, NEW c \in Callers, TxnCommits(c), c \in Reviewers \/ limited,
           NEW k, k = KindOf(c), NEW h, h = HourOf(txn[c].began),
           NEW row, row = [id |-> txn[c].id, kind |-> k, at |-> txn[c].began]
    PROVE  /\ row \in CallRows /\ row \notin calls
           /\ row.kind = k /\ row.at = txn[c].began /\ row.id = txn[c].id
           /\ k \in Kinds /\ h \in Hours /\ HourOf(row.at) = h
           /\ calls' = calls \cup {row}
           /\ total' = [total EXCEPT ![k][h] = @ + 1]
           /\ late' = IF RolledUp(k, h) THEN late \cup {<<k, h>>} ELSE late
           /\ txn[c].at = "called" /\ txn[c] # None /\ txn' = [txn EXCEPT ![c] = None]
           /\ txn[c].began \in 0..MaxHalf
           /\ UNCHANGED <<half, limited, ledger, rollup, placed, overlapped>>
<1>1. txn[c] \in Txns /\ txn[c].at = "called"
  BY DEF UsageBase, UsageTypeOK, Txns, TxnCommits
<1>2. txn[c] # None /\ txn[c].began \in 0..MaxHalf /\ txn[c].id \in 1..MaxCalls
  BY <1>1, NoneIsNoTxn
<1>3. k \in Kinds
  BY DEF KindOf, Kinds
<1>4. h \in Hours
  BY <1>2, UsageAssumption DEF HourOf, Hours
<1>5. row \in CallRows /\ row.kind = k /\ row.at = txn[c].began /\ row.id = txn[c].id
  BY <1>2, <1>3 DEF CallRows
<1>6. row \notin calls
  BY <1>2, <1>5 DEF UsageBase, IdsFresh
<1>7. /\ calls' = calls \cup {row}
      /\ total' = [total EXCEPT ![k][h] = @ + 1]
      /\ late' = IF RolledUp(k, h) THEN late \cup {<<k, h>>} ELSE late
      /\ txn' = [txn EXCEPT ![c] = None]
      /\ UNCHANGED <<half, limited, ledger, rollup, placed, overlapped>>
  BY DEF TxnCommits
<1> QED BY <1>1, <1>2, <1>3, <1>4, <1>5, <1>6, <1>7

LEMMA TxnCommitsBase == ASSUME UsageBase, NEW c \in Callers, TxnCommits(c) PROVE UsageBase'
<1>1. rateLock' \in Clients \cup {NoClient}
  BY DEF TxnCommits, Unlock, UsageBase, UsageTypeOK
<1>2. CASE ~(c \in Reviewers \/ limited)
  <2>1. /\ txn' = [txn EXCEPT ![c] = None] /\ None \in Txns
        /\ UNCHANGED <<half, limited, calls, ledger, rollup, placed, total, late, overlapped, admitted>>
    BY <1>2 DEF TxnCommits, Txns
  <2> QED BY <1>1, <2>1, TxnMoves
<1>3. CASE c \in Reviewers \/ limited
  <2> DEFINE k == KindOf(c)
             h == HourOf(txn[c].began)
             row == [id |-> txn[c].id, kind |-> k, at |-> txn[c].began]
  <2>1. /\ row \in CallRows /\ row \notin calls /\ row.id = txn[c].id
        /\ k \in Kinds /\ h \in Hours
        /\ calls' = calls \cup {row}
        /\ total' = [total EXCEPT ![k][h] = @ + 1]
        /\ late' = IF RolledUp(k, h) THEN late \cup {<<k, h>>} ELSE late
        /\ txn[c] # None /\ txn' = [txn EXCEPT ![c] = None]
        /\ UNCHANGED <<half, limited, ledger, rollup, placed, overlapped>>
    BY <1>3, CommitsRow
  <2> HIDE DEF k, h, row
  <2>2. txn' \in [Callers -> Txns] /\ txn'[c] = None /\ \A d \in Callers \ {c} : txn'[d] = txn[d]
    BY <2>1 DEF UsageBase, UsageTypeOK, Txns
  <2>3. IsFiniteSet(calls')
    BY <2>1, FS_AddElement DEF UsageBase, UsageTypeOK
  <2>4. total' \in [Kinds -> [Hours -> Nat]] /\ late' \subseteq Kinds \X Hours
    BY <2>1 DEF UsageBase, UsageTypeOK
  <2>5. UsageTypeOK'
    <3>1. row = [id |-> txn[c].id, kind |-> KindOf(c), at |-> txn[c].began] /\ (c \in Reviewers \/ limited)
      BY <1>3 DEF row, k
    <3>2. admitted' \subseteq CallRows
      BY <2>1, <3>1 DEF TxnCommits, UsageBase, UsageTypeOK
    <3> QED BY <1>1, <2>1, <2>2, <2>3, <2>4, <3>2 DEF UsageBase, UsageTypeOK, Txns
  <2>6. IdsFresh'
    <3>1. row.id <= placed
      BY <2>1 DEF UsageBase, IdsFresh
    <3>2. \A d \in Callers \ {c} : txn[d] # None => row.id # txn[d].id
      BY <2>1 DEF UsageBase, IdsFresh
    <3>3. \A d \in Callers : txn'[d] # None => d # c /\ txn'[d] = txn[d]
      BY <2>2
    <3>4. \A r \in calls' : r = row \/ r \in calls
      BY <2>1
    <3>5. placed' = placed
      BY <2>1
    <3> QED BY <3>1, <3>2, <3>3, <3>4, <3>5 DEF UsageBase, IdsFresh
  <2> QED BY <2>5, <2>6 DEF UsageBase
<1> QED BY <1>2, <1>3

\* What a rollup inserts is typed; its entries count at least one row.
LEMMA AggregatedTyped ==
    ASSUME UsageTypeOK
    PROVE  /\ Aggregated \subseteq Entries
           /\ \A e \in Aggregated : Unrolled(e.kind, e.hour) /\ e.count = Cardinality(CallsOf(e.kind, e.hour))
           /\ \A k \in Kinds : \A h \in Hours : Unrolled(k, h) =>
                 \E e \in Aggregated : e.kind = k /\ e.hour = h
<1> DEFINE Entry(k, h) == [kind |-> k, hour |-> h, count |-> Cardinality(CallsOf(k, h))]
<1>1. ASSUME NEW k \in Kinds, NEW h \in Hours, Unrolled(k, h)
      PROVE  Entry(k, h) \in Entries /\ Entry(k, h) \in Aggregated
  <2>1. IsFiniteSet(CallsOf(k, h))
    <3>1. CallsOf(k, h) \subseteq calls
      BY DEF CallsOf
    <3> QED BY <3>1, FS_Subset DEF UsageTypeOK
  <2>2. Cardinality(CallsOf(k, h)) \in Nat /\ Cardinality(CallsOf(k, h)) # 0
    BY <1>1, <2>1, FS_CardinalityType, FS_EmptySet DEF Unrolled
  <2>3. Entry(k, h) \in Aggregated
    <3>1. <<k, h>> \in {q \in Kinds \X Hours : Unrolled(q[1], q[2])}
      BY <1>1
    <3> QED BY <3>1 DEF Aggregated
  <2> QED BY <2>2, <2>3 DEF Entries
<1>2. ASSUME NEW e \in Aggregated
      PROVE  \E k \in Kinds : \E h \in Hours : Unrolled(k, h) /\ e = Entry(k, h)
  <2>1. PICK p \in Kinds \X Hours : Unrolled(p[1], p[2]) /\ e = Entry(p[1], p[2])
    BY DEF Aggregated
  <2> QED BY <2>1
<1>3. \A e \in Aggregated :
         e \in Entries /\ Unrolled(e.kind, e.hour) /\ e.count = Cardinality(CallsOf(e.kind, e.hour))
  BY <1>1, <1>2
<1>4. \A k \in Kinds : \A h \in Hours : Unrolled(k, h) => \E e \in Aggregated : e.kind = k /\ e.hour = h
  BY <1>1
<1> QED BY <1>3, <1>4

LEMMA RollupBase ==
    ASSUME UsageBase, NEW j \in Rollups, RollupInserts(j) \/ RollupCommits(j) \/ RollupFails(j)
    PROVE  /\ UsageBase' /\ rollup' \in [Rollups -> OpenRollups] /\ calls' \subseteq calls
           /\ UNCHANGED <<half, limited, txn, rateLock, placed, total, late, admitted>>
<1>1. /\ rollup \in [Rollups -> OpenRollups] /\ IsFiniteSet(calls) /\ calls \subseteq CallRows
      /\ IsABag(ledger) /\ BagToSet(ledger) \subseteq Entries
  BY DEF UsageBase, UsageTypeOK, OpenRollups
<1>2. UNCHANGED <<half, limited, txn, rateLock, placed, total, late, admitted>> /\ overlapped' \in BOOLEAN
  BY DEF RollupInserts, RollupCommits, RollupFails, UsageBase, UsageTypeOK
<1>3. calls' \subseteq calls
  BY DEF RollupInserts, RollupCommits, RollupFails
<1>4. rollup' \in [Rollups -> OpenRollups]
  <2>1. CASE RollupInserts(j)
    <3> DEFINE new == Aggregated
               o == [at |-> "inserted", began |-> half, new |-> new]
    <3>1. new \subseteq Entries /\ half \in 0..MaxHalf
      BY AggregatedTyped DEF UsageBase, UsageTypeOK
    <3>2. rollup' = [rollup EXCEPT ![j] = o]
      BY <2>1 DEF RollupInserts
    <3> HIDE DEF new
    <3>3. o \in OpenRollups
      BY <3>1 DEF OpenRollups
    <3> QED BY <1>1, <3>2, <3>3
  <2>2. CASE RollupCommits(j) \/ RollupFails(j)
    <3>1. rollup' = [rollup EXCEPT ![j] = None] /\ None \in OpenRollups
      BY <2>2 DEF RollupCommits, RollupFails, OpenRollups
    <3> QED BY <1>1, <3>1
  <2> QED BY <2>1, <2>2
<1>5. IsABag(ledger') /\ BagToSet(ledger') \subseteq Entries
  <2>1. CASE RollupCommits(j)
    <3>1. rollup[j] \in OpenRollups /\ rollup[j] # None
      BY <1>1, <2>1 DEF RollupCommits
    <3>2. rollup[j].new \subseteq Entries
      BY <3>1 DEF OpenRollups
    <3>3. ledger' = ledger (+) SetToBag(rollup[j].new)
      BY <2>1 DEF RollupCommits
    <3>4. IsABag(ledger') /\ BagToSet(ledger') = BagToSet(ledger) \cup rollup[j].new
      BY ONLY <1>1, <3>3, With
    <3> QED BY <1>1, <3>2, <3>4
  <2>2. CASE RollupInserts(j) \/ RollupFails(j)
    BY <1>1, <2>2 DEF RollupInserts, RollupFails
  <2> QED BY <2>1, <2>2
<1>6. IsFiniteSet(calls') /\ calls' \subseteq CallRows
  BY <1>1, <1>3, FS_Subset
<1>7. UsageTypeOK'
  BY <1>2, <1>4, <1>5, <1>6 DEF UsageBase, UsageTypeOK, OpenRollups
<1>8. IdsFresh'
  BY <1>2, <1>3 DEF UsageBase, IdsFresh
<1> QED BY <1>2, <1>3, <1>4, <1>7, <1>8 DEF UsageBase

-----------------------------------------------------------------------------
(* The limit.                                                              *)

LEMMA CardinalityLe ==
    ASSUME NEW T, IsFiniteSet(T), NEW S \in SUBSET T
    PROVE  /\ IsFiniteSet(S) /\ Cardinality(S) \in Nat /\ Cardinality(T) \in Nat
           /\ Cardinality(S) <= Cardinality(T)
BY FS_Subset, FS_CardinalityType

WindowOf(h) == {r \in admitted : r.at \in (h - 1)..h}

\* With the same admissions and no new holder, the limit holds.
LEMMA LimitKept ==
    ASSUME LimitInv, UsageBase', UNCHANGED <<limited, admitted>>, LockHeld', RecentlyThere',
           \A c \in Clients : rateLock' = c =>
               rateLock = c /\ txn'[c].began = txn[c].began /\ txn'[c].soon = txn[c].soon
    PROVE  LimitInv'
<1>1. RoomForHolder'
  <2> SUFFICES ASSUME limited, NEW c \in Clients, rateLock' = c, txn'[c].soon
               PROVE  Cardinality(Since(c)') < Limit
    BY DEF RoomForHolder
  <2>1. Since(c)' = Since(c)
    BY DEF Since
  <2> QED BY <2>1 DEF LimitInv, RoomForHolder
<1>2. WithinLimit' /\ IsFiniteSet(admitted')
  BY DEF LimitInv, WithinLimit
<1> QED BY <1>1, <1>2 DEF LimitInv, UsageBase

LEMMA TxnOf ==
    ASSUME UsageBase, NEW c \in Callers, NEW t \in Txns, txn' = [txn EXCEPT ![c] = t]
    PROVE  txn'[c] = t /\ \A d \in Callers \ {c} : txn'[d] = txn[d]
BY DEF UsageBase, UsageTypeOK, Txns

\* The caller's count was below the limit, under the lock: one more row fits
\* every window it is in.
LEMMA CommitWithinLimit ==
    ASSUME LimitInv, NEW c \in Clients, limited, txn[c].at = "called", txn[c].soon,
           NEW row \in CallRows, row.at = txn[c].began, admitted' = admitted \cup {row}, UNCHANGED limited
    PROVE  WithinLimit'
<1> USE UsageAssumption
<1>1. rateLock = c
  BY DEF LimitInv, LockHeld
<1>2. Cardinality(Since(c)) < Limit
  BY <1>1 DEF LimitInv, RoomForHolder
<1>3. txn[c].began \in Int /\ row.at \in Int /\ \A r \in admitted : r.at \in Int
  BY DEF LimitInv, UsageTypeOK, CallRows
<1>4. IsFiniteSet(admitted)
  BY DEF LimitInv
<1> SUFFICES ASSUME NEW h \in 0..MaxHalf PROVE Cardinality(WindowOf(h)') <= Limit
  BY DEF WithinLimit, WindowOf
<1>5. CASE row.at \in (h - 1)..h
  <2>1. WindowOf(h) \subseteq Since(c)
    BY <1>3, <1>5 DEF WindowOf, Since
  <2>2. Since(c) \subseteq admitted
    BY DEF Since
  <2>3. IsFiniteSet(Since(c))
    BY <1>4, <2>2, FS_Subset
  <2>4. PICK W : W = WindowOf(h) OBVIOUS
  <2>5. /\ IsFiniteSet(W)
        /\ Cardinality(W) \in Nat /\ Cardinality(Since(c)) \in Nat
        /\ Cardinality(W) <= Cardinality(Since(c))
    BY <2>1, <2>3, <2>4, CardinalityLe
  <2>6. /\ IsFiniteSet(W \cup {row})
        /\ Cardinality(W \cup {row}) = Cardinality(W) \/ Cardinality(W \cup {row}) = Cardinality(W) + 1
    BY ONLY <2>5, FS_AddElement
  <2>7. WindowOf(h)' \subseteq W \cup {row}
    BY <2>4 DEF WindowOf
  <2>8. /\ Cardinality(WindowOf(h)') \in Nat
        /\ Cardinality(WindowOf(h)') <= Cardinality(W \cup {row})
    BY <2>6, <2>7, FS_Subset, FS_CardinalityType
  <2> QED BY <1>2, <2>5, <2>6, <2>8
<1>6. CASE row.at \notin (h - 1)..h
  <2>1. WindowOf(h)' = WindowOf(h)
    BY <1>6 DEF WindowOf
  <2> QED BY <2>1 DEF LimitInv, WithinLimit, WindowOf
<1> QED BY <1>5, <1>6

\* An admission within an hour of the transaction's start has counted every
\* admission of its window: none of them is old enough to be purged.
LEMMA AcquiredSoon ==
    ASSUME LimitInv, NEW c \in Callers, txn[c].at = "begun", half <= txn[c].began + 2, CurrentCount(c) < Limit
    PROVE  Cardinality(Since(c)) < Limit
<1> USE UsageAssumption
<1>1. half \in Int /\ txn[c].began \in Int /\ \A r \in admitted : r.at \in Int
  BY NoneIsNoTxn DEF LimitInv, UsageTypeOK, CallRows, Txns
<1>2. \A r \in Since(c) : r.at >= half - 4
  BY <1>1 DEF Since
<1>3. Since(c) \subseteq Current(c) /\ Current(c) \subseteq calls
  BY <1>2 DEF Since, Current, LimitInv, RecentlyThere
<1>4. IsFiniteSet(Current(c))
  BY <1>3, FS_Subset DEF LimitInv, UsageTypeOK
<1>5. /\ Cardinality(Since(c)) \in Nat /\ Cardinality(Current(c)) \in Nat
      /\ Cardinality(Since(c)) <= Cardinality(Current(c))
  BY <1>3, <1>4, CardinalityLe
<1> QED BY <1>5 DEF CurrentCount

\* A rollup purges only rows older than two hours when it began.
LEMMA RollupKeepsRecent ==
    ASSUME UsageBase, RecentlyThere, NEW j \in Rollups, RollupInserts(j) \/ RollupCommits(j) \/ RollupFails(j)
    PROVE  RecentlyThere'
<1>1. rollup \in [Rollups -> OpenRollups] /\ half \in Int /\ \A r \in admitted : r.at \in Int
  BY UsageAssumption DEF UsageBase, UsageTypeOK, OpenRollups, CallRows
<1>2. UNCHANGED <<half, admitted>>
  BY DEF RollupInserts, RollupCommits, RollupFails
<1>3. ASSUME NEW i \in Rollups, rollup'[i] # None PROVE rollup'[i].began <= half
  <2>1. CASE RollupInserts(j) /\ i = j
    <3>1. rollup'[i].began = half BY <1>1, <2>1 DEF RollupInserts
    <3> QED BY <1>1, <3>1
  <2>2. CASE ~(RollupInserts(j) /\ i = j)
    <3>1. rollup'[i] = rollup[i] BY <1>1, <1>3, <2>2 DEF RollupInserts, RollupCommits, RollupFails
    <3> QED BY <1>3, <3>1 DEF RecentlyThere
  <2> QED BY <2>1, <2>2
<1>4. ASSUME NEW r \in admitted, r.at >= half - 4 PROVE r \in calls'
  <2>1. r \in calls BY <1>4 DEF RecentlyThere
  <2>2. CASE RollupCommits(j)
    <3>1. rollup[j] # None /\ rollup[j].began <= half BY <2>2 DEF RollupCommits, RecentlyThere
    <3>2. rollup[j].began \in Int BY <1>1, <3>1, UsageAssumption DEF OpenRollups
    <3>3. ~(r.at < rollup[j].began - 4) BY <1>1, <1>4, <3>1, <3>2
    <3> QED BY <2>1, <2>2, <3>3 DEF RollupCommits, Purged
  <2>3. CASE RollupInserts(j) \/ RollupFails(j)
    BY <2>1, <2>3 DEF RollupInserts, RollupFails
  <2> QED BY <2>2, <2>3
<1> QED BY <1>2, <1>3, <1>4 DEF RecentlyThere

LEMMA LimitStep == LimitInv /\ [UsageNext]_usageVars => LimitInv'
<1> SUFFICES ASSUME LimitInv, [UsageNext]_usageVars PROVE LimitInv'
  OBVIOUS
<1>0. UsageBase /\ UsageTypeOK /\ IdsFresh /\ LockHeld
  BY DEF LimitInv, UsageBase
<1>a. txn \in [Callers -> Txns] /\ Clients \subseteq Callers
  BY <1>0 DEF UsageTypeOK, Txns, Callers
<1>1. CASE HalfHour
  <2>1. half' \in 0..MaxHalf /\ UNCHANGED <<limited, txn, rateLock, calls, ledger, rollup, placed, total, late, overlapped, admitted>>
    BY <1>0, <1>1, UsageAssumption DEF HalfHour, UsageTypeOK
  <2>2. UsageBase' /\ LockHeld'
    BY <1>0, <2>1 DEF UsageBase, UsageTypeOK, IdsFresh, LockHeld
  <2>3. RecentlyThere'
    <3>1. half \in Int /\ half' = half + 1 /\ (\A r \in admitted : r.at \in Int)
          /\ \A j \in Rollups : rollup[j] # None => rollup[j].began \in Int
      BY <1>0, <1>1, UsageAssumption DEF HalfHour, UsageTypeOK, CallRows
    <3> QED BY <2>1, <3>1 DEF LimitInv, RecentlyThere
  <2> QED BY <2>1, <2>2, <2>3, LimitKept
<1>2. ASSUME NEW c \in Callers, TxnBegins(c) PROVE LimitInv'
  <2>1. /\ UNCHANGED <<half, limited, rateLock, calls, rollup, admitted>>
        /\ txn[c] = None /\ txn'[c].at = "begun"
        /\ \A d \in Callers \ {c} : txn'[d] = txn[d]
    BY <1>2, <1>a DEF TxnBegins
  <2>2. UsageBase'
    BY <1>0, <1>2, TxnBeginsBase
  <2>3. c \in Clients => rateLock # c
    BY <1>0, <2>1, NoneIsNoTxn DEF LockHeld
  <2>4. LockHeld'
    BY <1>0, <1>a, <2>1, <2>3 DEF LockHeld
  <2>5. RecentlyThere'
    BY <2>1 DEF LimitInv, RecentlyThere
  <2> QED BY <1>a, <2>1, <2>2, <2>3, <2>4, <2>5, LimitKept
<1>3. ASSUME NEW c \in Callers, RateAcquired(c) PROVE LimitInv'
  <2>1. /\ c \in Clients /\ rateLock = NoClient /\ rateLock' = c /\ txn[c].at = "begun"
        /\ limited => CurrentCount(c) < Limit
        /\ txn' = [txn EXCEPT ![c] = [txn[c] EXCEPT !.at = "called", !.soon = half <= txn[c].began + 2]]
        /\ UNCHANGED <<half, limited, calls, ledger, rollup, placed, total, late, overlapped, admitted>>
    BY <1>3 DEF RateAcquired, LockFree
  <2>2. PICK soon \in BOOLEAN : soon = (half <= txn[c].began + 2)
    <3>1. CASE half <= txn[c].began + 2
      <4>1. (half <= txn[c].began + 2) = TRUE BY <3>1
      <4> QED BY <4>1
    <3>2. CASE ~(half <= txn[c].began + 2)
      <4>1. (half <= txn[c].began + 2) = FALSE BY <3>2
      <4> QED BY <4>1
    <3> QED BY <3>1, <3>2
  <2>3. PICK t : t = [txn[c] EXCEPT !.at = "called", !.soon = soon] OBVIOUS
  <2>4. /\ t \in Txns /\ txn[c] # None /\ t.id = txn[c].id /\ t.began = txn[c].began
        /\ t.at = "called" /\ t.soon = soon
    <3>1. txn[c] \in [at : {"begun", "called"}, began : 0..MaxHalf, id : 1..MaxCalls, soon : BOOLEAN]
          /\ txn[c] # None
      BY <1>a, <2>1, NoneIsNoTxn
    <3> QED BY <2>3, <3>1 DEF Txns
  <2>5. txn' = [txn EXCEPT ![c] = t] BY <2>1, <2>2, <2>3
  <2>6. txn'[c] = t /\ \A d \in Callers \ {c} : txn'[d] = txn[d]
    BY <1>0, <2>4, <2>5, TxnOf
  <2>7. UsageBase'
    BY <1>0, <2>1, <2>4, <2>5, TxnMoves
  <2>8. LockHeld'
    BY <1>0, <1>a, <2>1, <2>4, <2>6, UsageAssumption DEF LockHeld
  <2>9. RoomForHolder'
    <3> SUFFICES ASSUME limited, soon PROVE Cardinality(Since(c)') < Limit
      BY <2>1, <2>4, <2>6 DEF RoomForHolder
    <3>1. Since(c)' = Since(c)
      BY <2>1, <2>4, <2>6 DEF Since
    <3>2. half <= txn[c].began + 2 BY <2>2
    <3> QED BY <2>1, <3>1, <3>2, AcquiredSoon
  <2>10. WithinLimit' /\ RecentlyThere'
    BY <2>1 DEF LimitInv, WithinLimit, RecentlyThere
  <2> QED BY <2>1, <2>7, <2>8, <2>9, <2>10 DEF LimitInv, UsageBase
<1>4. ASSUME NEW c \in Callers, RateRefused(c) PROVE LimitInv'
  <2>1. /\ txn' = [txn EXCEPT ![c] = None] /\ None \in Txns /\ txn[c].at = "begun"
        /\ UNCHANGED <<half, limited, rateLock, calls, ledger, rollup, placed, total, late, overlapped, admitted>>
    BY <1>4 DEF RateRefused, Txns
  <2>2. txn'[c] = None /\ \A d \in Callers \ {c} : txn'[d] = txn[d]
    BY <1>0, <2>1, TxnOf
  <2>3. rateLock' \in Clients \cup {NoClient}
    BY <1>0, <2>1 DEF UsageTypeOK
  <2>4. UsageBase'
    BY <1>0, <2>1, <2>3, TxnMoves
  <2>5. LockHeld' /\ (c \in Clients => rateLock # c)
    BY <1>0, <1>a, <2>1, <2>2, NoneIsNoTxn DEF LockHeld
  <2>6. RecentlyThere'
    BY <2>1 DEF LimitInv, RecentlyThere
  <2> QED BY <1>a, <2>1, <2>2, <2>4, <2>5, <2>6, LimitKept
<1>5. ASSUME NEW c \in Callers, ReviewCalled(c) PROVE LimitInv'
  <2> DEFINE t == [txn[c] EXCEPT !.at = "called"]
  <2>1. /\ c \in Reviewers /\ txn[c].at = "begun"
        /\ txn' = [txn EXCEPT ![c] = t]
        /\ UNCHANGED <<half, limited, rateLock, calls, ledger, rollup, placed, total, late, overlapped, admitted>>
    BY <1>5 DEF ReviewCalled
  <2>2. t \in Txns /\ txn[c] # None /\ t.id = txn[c].id
    BY <1>a, <2>1, NoneIsNoTxn DEF Txns
  <2> HIDE DEF t
  <2>3. c \notin Clients /\ \A d \in Callers \ {c} : txn'[d] = txn[d]
    BY <1>0, <2>1, <2>2, TxnOf, UsageAssumption
  <2>4. rateLock' \in Clients \cup {NoClient}
    BY <1>0, <2>1 DEF UsageTypeOK
  <2>5. UsageBase'
    BY <1>0, <2>1, <2>2, <2>4, TxnMoves
  <2>6. LockHeld'
    BY <1>0, <1>a, <2>1, <2>3 DEF LockHeld
  <2>7. RecentlyThere'
    BY <2>1 DEF LimitInv, RecentlyThere
  <2> QED BY <1>a, <2>1, <2>3, <2>5, <2>6, <2>7, LimitKept
<1>6. ASSUME NEW c \in Callers, TxnCommits(c) \/ TxnRollsBack(c) PROVE LimitInv'
  <2>1. /\ txn' = [txn EXCEPT ![c] = None] /\ None \in Txns /\ txn[c].at = "called"
        /\ rateLock' = IF rateLock = c THEN NoClient ELSE rateLock
        /\ limited' = limited
    BY <1>6 DEF TxnCommits, TxnRollsBack, Unlock, Txns
  <2>2. txn'[c] = None /\ \A d \in Callers \ {c} : txn'[d] = txn[d]
    BY <1>0, <2>1, TxnOf
  <2>3. UsageBase'
    <3>1. CASE TxnCommits(c)
      BY <1>0, <3>1, TxnCommitsBase
    <3>2. CASE TxnRollsBack(c)
      <4>1. rateLock' \in Clients \cup {NoClient}
            /\ UNCHANGED <<half, limited, calls, ledger, rollup, placed, total, late, overlapped, admitted>>
        BY <1>0, <2>1, <3>2 DEF UsageTypeOK, TxnRollsBack
      <4> QED BY <1>0, <2>1, <4>1, TxnMoves
    <3> QED BY <1>6, <3>1, <3>2
  <2>4. LockHeld'
    <3>1. c \in Clients => rateLock = c
      BY <1>0, <2>1 DEF LockHeld
    <3>2. \A d \in Clients : rateLock' = d <=> d # c /\ rateLock = d
      BY <2>1, UsageAssumption
    <3> QED BY <1>0, <1>a, <2>2, <3>1, <3>2, NoneIsNoTxn DEF LockHeld
  <2>5. \A d \in Clients : rateLock' = d =>
            rateLock = d /\ txn'[d].began = txn[d].began /\ txn'[d].soon = txn[d].soon
    BY <1>0, <1>a, <2>1, <2>2, UsageAssumption DEF LockHeld
  <2>6. CASE TxnCommits(c) /\ c \in Clients /\ limited /\ txn[c].soon
    <3>1. PICK row : row = [id |-> txn[c].id, kind |-> KindOf(c), at |-> txn[c].began] OBVIOUS
    <3>2. /\ row \in CallRows /\ row.kind = "service" /\ row.at = txn[c].began
          /\ calls' = calls \cup {row} /\ admitted' = admitted \cup {row}
          /\ UNCHANGED <<half, limited, rollup>>
      <4>1. txn[c] \in [at : {"begun", "called"}, began : 0..MaxHalf, id : 1..MaxCalls, soon : BOOLEAN]
        BY <1>a, <2>1, NoneIsNoTxn
      <4>2. KindOf(c) = "service" /\ "service" \in Kinds BY <2>6 DEF KindOf, Kinds
      <4>3. row \in CallRows /\ row.kind = "service" /\ row.at = txn[c].began
        BY <3>1, <4>1, <4>2 DEF CallRows
      <4>5. calls' = calls \cup {row}
        BY <2>6, <3>1 DEF TxnCommits
      <4>6. admitted' = admitted \cup {row} /\ UNCHANGED <<half, limited, rollup>>
        BY <2>6, <3>1 DEF TxnCommits
      <4> QED BY <4>3, <4>5, <4>6
    <3>3. WithinLimit'
      BY <2>1, <2>6, <3>2, CommitWithinLimit
    <3>4. rateLock' = NoClient
      BY <1>0, <2>1, <2>6 DEF LockHeld
    <3>5. RoomForHolder'
      BY <3>4, UsageAssumption DEF RoomForHolder
    <3>6. IsFiniteSet(admitted')
      BY <3>2, FS_AddElement DEF LimitInv
    <3>7. RecentlyThere'
      BY <3>2 DEF LimitInv, RecentlyThere
    <3> QED BY <2>3, <2>4, <3>3, <3>5, <3>6, <3>7 DEF LimitInv, UsageBase
  <2>7. CASE ~(TxnCommits(c) /\ c \in Clients /\ limited /\ txn[c].soon)
    <3>1. UNCHANGED <<half, rollup, admitted>> /\ calls \subseteq calls'
      BY <1>6, <2>7, UsageAssumption DEF TxnCommits, TxnRollsBack
    <3>2. RecentlyThere'
      BY <3>1 DEF LimitInv, RecentlyThere
    <3> QED BY <2>1, <2>3, <2>4, <2>5, <3>1, <3>2, LimitKept
  <2> QED BY <2>6, <2>7
<1>7. ASSUME NEW j \in Rollups, RollupInserts(j) \/ RollupCommits(j) \/ RollupFails(j) PROVE LimitInv'
  <2>1. UsageBase' /\ UNCHANGED <<half, limited, txn, rateLock, admitted>>
    BY <1>0, <1>7, RollupBase
  <2>2. LockHeld'
    BY <1>0, <2>1 DEF LockHeld
  <2>3. RecentlyThere'
    BY <1>0, <1>7, RollupKeepsRecent DEF LimitInv
  <2> QED BY <2>1, <2>2, <2>3, LimitKept
<1>8. CASE UNCHANGED usageVars
  <2>1. UNCHANGED <<half, limited, txn, rateLock, calls, ledger, rollup, placed, total, late, overlapped, admitted>>
    BY <1>8 DEF usageVars
  <2>2. UsageBase' /\ LockHeld' /\ RecentlyThere'
    BY <1>0, <2>1 DEF UsageBase, UsageTypeOK, IdsFresh, LockHeld, LimitInv, RecentlyThere
  <2> QED BY <2>1, <2>2, LimitKept
<1> QED BY <1>1, <1>2, <1>3, <1>4, <1>5, <1>6, <1>7, <1>8 DEF UsageNext

\* WithinLimit: for any limit and any number of clients, rollups and reviewers,
\* whatever is purged meanwhile, the limiter admits at most `Limit` calls to the
\* transactions that began in an hour and got the lock within one.
THEOREM LimitHolds == UsageSpec => []WithinLimit
<1>1. UsageInit => LimitInv
  BY UsageInitially
<1>2. LimitInv /\ [UsageNext]_usageVars => LimitInv'
  BY LimitStep
<1>3. LimitInv => WithinLimit
  BY DEF LimitInv
<1> QED BY <1>1, <1>2, <1>3, PTL DEF UsageSpec

-----------------------------------------------------------------------------
(* The ledger.                                                             *)

\* EveryCallCounted, of one kind and hour.
Counted(k, h) ==
    /\ ~InLedger(k, h) => Cardinality(CallsOf(k, h)) = total[k][h]
    /\ \A e \in BagToSet(ledger) : e.kind = k /\ e.hour = h =>
          e.count = total[k][h] /\ (overlapped \/ ledger[e] = 1)

LEMMA CountedIsCounted ==
    EveryCallCounted <=> \A k \in Kinds : \A h \in Hours : <<k, h>> \notin late => Counted(k, h)
<1>1. ASSUME NEW k, NEW h
      PROVE  {e \in BagToSet(ledger) : e.kind = k /\ e.hour = h} = {} <=> ~InLedger(k, h)
  BY DEF InLedger
<1> QED BY <1>1 DEF EveryCallCounted, Counted

\* What an open rollup has to be faithful to, one kind and hour at a time.
Faithful(j, k, h) ==
    <<k, h>> \notin late =>
        /\ \A e \in rollup[j].new : e.kind = k /\ e.hour = h => e.count = total[k][h]
        /\ h < HourOf(rollup[j].began) /\ CallsOf(k, h) # {} => InLedger(k, h) \/ AboutToBe(j, k, h)

Alone(j) ==
    ~overlapped =>
        /\ \A i \in Rollups : rollup[i] # None => i = j
        /\ \A e \in rollup[j].new : ~InLedger(e.kind, e.hour)

PastHours(j) == \A e \in rollup[j].new : e.hour < HourOf(rollup[j].began)

LEMMA FaithfulIsFaithful ==
    ASSUME UsageTypeOK
    PROVE  RollupFaithful <=>
              \A j \in Rollups : rollup[j] # None =>
                  PastHours(j) /\ Alone(j) /\ \A k \in Kinds : \A h \in Hours : Faithful(j, k, h)
<1>1. ASSUME NEW j \in Rollups, rollup[j] # None
      PROVE  rollup[j].new \subseteq Entries
  BY <1>1 DEF UsageTypeOK
<1>2. \A e \in Entries : e.kind \in Kinds /\ e.hour \in Hours
  BY DEF Entries
<1>3. ASSUME NEW j \in Rollups, rollup[j] # None,
             PastHours(j), Alone(j), \A k \in Kinds : \A h \in Hours : Faithful(j, k, h)
      PROVE  /\ \A e \in rollup[j].new :
                    /\ e.hour < HourOf(rollup[j].began)
                    /\ <<e.kind, e.hour>> \notin late => e.count = total[e.kind][e.hour]
             /\ \A k \in Kinds : \A h \in Hours :
                    h < HourOf(rollup[j].began) /\ <<k, h>> \notin late /\ CallsOf(k, h) # {}
                        => InLedger(k, h) \/ AboutToBe(j, k, h)
             /\ ~overlapped =>
                    /\ \A i \in Rollups : rollup[i] # None => i = j
                    /\ \A e \in rollup[j].new : ~InLedger(e.kind, e.hour)
  BY <1>1, <1>2, <1>3 DEF PastHours, Alone, Faithful
<1>4. ASSUME RollupFaithful, NEW j \in Rollups, rollup[j] # None
      PROVE  PastHours(j) /\ Alone(j) /\ \A k \in Kinds : \A h \in Hours : Faithful(j, k, h)
  BY <1>1, <1>2, <1>4 DEF RollupFaithful, PastHours, Alone, Faithful
<1> QED BY <1>3, <1>4 DEF RollupFaithful

LEMMA LedgerParts ==
    ASSUME LedgerInv
    PROVE  /\ UsageBase /\ UsageTypeOK
           /\ \A k \in Kinds : \A h \in Hours : <<k, h>> \notin late => Counted(k, h)
           /\ \A j \in Rollups : rollup[j] # None =>
                 PastHours(j) /\ Alone(j) /\ \A k \in Kinds : \A h \in Hours : Faithful(j, k, h)
BY CountedIsCounted, FaithfulIsFaithful DEF LedgerInv, UsageBase

LEMMA LedgerWhole ==
    ASSUME UsageBase',
           \A k \in Kinds : \A h \in Hours : <<k, h>> \notin late' => Counted(k, h)',
           \A j \in Rollups : rollup'[j] # None =>
              PastHours(j)' /\ Alone(j)' /\ \A k \in Kinds : \A h \in Hours : Faithful(j, k, h)'
    PROVE  LedgerInv'
<1>1. EveryCallCounted'
  BY CountedIsCounted DEF EveryCallCounted, Counted, InLedger
<1>2. UsageTypeOK'
  BY DEF UsageBase
<1>3. RollupFaithful'
  <2> SUFFICES ASSUME NEW j \in Rollups, rollup'[j] # None
               PROVE  /\ \A e \in rollup'[j].new :
                             /\ e.hour < HourOf(rollup'[j].began)
                             /\ <<e.kind, e.hour>> \notin late' => e.count = total'[e.kind][e.hour]
                      /\ \A k \in Kinds : \A h \in Hours :
                             h < HourOf(rollup'[j].began) /\ <<k, h>> \notin late' /\ CallsOf(k, h)' # {}
                                 => InLedger(k, h)' \/ AboutToBe(j, k, h)'
                      /\ ~overlapped' =>
                             /\ \A i \in Rollups : rollup'[i] # None => i = j
                             /\ \A e \in rollup'[j].new : ~InLedger(e.kind, e.hour)'
    BY DEF RollupFaithful, InLedger
  <2>1. PastHours(j)' /\ Alone(j)' /\ \A k \in Kinds : \A h \in Hours : Faithful(j, k, h)'
    OBVIOUS
  <2>2. \A e \in rollup'[j].new : e.kind \in Kinds /\ e.hour \in Hours
    BY <1>2 DEF UsageTypeOK, Entries
  <2>3. \A e \in rollup'[j].new : e.hour < HourOf(rollup'[j].began)
    BY <2>1 DEF PastHours
  <2>4. \A e \in rollup'[j].new : <<e.kind, e.hour>> \notin late' => e.count = total'[e.kind][e.hour]
    BY <2>1, <2>2 DEF Faithful
  <2>5. ~overlapped' =>
            /\ \A i \in Rollups : rollup'[i] # None => i = j
            /\ \A e \in rollup'[j].new : ~InLedger(e.kind, e.hour)'
    BY <2>1 DEF Alone, InLedger
  <2> QED BY <2>1, <2>3, <2>4, <2>5 DEF Faithful
<1> QED BY <1>1, <1>2, <1>3 DEF LedgerInv, UsageBase

\* Steps that touch neither rows nor ledger nor rollups.
LEMMA LedgerKept ==
    ASSUME LedgerInv, UsageBase', UNCHANGED <<calls, ledger, rollup, total, late, overlapped>>
    PROVE  LedgerInv'
<1>1. /\ \A k, h : InLedger(k, h)' = InLedger(k, h)
      /\ \A k, h : CallsOf(k, h)' = CallsOf(k, h)
      /\ \A j, k, h : AboutToBe(j, k, h)' = AboutToBe(j, k, h)
  BY DEF InLedger, CallsOf, AboutToBe
<1>2. ASSUME NEW k \in Kinds, NEW h \in Hours, <<k, h>> \notin late' PROVE Counted(k, h)'
  <2>1. Counted(k, h)
    BY <1>2, LedgerParts
  <2> QED BY <1>1, <2>1 DEF Counted
<1>3. ASSUME NEW j \in Rollups, rollup'[j] # None
      PROVE  PastHours(j)' /\ Alone(j)' /\ \A k \in Kinds : \A h \in Hours : Faithful(j, k, h)'
  <2>1. PastHours(j) /\ Alone(j) /\ \A k \in Kinds : \A h \in Hours : Faithful(j, k, h)
    BY <1>3, LedgerParts
  <2>2. PastHours(j)' /\ Alone(j)'
    BY <1>1, <2>1 DEF PastHours, Alone, InLedger
  <2> QED BY <1>1, <2>1, <2>2 DEF Faithful
<1> QED BY <1>2, <1>3, LedgerWhole

\* A row that is inserted is counted, or its hour is marked as late.
LEMMA LedgerCommits ==
    ASSUME LedgerInv, NEW c \in Callers, TxnCommits(c)
    PROVE  LedgerInv'
<1>0. UsageBase /\ UsageBase'
  BY TxnCommitsBase DEF LedgerInv, UsageBase
<1>1. CASE ~(c \in Reviewers \/ limited)
  <2>1. UNCHANGED <<calls, ledger, rollup, total, late, overlapped>>
    BY <1>1 DEF TxnCommits
  <2> QED BY <1>0, <2>1, LedgerKept
<1>2. CASE c \in Reviewers \/ limited
  <2>1. PICK k0 \in Kinds, h0 \in Hours, row \in CallRows :
           /\ row \notin calls /\ row.kind = k0 /\ HourOf(row.at) = h0
           /\ calls' = calls \cup {row}
           /\ total' = [total EXCEPT ![k0][h0] = @ + 1]
           /\ late' = IF RolledUp(k0, h0) THEN late \cup {<<k0, h0>>} ELSE late
           /\ UNCHANGED <<ledger, rollup, overlapped>>
    <3> DEFINE k1 == KindOf(c)
               h1 == HourOf(txn[c].began)
               r1 == [id |-> txn[c].id, kind |-> k1, at |-> txn[c].began]
    <3>1. /\ r1 \notin calls /\ r1.kind = k1 /\ HourOf(r1.at) = h1
          /\ k1 \in Kinds /\ h1 \in Hours /\ r1 \in CallRows
          /\ calls' = calls \cup {r1}
          /\ total' = [total EXCEPT ![k1][h1] = @ + 1]
          /\ late' = IF RolledUp(k1, h1) THEN late \cup {<<k1, h1>>} ELSE late
          /\ UNCHANGED <<ledger, rollup, overlapped>>
      BY <1>0, <1>2, CommitsRow
    <3> HIDE DEF k1, h1, r1
    <3> QED BY ONLY <3>1
  <2>2. /\ total'[k0][h0] = total[k0][h0] + 1
        /\ \A k \in Kinds : \A h \in Hours : ~(k = k0 /\ h = h0) => total'[k][h] = total[k][h]
    <3>1. total \in [Kinds -> [Hours -> Nat]]
      BY <1>0 DEF UsageBase, UsageTypeOK
    <3> QED BY <2>1, <3>1
  <2>3. CallsOf(k0, h0)' = CallsOf(k0, h0) \cup {row}
    BY <2>1 DEF CallsOf
  <2>4. \A k, h : ~(k = k0 /\ h = h0) => CallsOf(k, h)' = CallsOf(k, h)
    <3> SUFFICES ASSUME NEW k, NEW h, ~(k = k0 /\ h = h0) PROVE CallsOf(k, h)' = CallsOf(k, h)
      OBVIOUS
    <3> QED BY <2>1 DEF CallsOf
  <2>5. Cardinality(CallsOf(k0, h0)') = Cardinality(CallsOf(k0, h0)) + 1
    <3>1. row \notin CallsOf(k0, h0) /\ CallsOf(k0, h0) \subseteq calls
      BY <2>1 DEF CallsOf
    <3>2. IsFiniteSet(CallsOf(k0, h0))
      BY <1>0, <3>1, FS_Subset DEF UsageBase, UsageTypeOK
    <3> QED BY <2>3, <3>1, <3>2, FS_AddElement
  <2>6. \A k, h : InLedger(k, h)' = InLedger(k, h)
    BY <2>1 DEF InLedger
  <2>7. InLedger(k0, h0) => <<k0, h0>> \in late'
    BY <2>1 DEF RolledUp, InLedger
  <2>8. \A j \in Rollups : rollup[j] # None /\ h0 < HourOf(rollup[j].began) => <<k0, h0>> \in late'
    BY <2>1 DEF RolledUp
  <2>9. late \subseteq late'
    BY <2>1
  <2>10. /\ \A k \in Kinds : \A h \in Hours : <<k, h>> \notin late => Counted(k, h)
         /\ \A j \in Rollups : rollup[j] # None =>
               PastHours(j) /\ Alone(j) /\ \A k \in Kinds : \A h \in Hours : Faithful(j, k, h)
    BY LedgerParts
  <2>11. ASSUME NEW k \in Kinds, NEW h \in Hours, <<k, h>> \notin late' PROVE Counted(k, h)'
    <3>1. Counted(k, h) /\ <<k, h>> \notin late
      BY <2>9, <2>10, <2>11
    <3>2. CASE k = k0 /\ h = h0
      <4>1. ~InLedger(k0, h0)
        BY <2>7, <2>11, <3>2
      <4>2. Cardinality(CallsOf(k, h)') = total'[k][h]
        BY <2>2, <2>5, <3>1, <3>2, <4>1 DEF Counted
      <4>3. \A e \in BagToSet(ledger') : ~(e.kind = k /\ e.hour = h)
        BY <2>1, <3>2, <4>1 DEF InLedger
      <4> QED BY <4>2, <4>3 DEF Counted
    <3>3. CASE ~(k = k0 /\ h = h0)
      <4>1. /\ CallsOf(k, h)' = CallsOf(k, h) /\ InLedger(k, h)' = InLedger(k, h)
            /\ total'[k][h] = total[k][h]
        BY <2>2, <2>4, <2>6, <3>3
      <4> QED BY <2>1, <3>1, <4>1 DEF Counted
    <3> QED BY <3>2, <3>3
  <2>12. ASSUME NEW j \in Rollups, rollup'[j] # None
         PROVE  PastHours(j)' /\ Alone(j)' /\ \A k \in Kinds : \A h \in Hours : Faithful(j, k, h)'
    <3>1. PastHours(j) /\ Alone(j) /\ \A k \in Kinds : \A h \in Hours : Faithful(j, k, h)
      BY <2>1, <2>10, <2>12
    <3>2. PastHours(j)' /\ Alone(j)'
      BY <2>1, <2>6, <3>1 DEF PastHours, Alone
    <3>3. ASSUME NEW k \in Kinds, NEW h \in Hours PROVE Faithful(j, k, h)'
      <4>1. Faithful(j, k, h)
        BY <3>1
      <4>2. CASE k = k0 /\ h = h0
        <5>1. h < HourOf(rollup[j].began) => <<k, h>> \in late'
          BY <2>1, <2>8, <2>12, <4>2
        <5>2. \A e \in rollup[j].new : e.hour = h => h < HourOf(rollup[j].began)
          BY <3>1 DEF PastHours
        <5> QED BY <2>1, <5>1, <5>2 DEF Faithful
      <4>3. CASE ~(k = k0 /\ h = h0)
        <5>1. /\ CallsOf(k, h)' = CallsOf(k, h) /\ InLedger(k, h)' = InLedger(k, h)
              /\ total'[k][h] = total[k][h] /\ (<<k, h>> \notin late' => <<k, h>> \notin late)
          BY <2>2, <2>4, <2>6, <2>9, <4>3
        <5>2. rollup' = rollup /\ AboutToBe(j, k, h)' = AboutToBe(j, k, h)
          BY <2>1 DEF AboutToBe
        <5> QED BY <4>1, <5>1, <5>2 DEF Faithful
      <4> QED BY <4>2, <4>3
    <3> QED BY <3>2, <3>3
  <2> QED BY <1>0, <2>11, <2>12, LedgerWhole
<1> QED BY <1>1, <1>2

LEMMA LedgerRollupInserts ==
    ASSUME LedgerInv, NEW j \in Rollups, RollupInserts(j)
    PROVE  LedgerInv'
<1>1. /\ UsageBase /\ UsageTypeOK
      /\ \A k \in Kinds : \A h \in Hours : <<k, h>> \notin late => Counted(k, h)
      /\ \A i \in Rollups : rollup[i] # None =>
            PastHours(i) /\ Alone(i) /\ \A k \in Kinds : \A h \in Hours : Faithful(i, k, h)
  BY LedgerParts
<1>2. UsageBase'
  BY <1>1, RollupBase
<1>3. PICK new \in SUBSET Entries :
         /\ new = Aggregated
         /\ \A e \in new : Unrolled(e.kind, e.hour) /\ e.count = Cardinality(CallsOf(e.kind, e.hour))
         /\ \A k \in Kinds : \A h \in Hours : Unrolled(k, h) => \E e \in new : e.kind = k /\ e.hour = h
  BY <1>1, AggregatedTyped
<1>4. PICK b \in 0..MaxHalf : b = half
  BY <1>1 DEF UsageTypeOK
<1> DEFINE o == [at |-> "inserted", began |-> b, new |-> new]
<1>5. /\ rollup' = [rollup EXCEPT ![j] = o] /\ rollup[j] = None
      /\ overlapped' = (overlapped \/ \E i \in Rollups : rollup[i] # None)
      /\ UNCHANGED <<calls, ledger, total, late>>
  BY <1>3, <1>4 DEF RollupInserts
<1>6. rollup \in [Rollups -> OpenRollups]
  BY <1>1 DEF UsageTypeOK, OpenRollups
<1>7. o.new = new /\ o.began = b
  OBVIOUS
<1> HIDE DEF o
<1>8. rollup'[j] = o /\ \A i \in Rollups \ {j} : rollup'[i] = rollup[i]
  BY <1>5, <1>6
<1>9. /\ \A k, h : InLedger(k, h)' = InLedger(k, h)
      /\ \A k, h : CallsOf(k, h)' = CallsOf(k, h)
  BY <1>5 DEF InLedger, CallsOf
<1>10. \A k \in Kinds : \A h \in Hours : Unrolled(k, h) <=>
          h < HourOf(b) /\ CallsOf(k, h) # {} /\ ~InLedger(k, h)
  BY <1>4 DEF Unrolled, Finished, InLedger
<1>11. \A e \in new : e.kind \in Kinds /\ e.hour \in Hours
  BY DEF Entries
<1>12. ASSUME NEW k \in Kinds, NEW h \in Hours, <<k, h>> \notin late' PROVE Counted(k, h)'
  <2>1. Counted(k, h)
    BY <1>1, <1>5, <1>12
  <2>2. overlapped => overlapped'
    BY <1>5
  <2> QED BY <1>5, <1>9, <2>1, <2>2 DEF Counted
<1>13. ASSUME NEW i \in Rollups, rollup'[i] # None
       PROVE  PastHours(i)' /\ Alone(i)' /\ \A k \in Kinds : \A h \in Hours : Faithful(i, k, h)'
  <2>1. CASE i = j
    <3>1. rollup'[i].new = new /\ rollup'[i].began = b
      BY <1>7, <1>8, <2>1
    <3>2. PastHours(i)'
      BY <1>3, <1>10, <1>11, <3>1 DEF PastHours
    <3>3. Alone(i)'
      <4>1. \A e \in new : ~InLedger(e.kind, e.hour)'
        BY <1>3, <1>9, <1>10, <1>11
      <4>2. ~overlapped' => \A d \in Rollups : rollup'[d] # None => d = i
        BY <1>5, <1>8, <2>1
      <4> QED BY <3>1, <4>1, <4>2 DEF Alone
    <3>4. ASSUME NEW k \in Kinds, NEW h \in Hours PROVE Faithful(i, k, h)'
      <4>1. ASSUME <<k, h>> \notin late', NEW e \in new, e.kind = k, e.hour = h
            PROVE  e.count = total'[k][h]
        <5>1. Counted(k, h) /\ ~InLedger(k, h)
          BY <1>1, <1>3, <1>5, <1>10, <4>1
        <5> QED BY <1>3, <1>5, <4>1, <5>1 DEF Counted
      <4>2. h < HourOf(b) /\ CallsOf(k, h)' # {} => InLedger(k, h)' \/ \E e \in new : e.kind = k /\ e.hour = h
        BY <1>3, <1>9, <1>10
      <4>3. AboutToBe(i, k, h)' <=> \E e \in new : e.kind = k /\ e.hour = h
        BY <3>1 DEF AboutToBe
      <4> QED BY <3>1, <4>1, <4>2, <4>3 DEF Faithful
    <3> QED BY <3>2, <3>3, <3>4
  <2>2. CASE i # j
    <3>1. rollup'[i] = rollup[i] /\ rollup[i] # None /\ overlapped'
      BY <1>5, <1>8, <1>13, <2>2
    <3>2. PastHours(i) /\ \A k \in Kinds : \A h \in Hours : Faithful(i, k, h)
      BY <1>1, <3>1
    <3>3. \A k, h : AboutToBe(i, k, h)' = AboutToBe(i, k, h)
      BY <3>1 DEF AboutToBe
    <3>4. PastHours(i)' /\ Alone(i)'
      BY <3>1, <3>2 DEF PastHours, Alone
    <3> QED BY <1>5, <1>9, <3>1, <3>2, <3>3, <3>4 DEF Faithful
  <2> QED BY <2>1, <2>2
<1> QED BY <1>2, <1>12, <1>13, LedgerWhole

LEMMA LedgerRollupFails ==
    ASSUME LedgerInv, NEW j \in Rollups, RollupFails(j)
    PROVE  LedgerInv'
<1>1. /\ UsageBase /\ UsageTypeOK
      /\ \A k \in Kinds : \A h \in Hours : <<k, h>> \notin late => Counted(k, h)
      /\ \A i \in Rollups : rollup[i] # None =>
            PastHours(i) /\ Alone(i) /\ \A k \in Kinds : \A h \in Hours : Faithful(i, k, h)
  BY LedgerParts
<1>2. UsageBase'
  BY <1>1, RollupBase
<1>3. /\ rollup'[j] = None /\ \A i \in Rollups \ {j} : rollup'[i] = rollup[i]
      /\ UNCHANGED <<calls, ledger, total, late, overlapped, admitted>>
  BY <1>1 DEF RollupFails, UsageTypeOK
<1>4. /\ \A k, h : InLedger(k, h)' = InLedger(k, h)
      /\ \A k, h : CallsOf(k, h)' = CallsOf(k, h)
  BY <1>3 DEF InLedger, CallsOf
<1>5. \A k \in Kinds : \A h \in Hours : <<k, h>> \notin late' => Counted(k, h)'
  BY <1>1, <1>3, <1>4 DEF Counted
<1>6. ASSUME NEW i \in Rollups, rollup'[i] # None
      PROVE  PastHours(i)' /\ Alone(i)' /\ \A k \in Kinds : \A h \in Hours : Faithful(i, k, h)'
  <2>1. i # j /\ rollup'[i] = rollup[i] /\ rollup[i] # None
    BY <1>3, <1>6
  <2>2. PastHours(i) /\ Alone(i) /\ \A k \in Kinds : \A h \in Hours : Faithful(i, k, h)
    BY <1>1, <2>1
  <2>3. \A k, h : AboutToBe(i, k, h)' = AboutToBe(i, k, h)
    BY <2>1 DEF AboutToBe
  <2>4. PastHours(i)' /\ Alone(i)'
    BY <1>3, <1>4, <2>1, <2>2 DEF PastHours, Alone
  <2> QED BY <1>3, <1>4, <2>1, <2>2, <2>3, <2>4 DEF Faithful
<1> QED BY <1>2, <1>5, <1>6, LedgerWhole

\* Rows that a rollup purges are of hours that are over when it began.
LEMMA PurgedIsPast ==
    ASSUME UsageTypeOK, NEW j \in Rollups, rollup[j] # None, NEW r \in Purged(j)
    PROVE  HourOf(r.at) < HourOf(rollup[j].began) /\ HourOf(r.at) \in Hours /\ r.kind \in Kinds
<1>1. r.at \in 0..MaxHalf /\ r.kind \in Kinds /\ r.at < rollup[j].began - 4
  BY DEF Purged, UsageTypeOK, CallRows
<1>2. rollup[j].began \in 0..MaxHalf
  BY DEF UsageTypeOK
<1> QED BY <1>1, <1>2, UsageAssumption DEF HourOf, Hours

LEMMA LedgerRollupCommits ==
    ASSUME LedgerInv, NEW j \in Rollups, RollupCommits(j)
    PROVE  LedgerInv'
<1>1. /\ UsageBase /\ UsageTypeOK
      /\ \A k \in Kinds : \A h \in Hours : <<k, h>> \notin late => Counted(k, h)
      /\ \A i \in Rollups : rollup[i] # None =>
            PastHours(i) /\ Alone(i) /\ \A k \in Kinds : \A h \in Hours : Faithful(i, k, h)
  BY LedgerParts
<1>2. UsageBase'
  BY <1>1, RollupBase
<1>3. /\ rollup[j] # None
      /\ rollup'[j] = None /\ \A i \in Rollups \ {j} : rollup'[i] = rollup[i]
      /\ calls' = calls \ Purged(j)
      /\ ledger' = ledger (+) SetToBag(rollup[j].new)
      /\ UNCHANGED <<total, late, overlapped, admitted>>
  BY <1>1 DEF RollupCommits, UsageTypeOK
<1>4. IsABag(ledger)
  BY <1>1 DEF UsageTypeOK
<1>5. /\ BagToSet(ledger') = BagToSet(ledger) \cup rollup[j].new
      /\ \A e \in BagToSet(ledger') :
            ledger'[e] = (IF e \in BagToSet(ledger) THEN ledger[e] ELSE 0)
                         + (IF e \in rollup[j].new THEN 1 ELSE 0)
  BY ONLY <1>3, <1>4, With
<1>6. PastHours(j) /\ Alone(j) /\ \A k \in Kinds : \A h \in Hours : Faithful(j, k, h)
  BY <1>1, <1>3
<1>7. \A k, h : InLedger(k, h)' <=> InLedger(k, h) \/ AboutToBe(j, k, h)
  BY <1>5 DEF InLedger, AboutToBe
<1>8. \A k, h : CallsOf(k, h)' \subseteq CallsOf(k, h)
  BY <1>3 DEF CallsOf
<1>9. \A e \in BagToSet(ledger) : ledger[e] \in Nat
  BY <1>4 DEF IsABag, BagToSet
<1>10. ASSUME NEW k \in Kinds, NEW h \in Hours, <<k, h>> \notin late' PROVE Counted(k, h)'
  <2>1. Counted(k, h) /\ Faithful(j, k, h) /\ <<k, h>> \notin late
    BY <1>1, <1>3, <1>6, <1>10
  <2>2. ASSUME ~InLedger(k, h)' PROVE Cardinality(CallsOf(k, h)') = total'[k][h]
    <3>1. ~InLedger(k, h) /\ ~AboutToBe(j, k, h)
      BY <1>7, <2>2
    <3>2. CallsOf(k, h)' = CallsOf(k, h)
      <4>1. ASSUME NEW r \in CallsOf(k, h), r \in Purged(j) PROVE FALSE
        <5>1. h < HourOf(rollup[j].began) /\ CallsOf(k, h) # {}
          BY <1>1, <1>3, <4>1, PurgedIsPast DEF CallsOf
        <5> QED BY <2>1, <3>1, <5>1 DEF Faithful
      <4> QED BY <1>3, <4>1 DEF CallsOf
    <3> QED BY <1>3, <2>1, <3>1, <3>2 DEF Counted
  <2>3. ASSUME NEW e \in BagToSet(ledger'), e.kind = k, e.hour = h
        PROVE  e.count = total'[k][h] /\ (overlapped' \/ ledger'[e] = 1)
    <3>1. e.count = total[k][h]
      BY <1>5, <2>1, <2>3 DEF Counted, Faithful
    <3>2. ~overlapped /\ e \in rollup[j].new => e \notin BagToSet(ledger)
      BY <1>6 DEF Alone, InLedger
    <3>3. e \in BagToSet(ledger) => overlapped \/ ledger[e] = 1
      BY <2>1, <2>3 DEF Counted
    <3> QED BY <1>3, <1>5, <1>9, <3>1, <3>2, <3>3
  <2> QED BY <2>2, <2>3 DEF Counted
<1>11. ASSUME NEW i \in Rollups, rollup'[i] # None
       PROVE  PastHours(i)' /\ Alone(i)' /\ \A k \in Kinds : \A h \in Hours : Faithful(i, k, h)'
  <2>1. i # j /\ rollup'[i] = rollup[i] /\ rollup[i] # None
    BY <1>3, <1>11
  <2>2. PastHours(i) /\ Alone(i) /\ \A k \in Kinds : \A h \in Hours : Faithful(i, k, h)
    BY <1>1, <2>1
  <2>3. \A k, h : AboutToBe(i, k, h)' = AboutToBe(i, k, h)
    BY <2>1 DEF AboutToBe
  <2>4. overlapped /\ overlapped'
    BY <1>3, <2>1, <2>2 DEF Alone
  <2>5. PastHours(i)' /\ Alone(i)'
    BY <2>1, <2>2, <2>4 DEF PastHours, Alone
  <2>6. \A k \in Kinds : \A h \in Hours : Faithful(i, k, h)'
    <3> SUFFICES ASSUME NEW k \in Kinds, NEW h \in Hours PROVE Faithful(i, k, h)'
      OBVIOUS
    <3>1. Faithful(i, k, h)
      BY <2>2
    <3>2. CallsOf(k, h)' # {} => CallsOf(k, h) # {}
      BY <1>8
    <3>3. InLedger(k, h) => InLedger(k, h)'
      BY <1>7
    <3> QED BY <1>3, <2>1, <2>3, <3>1, <3>2, <3>3 DEF Faithful
  <2> QED BY <2>5, <2>6
<1> QED BY <1>2, <1>10, <1>11, LedgerWhole

LEMMA LedgerStep == LedgerInv /\ LimitInv /\ LimitInv' /\ [UsageNext]_usageVars => LedgerInv'
<1> SUFFICES ASSUME LedgerInv, LimitInv', [UsageNext]_usageVars PROVE LedgerInv'
  OBVIOUS
<1>1. UsageBase'
  BY DEF LimitInv, UsageBase
<1>2. CASE \/ HalfHour
           \/ \E c \in Callers : TxnBegins(c) \/ RateAcquired(c) \/ RateRefused(c)
                                 \/ ReviewCalled(c) \/ TxnRollsBack(c)
           \/ UNCHANGED usageVars
  <2>1. UNCHANGED <<calls, ledger, rollup, total, late, overlapped>>
    BY <1>2 DEF HalfHour, TxnBegins, RateAcquired, RateRefused, ReviewCalled, TxnRollsBack, usageVars
  <2> QED BY <1>1, <2>1, LedgerKept
<1>3. ASSUME NEW c \in Callers, TxnCommits(c) PROVE LedgerInv'
  BY <1>3, LedgerCommits
<1>4. ASSUME NEW j \in Rollups, RollupInserts(j) PROVE LedgerInv'
  BY <1>4, LedgerRollupInserts
<1>5. ASSUME NEW j \in Rollups, RollupCommits(j) PROVE LedgerInv'
  BY <1>5, LedgerRollupCommits
<1>6. ASSUME NEW j \in Rollups, RollupFails(j) PROVE LedgerInv'
  BY <1>6, LedgerRollupFails
<1> QED BY <1>2, <1>3, <1>4, <1>5, <1>6 DEF UsageNext

\* The inductive invariant of the usage rows.
THEOREM UsageInvariant == UsageSpec => [](LimitInv /\ LedgerInv)
<1>1. UsageInit => LimitInv /\ LedgerInv
  BY UsageInitially
<1>2. LimitInv /\ LedgerInv /\ [UsageNext]_usageVars => (LimitInv /\ LedgerInv)'
  BY LimitStep, LedgerStep
<1> QED BY <1>1, <1>2, PTL DEF UsageSpec

\* A row is counted once: in the table until its hour is rolled up, in the
\* hour's ledger entry from then on, unless it was committed after that.
THEOREM CallsAreCounted == UsageSpec => []EveryCallCounted
BY UsageInvariant, PTL DEF LedgerInv

\* Transactions, rows, ledger and rollups keep their types.
THEOREM UsageTypes == UsageSpec => []UsageTypeOK
BY UsageInvariant, PTL DEF LimitInv

-----------------------------------------------------------------------------
(* MCRaces.                                                                *)

\* One component moves in a behaviour; the others keep their invariants.
RacesInv == ReviewInv /\ GateInv /\ TextInv /\ LimitInv /\ LedgerInv /\ ChatInv

\* The composition of the five components keeps the invariant of each: so all
\* that follows from them holds of it too.
THEOREM RacesInvariant == MCSpec => []RacesInv
<1>1. MCInit => RacesInv
  BY ReviewInitially, GateInitially, TextInitially, UsageInitially, ChatInitInv DEF MCInit, RacesInv
<1>2. RacesInv /\ [MCNext]_<<reviewVars, gateVars, textVars, usageVars, chatVars, focus>> => RacesInv'
  <2> SUFFICES ASSUME RacesInv, [MCNext]_<<reviewVars, gateVars, textVars, usageVars, chatVars, focus>>
               PROVE  RacesInv'
    OBVIOUS
  <2>1. /\ [Next]_vars /\ [GateNext]_gateVars /\ [TextNext]_textVars
        /\ [UsageNext]_usageVars /\ [ChatNext]_chatVars
    BY DEF MCNext, reviewVars
  <2>2. ReviewInv' /\ GateInv' /\ TextInv' /\ LimitInv' /\ ChatInv'
    BY <2>1, ReviewStep, GateStep, TextStepKeeps, LimitStep, ChatStepInv DEF RacesInv
  <2>3. LedgerInv'
    BY <2>1, <2>2, LedgerStep DEF RacesInv
  <2> QED BY <2>2, <2>3 DEF RacesInv
<1> QED BY <1>1, <1>2, PTL DEF MCSpec

\* TypesOK, for every value of the five components' constants.
THEOREM RacesTypes == MCSpec => []TypesOK
<1>1. RacesInv => TypesOK
  BY DEF RacesInv, ReviewInv, GateInv, TextInv, LimitInv, ChatInv, TypesOK
<1> QED BY <1>1, RacesInvariant, PTL
=============================================================================
