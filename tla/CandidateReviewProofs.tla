------------------------ MODULE CandidateReviewProofs ------------------------
(***************************************************************************)
(* Proofs about CandidateReview: its types, that a candidate is promoted   *)
(* exactly when one thinker was made from it, that a candidate at the      *)
(* judge has a judge's job, and that the critic's nominees never trigger   *)
(* it again.                                                               *)
(*                                                                         *)
(* The argument rests on the rows: a candidate has at most one vetting     *)
(* row and one judge's row, and the stage of each says what the            *)
(* candidate's status can be.                                              *)
(***************************************************************************)
EXTENDS CandidateReview, TLAPS

Decisions == {"pending_human", "promoted", "rejected"}

\* A row is at a stage of its kind, and at none unless it runs; only a row
\* with tries left waits; a verdict was given before the look.
WellFormed(r) ==
    /\ r.state = "running" <=> r.stage # "none"
    /\ r.state = "queued" => r.tries < MaxTries
    /\ r.state = "running" => r.tries <= MaxTries
    /\ r.kind \in {"vet", "judge"} => r.cand \in Candidates
    /\ r.kind = "vet" => r.stage # "ask"
    /\ r.kind = "judge" => r.stage # "gather"
    /\ r.kind = "judge" /\ r.stage \in {"flight", "rows", "open", "fire"} => r.verdict # "none"
    /\ r.kind = "critic" => r.stage \in {"none", "ask", "end"}

\* What a candidate's status can be, given a row of it: a vetting row gathers
\* while the candidate is vetted; until a judge's row has decided, the
\* candidate is at the judge.  A nominee's look does not pass the critiques.
FitsStatus(r) ==
    /\ r.kind = "vet" =>
          /\ status[r.cand] # "absent"
          /\ r.stage = "gather" => status[r.cand] = "vetting"
    /\ r.kind = "judge" =>
          /\ status[r.cand] \notin {"absent", "vetting"}
          /\ r.stage = "end" => status[r.cand] # "awaiting_llm"
          /\ r.stage # "end" /\ r.cand \notin doubtful => status[r.cand] = "awaiting_llm"
    /\ r.kind \in {"vet", "judge"} /\ r.cand \in Nominees => r.stage \notin {"open", "fire"}

Single(r) == r.kind \in {"vet", "judge"}

\* One vetting row and one judge's row of a candidate, at most.
RowsSingle ==
    \A r \in Rows : Single(r) =>
        /\ jobs[r] = 1
        /\ \A s \in Rows : s.kind = r.kind /\ s.cand = r.cand => s = r

RowsFit == \A r \in Rows : WellFormed(r) /\ FitsStatus(r)

\* An open page offers candidates that were decided or wait for operators.
OfferedDecided == \A c \in offered : status[c] \in Decisions

\* Nominees exist since a critique was stored.
NomineeHasCritique == \A c \in Nominees : status[c] # "absent" => critiques > 0

ReviewInv ==
    /\ TypeOK
    /\ RowsSingle
    /\ RowsFit
    /\ OfferedDecided
    /\ NomineeHasCritique
    /\ RosterConsistent
    /\ AwaitingHasJudge
    /\ NomineesDoNotTrigger

-----------------------------------------------------------------------------
(* Bags: what the three changes of the rows leave.                         *)

\* One copy of a row is taken out.
LEMMA Without ==
    ASSUME NEW B, IsABag(B), NEW e \in BagToSet(B),
           NEW C, C = B (-) SetToBag({e})
    PROVE  /\ IsABag(C)
           /\ BagToSet(C) = {x \in BagToSet(B) : x # e \/ B[x] > 1}
           /\ \A x \in BagToSet(C) : C[x] = IF x = e THEN B[x] - 1 ELSE B[x]
<1>1. \A x \in DOMAIN B : B[x] \in Nat /\ B[x] > 0
  BY DEF IsABag
<1>2. /\ DOMAIN C = {x \in DOMAIN B : x # e \/ B[x] > 1}
      /\ \A x \in DOMAIN C : C[x] = IF x = e THEN B[x] - 1 ELSE B[x]
      /\ C = [x \in DOMAIN C |-> C[x]]
  BY <1>1 DEF (-), SetToBag, BagToSet
<1>3. \A x \in DOMAIN C : C[x] \in Nat /\ C[x] > 0
  BY <1>1, <1>2
<1> QED BY <1>2, <1>3 DEF IsABag, BagToSet

\* Rows are put in, one copy of each.
LEMMA With ==
    ASSUME NEW B, IsABag(B), NEW S,
           NEW C, C = B (+) SetToBag(S)
    PROVE  /\ IsABag(C)
           /\ BagToSet(C) = BagToSet(B) \cup S
           /\ \A x \in BagToSet(C) : C[x] = (IF x \in BagToSet(B) THEN B[x] ELSE 0)
                                             + (IF x \in S THEN 1 ELSE 0)
<1>1. \A x \in DOMAIN B : B[x] \in Nat /\ B[x] > 0
  BY DEF IsABag
<1>2. /\ DOMAIN C = DOMAIN B \cup S
      /\ \A x \in DOMAIN C : C[x] = (IF x \in DOMAIN B THEN B[x] ELSE 0) + (IF x \in S THEN 1 ELSE 0)
      /\ C = [x \in DOMAIN C |-> C[x]]
  BY DEF (+), SetToBag
<1>3. \A x \in DOMAIN C : C[x] \in Nat /\ C[x] > 0
  BY <1>1, <1>2
<1> QED BY <1>2, <1>3 DEF IsABag, BagToSet

\* Changed, of any bag.
Moved(B, e, f, S) == (B (-) SetToBag({e})) (+) SetToBag({f}) (+) SetToBag(S)

\* A row becomes another, and rows are put in.
LEMMA Replaced ==
    ASSUME NEW B, IsABag(B), NEW e \in BagToSet(B), NEW f, NEW S,
           NEW C, C = Moved(B, e, f, S)
    PROVE  /\ IsABag(C)
           /\ BagToSet(C) = {x \in BagToSet(B) : x # e \/ B[x] > 1} \cup {f} \cup S
           /\ \A x \in BagToSet(C) :
                 C[x] = (IF x \in BagToSet(B) THEN B[x] ELSE 0) - (IF x = e THEN 1 ELSE 0)
                        + (IF x = f THEN 1 ELSE 0) + (IF x \in S THEN 1 ELSE 0)
<1> DEFINE D == B (-) SetToBag({e})
           E == D (+) SetToBag({f})
<1>0. C = E (+) SetToBag(S)
  BY DEF Moved
<1>1. /\ IsABag(D)
      /\ BagToSet(D) = {x \in BagToSet(B) : x # e \/ B[x] > 1}
      /\ \A x \in BagToSet(D) : D[x] = IF x = e THEN B[x] - 1 ELSE B[x]
  BY Without
<1>2. /\ IsABag(E)
      /\ BagToSet(E) = BagToSet(D) \cup {f}
      /\ \A x \in BagToSet(E) : E[x] = (IF x \in BagToSet(D) THEN D[x] ELSE 0)
                                        + (IF x \in {f} THEN 1 ELSE 0)
  <2>1. E = D (+) SetToBag({f})
    OBVIOUS
  <2> HIDE DEF D, E
  <2>2. IsABag(D)
    BY <1>1
  <2> QED BY ONLY <2>1, <2>2, With
<1> HIDE DEF D, E
<1> IsABag(E)
  BY <1>2
<1>3. /\ IsABag(C)
      /\ BagToSet(C) = BagToSet(E) \cup S
      /\ \A x \in BagToSet(C) : C[x] = (IF x \in BagToSet(E) THEN E[x] ELSE 0)
                                        + (IF x \in S THEN 1 ELSE 0)
  BY ONLY <1>0, IsABag(E), With
<1>4. \A x \in BagToSet(B) : B[x] \in Nat /\ B[x] > 0
  BY DEF IsABag, BagToSet
<1>5. \A x : (IF x \in BagToSet(D) THEN D[x] ELSE 0)
                 = (IF x \in BagToSet(B) THEN B[x] ELSE 0) - (IF x = e THEN 1 ELSE 0)
  BY <1>1, <1>4
<1>6. \A x : (IF x \in BagToSet(E) THEN E[x] ELSE 0)
                 = (IF x \in BagToSet(D) THEN D[x] ELSE 0) + (IF x = f THEN 1 ELSE 0)
  <2>1. \A x : x \notin BagToSet(E) => x \notin BagToSet(D) /\ x # f
    BY <1>2
  <2>2. \A x : x \in BagToSet(D) => D[x] \in Nat
    BY <1>1 DEF IsABag, BagToSet
  <2> QED BY <1>2, <2>1, <2>2
<1> QED BY <1>1, <1>2, <1>3, <1>4, <1>5, <1>6

-----------------------------------------------------------------------------
(* What a change of a row keeps.                                           *)

\* A row that stays of its candidate and kind leaves the candidate's rows
\* single, if the rows inserted with it are the first of theirs.
LEMMA RowMoves ==
    ASSUME TypeOK, RowsSingle, NEW j \in Rows, NEW k \in JobRows, NEW new \in SUBSET JobRows,
           k.kind = j.kind, k.cand = j.cand,
           \A x \in new : Single(x) =>
               /\ \A y \in Rows : Single(y) /\ y.cand = x.cand => y.kind # x.kind
               /\ \A y \in new : y.cand = x.cand => y = x,
           jobs' = Changed(j, k, new)
    PROVE  /\ IsABag(jobs') /\ Rows' \in SUBSET JobRows
           /\ RowsSingle'
           /\ Rows' \subseteq Rows \cup {k} \cup new
           /\ (Rows \ {j}) \cup {k} \cup new \subseteq Rows'
           /\ Single(j) => \A x \in Rows' :
                 \/ x = k \/ x \in new
                 \/ x \in Rows /\ ~(x.kind = j.kind /\ x.cand = j.cand)
<1>1. IsABag(jobs) /\ Rows \in SUBSET JobRows /\ j \in BagToSet(jobs)
  BY DEF TypeOK, Rows
<1>0. jobs' = Moved(jobs, j, k, new)
  BY DEF Changed, Moved
<1>2. /\ IsABag(jobs')
      /\ Rows' = {x \in Rows : x # j \/ jobs[x] > 1} \cup {k} \cup new
      /\ \A x \in Rows' :
            jobs'[x] = (IF x \in Rows THEN jobs[x] ELSE 0) - (IF x = j THEN 1 ELSE 0)
                       + (IF x = k THEN 1 ELSE 0) + (IF x \in new THEN 1 ELSE 0)
  <2>1. IsABag(jobs)
    BY <1>1
  <2>2. j \in BagToSet(jobs)
    BY <1>1
  <2>3. /\ IsABag(jobs')
        /\ BagToSet(jobs') = {x \in BagToSet(jobs) : x # j \/ jobs[x] > 1} \cup {k} \cup new
        /\ \A x \in BagToSet(jobs') :
              jobs'[x] = (IF x \in BagToSet(jobs) THEN jobs[x] ELSE 0) - (IF x = j THEN 1 ELSE 0)
                         + (IF x = k THEN 1 ELSE 0) + (IF x \in new THEN 1 ELSE 0)
    BY ONLY <1>0, <2>1, <2>2, Replaced
  <2> QED BY <2>3 DEF Rows
<1>3. Single(j) => \A x \in Rows' :
          \/ x = k \/ x \in new
          \/ x \in Rows /\ ~(x.kind = j.kind /\ x.cand = j.cand)
  BY <1>2 DEF RowsSingle
<1>4. RowsSingle'
  <2> SUFFICES ASSUME NEW r \in Rows', Single(r)
               PROVE  /\ jobs'[r] = 1
                      /\ \A s \in Rows' : s.kind = r.kind /\ s.cand = r.cand => s = r
    BY DEF RowsSingle, Single
  <2>1. CASE r = k
    <3>1. Single(j) /\ jobs[j] = 1
      BY <2>1 DEF RowsSingle, Single
    <3>2. r \notin new
      BY <2>1, <3>1 DEF Single
    <3>3. \A s \in Rows' : s.kind = r.kind /\ s.cand = r.cand => s = r
      BY <1>3, <2>1, <3>1 DEF Single
    <3>4. r \in Rows => r = j
      BY <2>1, <3>1 DEF RowsSingle
    <3> QED BY <1>2, <2>1, <3>1, <3>2, <3>3, <3>4
  <2>2. CASE r \in new /\ r # k
    <3>1. r \notin Rows /\ r # j
      BY <2>2 DEF Single
    <3>2. ~(k.kind = r.kind /\ k.cand = r.cand)
      BY <2>2 DEF Single
    <3>3. \A s \in Rows' : s.kind = r.kind /\ s.cand = r.cand => s = r
      BY <1>2, <2>2, <3>2 DEF Single
    <3> QED BY <1>2, <2>2, <3>1, <3>3
  <2>3. CASE r \notin new /\ r # k
    <3>1. r \in Rows /\ jobs[r] = 1 /\ r # j
      BY <1>2, <2>3 DEF RowsSingle
    <3>2. ~(j.kind = r.kind /\ j.cand = r.cand)
      BY <3>1 DEF RowsSingle
    <3>3. \A s \in Rows' : s.kind = r.kind /\ s.cand = r.cand => s = r
      BY <1>2, <2>3, <3>1, <3>2 DEF RowsSingle, Single
    <3> QED BY <1>2, <2>3, <3>1, <3>3
  <2> QED BY <2>1, <2>2, <2>3
<1> QED BY <1>1, <1>2, <1>3, <1>4

\* The same, of rows that are inserted and none that moves.
LEMMA RowsInserted ==
    ASSUME TypeOK, RowsSingle, NEW new \in SUBSET JobRows,
           \A x \in new : Single(x) =>
               /\ \A y \in Rows : Single(y) /\ y.cand = x.cand => y.kind # x.kind
               /\ \A y \in new : y.cand = x.cand => y = x,
           jobs' = jobs (+) SetToBag(new)
    PROVE  /\ IsABag(jobs') /\ Rows' \in SUBSET JobRows
           /\ RowsSingle'
           /\ Rows' = Rows \cup new
<1>1. IsABag(jobs) /\ Rows \in SUBSET JobRows
  BY DEF TypeOK
<1>2. /\ IsABag(jobs')
      /\ Rows' = Rows \cup new
      /\ \A x \in Rows' : jobs'[x] = (IF x \in Rows THEN jobs[x] ELSE 0) + (IF x \in new THEN 1 ELSE 0)
  BY <1>1, With DEF Rows
<1>3. RowsSingle'
  <2> SUFFICES ASSUME NEW r \in Rows', Single(r)
               PROVE  /\ jobs'[r] = 1
                      /\ \A s \in Rows' : s.kind = r.kind /\ s.cand = r.cand => s = r
    BY DEF RowsSingle, Single
  <2>1. CASE r \in new
    <3>1. r \notin Rows
      BY <2>1 DEF Single
    <3> QED BY <1>2, <2>1, <3>1 DEF Single
  <2>2. CASE r \notin new
    BY <1>2, <2>2 DEF RowsSingle, Single
  <2> QED BY <2>1, <2>2
<1> QED BY <1>1, <1>2, <1>3

\* Rows fit after a move if the row that moved, the rows inserted and the
\* other single rows do.
LEMMA MovedFit ==
    ASSUME ReviewInv, NEW j \in Rows, NEW k \in JobRows, NEW new \in SUBSET JobRows,
           k.kind = j.kind, k.cand = j.cand,
           \A x \in new : Single(x) =>
               /\ \A y \in Rows : Single(y) /\ y.cand = x.cand => y.kind # x.kind
               /\ \A y \in new : y.cand = x.cand => y = x,
           jobs' = Changed(j, k, new),
           \A x \in new \cup {k} : WellFormed(x) /\ FitsStatus(x)',
           \A x \in Rows : Single(x) /\ ~(x.kind = j.kind /\ x.cand = j.cand) => FitsStatus(x)'
    PROVE  /\ IsABag(jobs') /\ Rows' \in SUBSET JobRows
           /\ RowsSingle' /\ RowsFit'
           /\ (Rows \ {j}) \cup {k} \cup new \subseteq Rows'
<1>1. TypeOK /\ RowsSingle /\ RowsFit
  BY DEF ReviewInv
<1>2. /\ IsABag(jobs') /\ Rows' \in SUBSET JobRows
      /\ RowsSingle'
      /\ Rows' \subseteq Rows \cup {k} \cup new
      /\ (Rows \ {j}) \cup {k} \cup new \subseteq Rows'
      /\ Single(j) => \A x \in Rows' :
            \/ x = k \/ x \in new
            \/ x \in Rows /\ ~(x.kind = j.kind /\ x.cand = j.cand)
  BY <1>1, RowMoves
<1>3. ASSUME NEW x \in Rows' PROVE WellFormed(x) /\ FitsStatus(x)'
  <2>1. CASE x \in new \cup {k}
    BY <2>1
  <2>2. CASE x \notin new \cup {k}
    <3>1. x \in Rows /\ WellFormed(x)
      BY <1>1, <1>2, <2>2 DEF RowsFit
    <3>2. CASE Single(x)
      <4>1. ~(x.kind = j.kind /\ x.cand = j.cand)
        BY <1>2, <2>2, <3>2 DEF Single
      <4> QED BY <3>1, <3>2, <4>1
    <3>3. CASE ~Single(x)
      BY <3>1, <3>3 DEF Single, FitsStatus
    <3> QED BY <3>1, <3>2, <3>3
  <2> QED BY <2>1, <2>2
<1>4. RowsFit'
  BY <1>3 DEF RowsFit, WellFormed
<1> QED BY <1>2, <1>4

\* A candidate at the judge keeps its row when a row moves.
LEMMA MovedJudges ==
    ASSUME AwaitingHasJudge, NEW j \in Rows, NEW k,
           k.kind = j.kind, k.cand = j.cand,
           (Rows \ {j}) \cup {k} \subseteq Rows',
           NEW c \in Candidates, status[c] = "awaiting_llm"
    PROVE  \E x \in Rows' : x.kind = "judge" /\ x.cand = c
<1>1. PICK x \in Rows : x.kind = "judge" /\ x.cand = c
  BY DEF AwaitingHasJudge
<1>2. CASE x = j
  BY <1>1, <1>2
<1>3. CASE x # j
  BY <1>1, <1>3
<1> QED BY <1>2, <1>3

\* A row moves and no candidate's status does: all that is left to show is
\* that the row, and the critic's row that may be inserted, fit.
LEMMA QuietMove ==
    ASSUME ReviewInv, NEW j \in Rows, NEW k \in JobRows, NEW new \in SUBSET JobRows,
           k.kind = j.kind, k.cand = j.cand,
           \A x \in new : x.kind = "critic" /\ WellFormed(x),
           jobs' = Changed(j, k, new),
           WellFormed(k), FitsStatus(k)',
           UNCHANGED <<status, thinkers, critiques, offered>>,
           doubtful \subseteq doubtful', doubtful' \subseteq Candidates,
           fired' \in Seq(Candidates), NomineesDoNotTrigger',
           faults' \in 0..MaxFaults, clicks' \in 0..MaxClicks, launches' \in 0..MaxLaunches
    PROVE  ReviewInv'
<1> USE DEF ReviewInv
<1>1. \A x \in Rows : FitsStatus(x)'
  <2> SUFFICES ASSUME NEW x \in Rows PROVE FitsStatus(x)'
    OBVIOUS
  <2>1. FitsStatus(x)
    BY DEF RowsFit
  <2> QED BY <2>1 DEF FitsStatus
<1>2. \A x \in new \cup {k} : WellFormed(x) /\ FitsStatus(x)'
  BY DEF FitsStatus
<1>3. /\ IsABag(jobs') /\ Rows' \in SUBSET JobRows
      /\ RowsSingle' /\ RowsFit'
      /\ (Rows \ {j}) \cup {k} \cup new \subseteq Rows'
  BY <1>1, <1>2, MovedFit DEF Single
<1>4. TypeOK'
  BY <1>3 DEF TypeOK
<1>5. AwaitingHasJudge'
  BY <1>3, MovedJudges DEF AwaitingHasJudge
<1>6. OfferedDecided' /\ NomineeHasCritique' /\ RosterConsistent'
  BY DEF OfferedDecided, NomineeHasCritique, RosterConsistent
<1> QED BY <1>3, <1>4, <1>5, <1>6

\* What no move of a row but the critic's launch touches.
LEMMA Steady ==
    ASSUME ReviewInv, UNCHANGED <<fired, faults, clicks, launches>>
    PROVE  /\ fired' \in Seq(Candidates) /\ NomineesDoNotTrigger'
           /\ faults' \in 0..MaxFaults /\ clicks' \in 0..MaxClicks /\ launches' \in 0..MaxLaunches
           /\ doubtful \subseteq Candidates
BY DEF ReviewInv, TypeOK, NomineesDoNotTrigger

LEMMA StartKeeps == ASSUME ReviewInv, NEW j \in Rows, Start(j) PROVE ReviewInv'
<1>1. j \in JobRows /\ WellFormed(j) /\ FitsStatus(j)
  BY DEF ReviewInv, TypeOK, RowsFit
<1>2. PICK s \in {"gather", "ask", "end"} :
         /\ s = FirstStage(j)
         /\ s = "gather" => j.kind = "vet" /\ status[j.cand] = "vetting"
         /\ s = "ask" => j.kind # "vet"
         /\ s = "end" => j.kind = "vet"
  BY DEF FirstStage
<1> DEFINE k == [j EXCEPT !.state = "running", !.tries = @ + 1, !.stage = s]
<1>3. /\ k \in JobRows
      /\ k.kind = j.kind /\ k.cand = j.cand /\ k.state = "running" /\ k.stage = s
      /\ k.tries = j.tries + 1 /\ k.tries <= MaxTries
  <2>1. j.tries \in Nat /\ j.tries < MaxTries
    BY <1>1, ReviewAssumption DEF Start, WellFormed, JobRows
  <2>2. j.tries + 1 \in 0..(MaxTries + 1) /\ j.tries + 1 <= MaxTries
    BY <2>1, ReviewAssumption
  <2> QED BY <1>1, <2>1, <2>2 DEF JobRows, Stages
<1>4. WellFormed(k)
  BY <1>1, <1>2, <1>3 DEF WellFormed
<1>5. UNCHANGED <<status, thinkers, fired, critiques, offered, faults, clicks, launches, doubtful>>
  BY DEF Start
<1>6. FitsStatus(k)'
  BY <1>1, <1>2, <1>3, <1>5 DEF Start, WellFormed, FitsStatus
<1>7. jobs' = Changed(j, k, {})
  BY <1>2 DEF Start
<1> HIDE DEF k
<1> QED BY ONLY ReviewInv, <1>3, <1>4, <1>5, <1>6, <1>7, Steady, QuietMove

LEMMA JudgeAnswersKeeps == ASSUME ReviewInv, NEW j \in Rows, JudgeAnswers(j) PROVE ReviewInv'
<1>1. j \in JobRows /\ WellFormed(j) /\ FitsStatus(j)
  BY DEF ReviewInv, TypeOK, RowsFit
<1>2. PICK v \in {"promoted", "rejected", "pending_human"} :
          jobs' = Changed(j, [j EXCEPT !.stage = "flight", !.verdict = v], {})
  BY DEF JudgeAnswers
<1> DEFINE k == [j EXCEPT !.stage = "flight", !.verdict = v]
<1>3. k \in JobRows /\ k.kind = j.kind /\ k.cand = j.cand
  BY <1>1 DEF JobRows, Stages
<1>4. WellFormed(k)
  BY <1>1, <1>3 DEF JudgeAnswers, At, WellFormed, JobRows
<1>5. FitsStatus(k)'
  BY <1>1, <1>3 DEF JudgeAnswers, At, FitsStatus, JobRows
<1>6. UNCHANGED <<status, thinkers, fired, critiques, offered, faults, clicks, launches, doubtful>>
  BY DEF JudgeAnswers
<1>7. jobs' = Changed(j, k, {})
  BY <1>2
<1> HIDE DEF k
<1> QED BY ONLY ReviewInv, <1>3, <1>4, <1>5, <1>6, <1>7, Steady, QuietMove

\* A nominee's look ends at the critiques, for there is one.
LEMMA LookOnKeeps == ASSUME ReviewInv, NEW j \in Rows, LookOn(j) PROVE ReviewInv'
<1> DEFINE k == [j EXCEPT !.stage = NextStage[j.stage]]
<1>1. j \in JobRows /\ WellFormed(j) /\ FitsStatus(j)
  BY DEF ReviewInv, TypeOK, RowsFit
<1>2. /\ j.state = "running" /\ j.stage \in {"flight", "rows", "open"}
      /\ NextStage[j.stage] \in {"rows", "open", "fire"}
      /\ NextStage[j.stage] \in {"open", "fire"} => j.stage \in {"rows", "open"}
      /\ j.stage = "rows" => critiques = 0
  BY DEF LookOn, Looking, Passes, NextStage
<1>3. k \in JobRows /\ k.kind = j.kind /\ k.cand = j.cand /\ k.stage = NextStage[j.stage]
      /\ k.state = j.state /\ k.verdict = j.verdict /\ k.tries = j.tries
  BY <1>1, <1>2 DEF JobRows, Stages
<1>4. WellFormed(k)
  BY <1>1, <1>2, <1>3 DEF WellFormed
<1>5. j.kind \in {"vet", "judge"} /\ j.cand \in Nominees => j.stage # "rows"
  BY <1>1, <1>2 DEF FitsStatus, ReviewInv, NomineeHasCritique
<1>6. UNCHANGED <<status, thinkers, fired, critiques, offered, faults, clicks, launches, doubtful>>
  BY DEF LookOn
<1>7. FitsStatus(k)'
  BY <1>1, <1>2, <1>3, <1>5, <1>6 DEF FitsStatus
<1>8. jobs' = Changed(j, k, {})
  BY DEF LookOn
<1> HIDE DEF k
<1> QED BY ONLY ReviewInv, <1>3, <1>4, <1>6, <1>7, <1>8, Steady, QuietMove

LEMMA FailKeeps == ASSUME ReviewInv, NEW j \in Rows, Fail(j) PROVE ReviewInv'
<1>1. j \in JobRows /\ WellFormed(j) /\ FitsStatus(j)
  BY DEF ReviewInv, TypeOK, RowsFit
<1>2. PICK s \in {"queued", "failed"} :
         s = (IF j.tries < MaxTries THEN "queued" ELSE "failed")
  OBVIOUS
<1> DEFINE k == [j EXCEPT !.state = s, !.tries = j.tries, !.stage = "none", !.verdict = "none"]
<1>3. /\ k \in JobRows
      /\ k.kind = j.kind /\ k.cand = j.cand /\ k.state = s /\ k.stage = "none" /\ k.tries = j.tries
  BY <1>1 DEF JobRows, Stages
<1>4. WellFormed(k)
  BY <1>1, <1>2, <1>3 DEF WellFormed
<1>5. UNCHANGED <<status, thinkers, fired, critiques, offered, faults, clicks, launches, doubtful>>
  BY DEF Fail
<1>6. FitsStatus(k)'
  BY <1>1, <1>3, <1>5 DEF Fail, FitsStatus
<1>7. jobs' = Changed(j, k, {})
  BY <1>2 DEF Fail, Ended
<1> HIDE DEF k
<1> QED BY ONLY ReviewInv, <1>3, <1>4, <1>5, <1>6, <1>7, Steady, QuietMove

\* A lost row waits again or fails; a judge's row that had decided marks its
\* candidate.
LEMMA LostKeeps == ASSUME ReviewInv, NEW j \in Rows, Lost(j) PROVE ReviewInv'
<1>1. j \in JobRows /\ WellFormed(j) /\ FitsStatus(j)
  BY DEF ReviewInv, TypeOK, RowsFit
<1>2. PICK s \in {"queued", "failed"} :
         s = (IF j.tries + 1 < MaxTries THEN "queued" ELSE "failed")
  OBVIOUS
<1> DEFINE k == [j EXCEPT !.state = s, !.tries = j.tries + 1, !.stage = "none", !.verdict = "none"]
<1>3. /\ k \in JobRows
      /\ k.kind = j.kind /\ k.cand = j.cand /\ k.state = s /\ k.stage = "none" /\ k.tries = j.tries + 1
  <2>1. j.tries \in Nat /\ j.tries <= MaxTries
    BY <1>1 DEF Lost, WellFormed, JobRows
  <2>2. j.tries + 1 \in 0..(MaxTries + 1)
    BY <2>1, ReviewAssumption
  <2> QED BY <1>1, <2>2 DEF JobRows, Stages
<1>4. WellFormed(k)
  BY <1>1, <1>2, <1>3 DEF WellFormed
<1>5. UNCHANGED <<status, thinkers, fired, critiques, offered, clicks, launches>>
  BY DEF Lost
<1>6. /\ doubtful \subseteq doubtful' /\ doubtful' \subseteq Candidates
      /\ j.kind = "judge" /\ j.stage = "end" => j.cand \in doubtful'
  BY <1>1 DEF Lost, At, ReviewInv, TypeOK, WellFormed
<1>7. FitsStatus(k)'
  BY <1>1, <1>3, <1>5, <1>6 DEF FitsStatus
<1>8. jobs' = Changed(j, k, {})
  BY <1>2 DEF Lost, Ended
<1>9. faults' \in 0..MaxFaults
  BY ReviewAssumption DEF Lost, Spend, ReviewInv, TypeOK
<1>10. /\ fired' \in Seq(Candidates) /\ NomineesDoNotTrigger'
       /\ clicks' \in 0..MaxClicks /\ launches' \in 0..MaxLaunches
  BY <1>5 DEF ReviewInv, TypeOK, NomineesDoNotTrigger
<1> HIDE DEF k
<1> QED BY ONLY ReviewInv, <1>3, <1>4, <1>5, <1>6, <1>7, <1>8, <1>9, <1>10, QuietMove

\* A look that ends leaves the row at its end; a verdict is decided with it.
Ends(j) == [j EXCEPT !.stage = "end"]

LEMMA EndsRow ==
    ASSUME NEW j \in JobRows, j.state = "running", WellFormed(j)
    PROVE  /\ Ends(j) \in JobRows
           /\ Ends(j).kind = j.kind /\ Ends(j).cand = j.cand /\ Ends(j).stage = "end"
           /\ WellFormed(Ends(j))
BY DEF Ends, JobRows, Stages, WellFormed

\* The critic's row that a look inserts.
LEMMA NewCritic ==
    ASSUME NEW c \in Candidates \cup {NoCand}
    PROVE  /\ NewJob("critic", c) \in JobRows /\ NewJob("critic", c).kind = "critic"
           /\ WellFormed(NewJob("critic", c)) /\ ~Single(NewJob("critic", c))
BY ReviewAssumption DEF NewJob, JobRows, Stages, WellFormed, Single

\* A verdict is decided on its candidate, which was at the judge.
LEMMA DecideMove ==
    ASSUME ReviewInv, NEW j \in Rows, NEW new \in SUBSET JobRows,
           j.kind = "judge", j.state = "running", j.stage \in {"flight", "rows", "open", "fire"},
           \A x \in new : x.kind = "critic" /\ WellFormed(x),
           jobs' = Changed(j, Ends(j), new),
           Decide(j.cand, j.verdict),
           UNCHANGED <<critiques, offered, doubtful, faults, clicks, launches>>,
           fired' \in Seq(Candidates), NomineesDoNotTrigger'
    PROVE  ReviewInv'
<1> DEFINE c == j.cand
           v == j.verdict
<1>1. j \in JobRows /\ WellFormed(j) /\ FitsStatus(j)
  BY DEF ReviewInv, TypeOK, RowsFit
<1>2. c \in Candidates /\ v \in Decisions /\ status[c] \notin {"absent", "vetting"}
  BY <1>1 DEF WellFormed, FitsStatus, JobRows, Decisions
<1>3. c \notin doubtful => status[c] = "awaiting_llm"
  BY <1>1 DEF FitsStatus
<1>4. /\ status \in [Candidates -> {"absent", "vetting", "awaiting_llm", "pending_human", "promoted", "rejected"}]
      /\ thinkers \in [Candidates -> Nat]
  BY DEF ReviewInv, TypeOK
<1>5. /\ status' \in [Candidates -> {"absent", "vetting", "awaiting_llm", "pending_human", "promoted", "rejected"}]
      /\ status'[c] = v
      /\ \A d \in Candidates \ {c} : status'[d] = status[d]
  BY <1>2, <1>4 DEF Decide, Decisions
<1>6. /\ thinkers' \in [Candidates -> Nat]
      /\ thinkers'[c] = thinkers[c] + (IF v = "promoted" THEN 1 ELSE 0)
      /\ \A d \in Candidates \ {c} : thinkers'[d] = thinkers[d]
  BY <1>2, <1>4 DEF Decide
<1> HIDE DEF v
<1>7. ASSUME NEW x \in Rows, Single(x), ~(x.kind = j.kind /\ x.cand = j.cand)
      PROVE  FitsStatus(x)'
  <2>1. FitsStatus(x) /\ WellFormed(x)
    BY DEF RowsFit, ReviewInv
  <2>2. CASE x.cand = c
    BY <1>2, <1>5, <1>7, <2>1, <2>2 DEF FitsStatus, Decisions, Single
  <2>3. CASE x.cand # c
    <3>1. x.cand \in Candidates
      BY <1>7, <2>1 DEF WellFormed, Single
    <3> QED BY <1>5, <2>1, <2>3, <3>1 DEF FitsStatus
  <2> QED BY <2>2, <2>3
<1>8. /\ Ends(j) \in JobRows
      /\ Ends(j).kind = j.kind /\ Ends(j).cand = c /\ Ends(j).stage = "end"
      /\ WellFormed(Ends(j))
  BY <1>1, EndsRow
<1>9. FitsStatus(Ends(j))'
  BY <1>2, <1>5, <1>8 DEF FitsStatus, Decisions
<1>10. \A x \in new \cup {Ends(j)} : WellFormed(x) /\ FitsStatus(x)'
  BY <1>8, <1>9 DEF FitsStatus
<1>11. /\ IsABag(jobs') /\ Rows' \in SUBSET JobRows
       /\ RowsSingle' /\ RowsFit'
       /\ (Rows \ {j}) \cup {Ends(j)} \cup new \subseteq Rows'
  BY <1>7, <1>8, <1>10, MovedFit DEF Single
<1>12. TypeOK'
  BY <1>5, <1>6, <1>11 DEF TypeOK, ReviewInv
<1>13. AwaitingHasJudge'
  <2> SUFFICES ASSUME NEW d \in Candidates, status'[d] = "awaiting_llm"
               PROVE  \E x \in Rows' : x.kind = "judge" /\ x.cand = d
    BY DEF AwaitingHasJudge
  <2>1. status[d] = "awaiting_llm"
    BY <1>2, <1>5 DEF Decisions
  <2> QED BY <1>8, <1>11, <2>1, MovedJudges DEF ReviewInv
<1>14. RosterConsistent'
  <2> SUFFICES ASSUME NEW d \in Candidates \ doubtful
               PROVE  thinkers'[d] = IF status'[d] = "promoted" THEN 1 ELSE 0
    BY DEF RosterConsistent
  <2>1. thinkers[d] = IF status[d] = "promoted" THEN 1 ELSE 0
    BY DEF ReviewInv, RosterConsistent
  <2>2. CASE d = c
    BY <1>3, <1>5, <1>6, <2>1, <2>2
  <2>3. CASE d # c
    BY <1>5, <1>6, <2>1, <2>3
  <2> QED BY <2>2, <2>3
<1>15. OfferedDecided'
  BY <1>2, <1>5 DEF OfferedDecided, ReviewInv, TypeOK
<1>16. NomineeHasCritique'
  <2>1. \A d \in Nominees : status'[d] # "absent" => status[d] # "absent"
    BY <1>2, <1>5 DEF Candidates
  <2> QED BY <2>1 DEF NomineeHasCritique, ReviewInv
<1> QED BY <1>11, <1>12, <1>13, <1>14, <1>15, <1>16 DEF ReviewInv

LEMMA LookEndsKeeps == ASSUME ReviewInv, NEW j \in Rows, LookEnds(j) PROVE ReviewInv'
<1>1. j \in JobRows /\ WellFormed(j) /\ FitsStatus(j)
  BY DEF ReviewInv, TypeOK, RowsFit
<1>2. /\ j.state = "running" /\ j.stage \in {"flight", "rows", "open"}
      /\ jobs' = Changed(j, Ends(j), {})
      /\ UNCHANGED <<fired, critiques, offered, faults, clicks, launches, doubtful>>
      /\ Settle(j)
  BY DEF LookEnds, Looking, NextStage, Ends
<1>3. /\ fired' \in Seq(Candidates) /\ NomineesDoNotTrigger' /\ doubtful \subseteq Candidates
      /\ faults' \in 0..MaxFaults /\ clicks' \in 0..MaxClicks /\ launches' \in 0..MaxLaunches
  BY <1>2, Steady
<1>4. CASE j.kind = "judge"
  <2>1. Decide(j.cand, j.verdict)
    BY <1>2, <1>4 DEF Settle
  <2> QED BY ONLY ReviewInv, j \in Rows, <1>2, <1>3, <1>4, <2>1, DecideMove
<1>5. CASE j.kind # "judge"
  <2>1. UNCHANGED <<status, thinkers>>
    BY <1>2, <1>5 DEF Settle
  <2>2. /\ Ends(j) \in JobRows
        /\ Ends(j).kind = j.kind /\ Ends(j).cand = j.cand /\ Ends(j).stage = "end"
        /\ WellFormed(Ends(j))
    BY <1>1, <1>2, EndsRow
  <2>3. FitsStatus(Ends(j))'
    BY <1>1, <1>2, <1>5, <2>1, <2>2 DEF FitsStatus
  <2> QED BY ONLY ReviewInv, j \in Rows, <1>2, <1>3, <2>1, <2>2, <2>3, QuietMove
<1> QED BY <1>4, <1>5

\* The critic is enqueued: not by a nominee's look.
LEMMA FireKeeps == ASSUME ReviewInv, NEW j \in Rows, Fire(j) PROVE ReviewInv'
<1> DEFINE new == {NewJob("critic", j.cand)}
<1>1. j \in JobRows /\ WellFormed(j) /\ FitsStatus(j)
  BY DEF ReviewInv, TypeOK, RowsFit
<1>2. /\ j.state = "running" /\ j.stage = "fire"
      /\ jobs' = Changed(j, Ends(j), new)
      /\ fired' = Append(fired, j.cand)
      /\ UNCHANGED <<critiques, offered, faults, clicks, launches, doubtful>>
      /\ Settle(j)
  BY DEF Fire, Ends
<1>3. j.kind \in {"vet", "judge"} /\ j.cand \in Candidates /\ j.cand \notin Nominees
  BY <1>1, <1>2 DEF WellFormed, FitsStatus, JobRows
<1>4. /\ fired \in Seq(Candidates) /\ doubtful \subseteq Candidates
      /\ faults' \in 0..MaxFaults /\ clicks' \in 0..MaxClicks /\ launches' \in 0..MaxLaunches
  BY <1>2 DEF ReviewInv, TypeOK
<1>5. /\ fired' \in Seq(Candidates)
      /\ DOMAIN fired' = 1..(Len(fired) + 1)
      /\ \A i \in 1..Len(fired) : fired'[i] = fired[i]
      /\ fired'[Len(fired) + 1] = j.cand
  BY <1>2, <1>3, <1>4
<1>6. NomineesDoNotTrigger'
  <2>1. \A i \in 1..Len(fired) : fired[i] \notin Nominees
    BY <1>4 DEF ReviewInv, NomineesDoNotTrigger
  <2>2. Len(fired) \in Nat
    BY <1>4
  <2>3. \A i \in DOMAIN fired' : i \in 1..Len(fired) \/ i = Len(fired) + 1
    BY <1>5, <2>2
  <2> QED BY <1>3, <1>5, <2>1, <2>3 DEF NomineesDoNotTrigger
<1>7. /\ new \in SUBSET JobRows
      /\ \A x \in new : x.kind = "critic" /\ WellFormed(x)
  BY <1>3, NewCritic
<1> HIDE DEF new
<1>8. CASE j.kind = "judge"
  <2>1. Decide(j.cand, j.verdict)
    BY <1>2, <1>8 DEF Settle
  <2> QED BY ONLY ReviewInv, j \in Rows, <1>2, <1>5, <1>6, <1>7, <1>8, <2>1, DecideMove
<1>9. CASE j.kind # "judge"
  <2>1. UNCHANGED <<status, thinkers>>
    BY <1>2, <1>9 DEF Settle
  <2>2. /\ Ends(j) \in JobRows
        /\ Ends(j).kind = j.kind /\ Ends(j).cand = j.cand /\ Ends(j).stage = "end"
        /\ WellFormed(Ends(j))
    BY <1>1, <1>2, EndsRow
  <2>3. FitsStatus(Ends(j))'
    BY <1>1, <1>2, <1>9, <2>1, <2>2 DEF FitsStatus
  <2> QED BY ONLY ReviewInv, j \in Rows, <1>2, <1>4, <1>5, <1>6, <1>7, <2>1, <2>2, <2>3, QuietMove
<1> QED BY <1>8, <1>9

\* A row that is inserted, of a candidate that is not absent any more.
LEMMA NewRow ==
    ASSUME NEW kind \in {"vet", "judge"}, NEW c \in Candidates
    PROVE  /\ NewJob(kind, c) \in JobRows /\ WellFormed(NewJob(kind, c)) /\ Single(NewJob(kind, c))
           /\ NewJob(kind, c).kind = kind /\ NewJob(kind, c).cand = c /\ NewJob(kind, c).stage = "none"
BY ReviewAssumption DEF NewJob, JobRows, Stages, WellFormed, Single

\* Vetting settles its candidate, which nobody else has touched: it hands it
\* to the judge with the judge's row, or takes it off the pipeline.
LEMMA VetMove ==
    ASSUME ReviewInv, NEW j \in Rows, At(j, "vet", "gather"),
           NEW k \in JobRows, k.kind = j.kind, k.cand = j.cand, k.stage \in {"flight", "end"}, WellFormed(k),
           NEW v \in {"rejected", "pending_human", "awaiting_llm"},
           NEW new, new = (IF v = "awaiting_llm" THEN {NewJob("judge", j.cand)} ELSE {}),
           status' = [status EXCEPT ![j.cand] = v],
           jobs' = Changed(j, k, new),
           UNCHANGED <<thinkers, fired, critiques, offered, faults, clicks, launches, doubtful>>
    PROVE  ReviewInv'
<1> DEFINE c == j.cand
           n == NewJob("judge", c)
<1>1. j \in JobRows /\ WellFormed(j) /\ FitsStatus(j) /\ j.kind = "vet" /\ j.stage = "gather"
  BY DEF ReviewInv, TypeOK, RowsFit, At
<1>2. c \in Candidates /\ status[c] = "vetting"
  BY <1>1 DEF WellFormed, FitsStatus
<1>3. status \in [Candidates -> {"absent", "vetting", "awaiting_llm", "pending_human", "promoted", "rejected"}]
  BY DEF ReviewInv, TypeOK
<1>4. /\ status' \in [Candidates -> {"absent", "vetting", "awaiting_llm", "pending_human", "promoted", "rejected"}]
      /\ status'[c] = v
      /\ \A d \in Candidates \ {c} : status'[d] = status[d]
  BY <1>2, <1>3
<1>5. ASSUME NEW x \in Rows, Single(x), x.cand = c
      PROVE  x.kind # "judge"
  <2>1. FitsStatus(x)
    BY DEF RowsFit, ReviewInv
  <2> QED BY <1>2, <1>5, <2>1 DEF FitsStatus
<1>6. ASSUME NEW x \in Rows, Single(x), ~(x.kind = j.kind /\ x.cand = j.cand)
      PROVE  FitsStatus(x)'
  <2>1. FitsStatus(x) /\ WellFormed(x)
    BY DEF RowsFit, ReviewInv
  <2>2. x.cand # c
    BY <1>1, <1>5, <1>6 DEF Single
  <2>3. x.cand \in Candidates
    BY <1>6, <2>1 DEF WellFormed, Single
  <2> QED BY <1>4, <2>1, <2>2, <2>3 DEF FitsStatus
<1>7. /\ n \in JobRows /\ WellFormed(n)
      /\ n.kind = "judge" /\ n.cand = c /\ n.stage = "none"
  BY <1>2, NewRow
<1> HIDE DEF n
<1>8. new = IF v = "awaiting_llm" THEN {n} ELSE {}
  BY DEF n
<1>9. FitsStatus(k)'
  BY <1>1, <1>4 DEF FitsStatus
<1>10. v = "awaiting_llm" => FitsStatus(n)'
  BY <1>4, <1>7 DEF FitsStatus
<1>11. \A x \in new \cup {k} : WellFormed(x) /\ FitsStatus(x)'
  BY <1>7, <1>8, <1>9, <1>10
<1>12. /\ new \in SUBSET JobRows
       /\ \A x \in new : Single(x) =>
               /\ \A y \in Rows : Single(y) /\ y.cand = x.cand => y.kind # x.kind
               /\ \A y \in new : y.cand = x.cand => y = x
  BY <1>5, <1>7, <1>8
<1>13. /\ IsABag(jobs') /\ Rows' \in SUBSET JobRows
       /\ RowsSingle' /\ RowsFit'
       /\ (Rows \ {j}) \cup {k} \cup new \subseteq Rows'
  BY <1>6, <1>11, <1>12, MovedFit
<1>14. TypeOK'
  BY <1>4, <1>13 DEF TypeOK, ReviewInv
<1>15. AwaitingHasJudge'
  <2> SUFFICES ASSUME NEW d \in Candidates, status'[d] = "awaiting_llm"
               PROVE  \E x \in Rows' : x.kind = "judge" /\ x.cand = d
    BY DEF AwaitingHasJudge
  <2>1. CASE d = c
    BY <1>4, <1>7, <1>8, <1>13, <2>1
  <2>2. CASE d # c
    BY <1>4, <1>13, <2>2, MovedJudges DEF ReviewInv
  <2> QED BY <2>1, <2>2
<1>16. RosterConsistent'
  <2> SUFFICES ASSUME NEW d \in Candidates \ doubtful
               PROVE  thinkers[d] = IF status'[d] = "promoted" THEN 1 ELSE 0
    BY DEF RosterConsistent
  <2>1. thinkers[d] = IF status[d] = "promoted" THEN 1 ELSE 0
    BY DEF ReviewInv, RosterConsistent
  <2>2. CASE d = c
    BY <1>2, <1>4, <2>1, <2>2
  <2>3. CASE d # c
    BY <1>4, <2>1, <2>3
  <2> QED BY <2>2, <2>3
<1>17. OfferedDecided'
  <2>1. c \notin offered
    BY <1>2 DEF OfferedDecided, ReviewInv, Decisions
  <2> QED BY <1>4, <2>1 DEF OfferedDecided, ReviewInv, TypeOK
<1>18. NomineeHasCritique'
  <2>1. \A d \in Nominees : status'[d] # "absent" => status[d] # "absent"
    BY <1>2, <1>4 DEF Candidates
  <2> QED BY <2>1 DEF NomineeHasCritique, ReviewInv
<1>19. NomineesDoNotTrigger'
  BY DEF ReviewInv, NomineesDoNotTrigger
<1> QED BY <1>13, <1>14, <1>15, <1>16, <1>17, <1>18, <1>19 DEF ReviewInv

\* A vetting row that goes on to the look.
LEMMA FlightRow ==
    ASSUME NEW j \in JobRows, At(j, "vet", "gather"), WellFormed(j)
    PROVE  /\ [j EXCEPT !.stage = "flight"] \in JobRows
           /\ [j EXCEPT !.stage = "flight"].kind = j.kind
           /\ [j EXCEPT !.stage = "flight"].cand = j.cand
           /\ [j EXCEPT !.stage = "flight"].stage = "flight"
           /\ WellFormed([j EXCEPT !.stage = "flight"])
BY DEF At, JobRows, Stages, WellFormed

LEMMA VetKeeps ==
    ASSUME ReviewInv, NEW j \in Rows, VetSettled(j) \/ VetOverturned(j) \/ VetShortlisted(j)
    PROVE  ReviewInv'
<1> DEFINE k == [j EXCEPT !.stage = "flight"]
<1>1. j \in JobRows /\ WellFormed(j) /\ At(j, "vet", "gather") /\ j.state = "running"
  BY DEF ReviewInv, TypeOK, RowsFit, VetSettled, VetOverturned, VetShortlisted, At
<1>2. k \in JobRows /\ k.kind = j.kind /\ k.cand = j.cand /\ k.stage = "flight" /\ WellFormed(k)
  BY ONLY <1>1, FlightRow
<1>3. Ends(j) \in JobRows /\ Ends(j).kind = j.kind /\ Ends(j).cand = j.cand
      /\ Ends(j).stage = "end" /\ WellFormed(Ends(j))
  BY <1>1, EndsRow
<1>4. UNCHANGED <<thinkers, fired, critiques, offered, faults, clicks, launches, doubtful>>
  BY DEF VetSettled, VetOverturned, VetShortlisted
<1>5. CASE VetSettled(j)
  <2>1. PICK v \in {"rejected", "pending_human"} : status' = [status EXCEPT ![j.cand] = v]
    BY <1>5 DEF VetSettled
  <2>2. jobs' = Changed(j, k, {})
    BY <1>5 DEF VetSettled
  <2>3. {} = IF v = "awaiting_llm" THEN {NewJob("judge", j.cand)} ELSE {}
    BY <2>1
  <2> HIDE DEF k
  <2> QED BY ONLY ReviewInv, j \in Rows, <1>1, <1>2, <1>4, <2>1, <2>2, <2>3, VetMove
<1>6. CASE VetOverturned(j)
  <2>1. /\ status' = [status EXCEPT ![j.cand] = "pending_human"]
        /\ jobs' = Changed(j, Ends(j), {})
    BY <1>6 DEF VetOverturned, Ends
  <2>2. {} = IF "pending_human" = "awaiting_llm" THEN {NewJob("judge", j.cand)} ELSE {}
    OBVIOUS
  <2> QED BY ONLY ReviewInv, j \in Rows, <1>1, <1>3, <1>4, <2>1, <2>2, VetMove
<1>7. CASE VetShortlisted(j)
  <2> DEFINE new == {NewJob("judge", j.cand)}
  <2>1. /\ status' = [status EXCEPT ![j.cand] = "awaiting_llm"]
        /\ jobs' = Changed(j, k, new)
    BY <1>7 DEF VetShortlisted
  <2>2. new = IF "awaiting_llm" = "awaiting_llm" THEN {NewJob("judge", j.cand)} ELSE {}
    OBVIOUS
  <2> HIDE DEF k, new
  <2> QED BY ONLY ReviewInv, j \in Rows, <1>1, <1>2, <1>4, <2>1, <2>2, VetMove
<1> QED BY <1>5, <1>6, <1>7

\* Candidates that nobody had get a vetting row each.
VetRows(S) == {NewJob("vet", c) : c \in S}

LEMMA FreshRows ==
    ASSUME ReviewInv, NEW S \in SUBSET {c \in Candidates : status[c] = "absent"},
           status' = [c \in Candidates |-> IF c \in S THEN "vetting" ELSE status[c]],
           UNCHANGED doubtful
    PROVE  /\ VetRows(S) \in SUBSET JobRows
           /\ \A x \in VetRows(S) : Single(x) =>
                 /\ \A y \in Rows : Single(y) /\ y.cand = x.cand => y.kind # x.kind
                 /\ \A y \in VetRows(S) : y.cand = x.cand => y = x
           /\ \A x \in VetRows(S) : WellFormed(x) /\ FitsStatus(x)'
           /\ \A x \in Rows : WellFormed(x) /\ FitsStatus(x) /\ FitsStatus(x)'
           /\ status' \in [Candidates -> {"absent", "vetting", "awaiting_llm", "pending_human", "promoted", "rejected"}]
<1>1. ASSUME NEW x \in VetRows(S)
      PROVE  /\ x \in JobRows /\ WellFormed(x) /\ x.kind = "vet" /\ x.stage = "none"
             /\ x.cand \in S /\ x = NewJob("vet", x.cand)
  <2>1. PICK c \in S : x = NewJob("vet", c)
    BY DEF VetRows
  <2>2. /\ NewJob("vet", c) \in JobRows /\ WellFormed(NewJob("vet", c))
        /\ NewJob("vet", c).kind = "vet" /\ NewJob("vet", c).cand = c /\ NewJob("vet", c).stage = "none"
    BY NewRow
  <2> QED BY <2>1, <2>2
<1>2. \A x \in Rows : WellFormed(x) /\ FitsStatus(x)
  BY DEF ReviewInv, RowsFit
<1>3. ASSUME NEW x \in Rows, Single(x) PROVE x.cand \in Candidates \ S
  BY <1>2, <1>3 DEF FitsStatus, WellFormed, Single
<1>4. status \in [Candidates -> {"absent", "vetting", "awaiting_llm", "pending_human", "promoted", "rejected"}]
  BY DEF ReviewInv, TypeOK
<1>5. \A c \in Candidates : status'[c] = IF c \in S THEN "vetting" ELSE status[c]
  OBVIOUS
<1>6. ASSUME NEW x \in Rows PROVE FitsStatus(x)'
  <2>1. CASE Single(x)
    BY <1>2, <1>3, <1>5, <2>1 DEF FitsStatus
  <2>2. CASE ~Single(x)
    BY <2>2 DEF FitsStatus, Single
  <2> QED BY <2>1, <2>2
<1>7. \A x \in VetRows(S) : FitsStatus(x)'
  BY <1>1, <1>5 DEF FitsStatus
<1>8. \A x \in VetRows(S) : \A y \in Rows : Single(y) => y.cand # x.cand
  BY <1>1, <1>3
<1>9. \A x, y \in VetRows(S) : y.cand = x.cand => y = x
  BY <1>1
<1>10. VetRows(S) \in SUBSET JobRows
  BY <1>1
<1> QED BY <1>1, <1>2, <1>4, <1>6, <1>7, <1>8, <1>9, <1>10

\* What new candidates leave of the invariant's parts about candidates.
LEMMA FreshKeeps ==
    ASSUME ReviewInv, NEW S \in SUBSET {c \in Candidates : status[c] = "absent"},
           status' = [c \in Candidates |-> IF c \in S THEN "vetting" ELSE status[c]],
           UNCHANGED <<thinkers, doubtful, offered>>
    PROVE  /\ RosterConsistent' /\ OfferedDecided'
           /\ \A c \in Candidates : status'[c] = "awaiting_llm" => status[c] = "awaiting_llm"
<1>1. \A c \in Candidates : status'[c] = IF c \in S THEN "vetting" ELSE status[c]
  OBVIOUS
<1>2. RosterConsistent'
  BY <1>1 DEF RosterConsistent, ReviewInv
<1>3. OfferedDecided'
  BY <1>1 DEF OfferedDecided, Decisions, ReviewInv, TypeOK
<1> QED BY <1>1, <1>2, <1>3

LEMMA CritiqueKeeps == ASSUME ReviewInv, NEW j \in Rows, Critique(j) PROVE ReviewInv'
<1>1. PICK S \in SUBSET {c \in Nominees : status[c] = "absent"} :
          /\ status' = [c \in Candidates |-> IF c \in S THEN "vetting" ELSE status[c]]
          /\ jobs' = Changed(j, Ends(j), VetRows(S))
  BY DEF Critique, Ends, VetRows
<1>2. S \in SUBSET {c \in Candidates : status[c] = "absent"}
  BY DEF Candidates
<1>3. /\ critiques' = critiques + 1 /\ j.kind = "critic" /\ j.state = "running"
      /\ UNCHANGED <<thinkers, fired, offered, faults, clicks, launches, doubtful>>
  BY DEF Critique, At
<1>4. /\ VetRows(S) \in SUBSET JobRows
      /\ \A x \in VetRows(S) : Single(x) =>
            /\ \A y \in Rows : Single(y) /\ y.cand = x.cand => y.kind # x.kind
            /\ \A y \in VetRows(S) : y.cand = x.cand => y = x
      /\ \A x \in VetRows(S) : WellFormed(x) /\ FitsStatus(x)'
      /\ \A x \in Rows : WellFormed(x) /\ FitsStatus(x) /\ FitsStatus(x)'
      /\ status' \in [Candidates -> {"absent", "vetting", "awaiting_llm", "pending_human", "promoted", "rejected"}]
  BY ONLY ReviewInv, <1>1, <1>2, <1>3, FreshRows
<1>5. j \in JobRows
  BY DEF ReviewInv, TypeOK
<1>6. Ends(j) \in JobRows /\ Ends(j).kind = j.kind /\ Ends(j).cand = j.cand /\ WellFormed(Ends(j))
  BY <1>3, <1>4, <1>5, EndsRow
<1>7. \A x \in VetRows(S) \cup {Ends(j)} : WellFormed(x) /\ FitsStatus(x)'
  BY <1>3, <1>4, <1>6 DEF FitsStatus
<1>8. /\ IsABag(jobs') /\ Rows' \in SUBSET JobRows
      /\ RowsSingle' /\ RowsFit'
      /\ (Rows \ {j}) \cup {Ends(j)} \cup VetRows(S) \subseteq Rows'
  BY <1>1, <1>4, <1>6, <1>7, MovedFit
<1>9. critiques \in Nat
  BY DEF ReviewInv, TypeOK
<1>10. TypeOK'
  BY <1>3, <1>4, <1>8, <1>9 DEF TypeOK, ReviewInv
<1>11. /\ RosterConsistent' /\ OfferedDecided'
       /\ \A c \in Candidates : status'[c] = "awaiting_llm" => status[c] = "awaiting_llm"
  BY ONLY ReviewInv, <1>1, <1>2, <1>3, FreshKeeps
<1>12. AwaitingHasJudge'
  <2> SUFFICES ASSUME NEW d \in Candidates, status'[d] = "awaiting_llm"
               PROVE  \E x \in Rows' : x.kind = "judge" /\ x.cand = d
    BY DEF AwaitingHasJudge
  <2> QED BY <1>6, <1>8, <1>11, MovedJudges DEF ReviewInv
<1>13. NomineeHasCritique' /\ NomineesDoNotTrigger'
  BY <1>3, <1>9 DEF NomineeHasCritique, NomineesDoNotTrigger, ReviewInv
<1> QED BY <1>8, <1>10, <1>11, <1>12, <1>13 DEF ReviewInv

LEMMA ExpertSearchKeeps == ASSUME ReviewInv, ExpertSearch PROVE ReviewInv'
<1>1. PICK S \in SUBSET {c \in Seeds : status[c] = "absent"} :
          /\ status' = [c \in Candidates |-> IF c \in S THEN "vetting" ELSE status[c]]
          /\ jobs' = jobs (+) SetToBag(VetRows(S))
  BY DEF ExpertSearch, Inserted, VetRows
<1>2. S \in SUBSET {c \in Candidates : status[c] = "absent"}
  BY DEF Candidates
<1>3. UNCHANGED <<thinkers, fired, critiques, offered, faults, clicks, launches, doubtful>>
  BY DEF ExpertSearch
<1>4. /\ VetRows(S) \in SUBSET JobRows
      /\ \A x \in VetRows(S) : Single(x) =>
            /\ \A y \in Rows : Single(y) /\ y.cand = x.cand => y.kind # x.kind
            /\ \A y \in VetRows(S) : y.cand = x.cand => y = x
      /\ \A x \in VetRows(S) : WellFormed(x) /\ FitsStatus(x)'
      /\ \A x \in Rows : WellFormed(x) /\ FitsStatus(x) /\ FitsStatus(x)'
      /\ status' \in [Candidates -> {"absent", "vetting", "awaiting_llm", "pending_human", "promoted", "rejected"}]
  BY ONLY ReviewInv, <1>1, <1>2, <1>3, FreshRows
<1>5. /\ IsABag(jobs') /\ Rows' \in SUBSET JobRows
      /\ RowsSingle'
      /\ Rows' = Rows \cup VetRows(S)
  BY <1>1, <1>4, RowsInserted DEF ReviewInv
<1>6. RowsFit'
  BY <1>4, <1>5 DEF RowsFit, WellFormed
<1>7. TypeOK'
  BY <1>3, <1>4, <1>5 DEF TypeOK, ReviewInv
<1>8. /\ RosterConsistent' /\ OfferedDecided'
      /\ \A c \in Candidates : status'[c] = "awaiting_llm" => status[c] = "awaiting_llm"
  BY ONLY ReviewInv, <1>1, <1>2, <1>3, FreshKeeps
<1>9. AwaitingHasJudge'
  BY <1>5, <1>8 DEF AwaitingHasJudge, ReviewInv
<1>10. NomineeHasCritique'
  <2>1. \A c \in Nominees : status'[c] = status[c]
    BY <1>1, ReviewAssumption DEF Candidates
  <2> QED BY <1>3, <2>1 DEF NomineeHasCritique, ReviewInv
<1>11. NomineesDoNotTrigger'
  BY <1>3 DEF NomineesDoNotTrigger, ReviewInv
<1> QED BY <1>5, <1>6, <1>7, <1>8, <1>9, <1>10, <1>11 DEF ReviewInv

\* A row that is done goes; no candidate waits for it.
LEMMA CompleteKeeps == ASSUME ReviewInv, NEW j \in Rows, Complete(j) PROVE ReviewInv'
<1>1. IsABag(jobs) /\ j \in BagToSet(jobs) /\ Rows \in SUBSET JobRows
  BY DEF ReviewInv, TypeOK, Rows
<1>2. jobs' = jobs (-) SetToBag({j}) /\ j.stage = "end"
      /\ UNCHANGED <<status, thinkers, fired, critiques, offered, faults, clicks, launches, doubtful>>
  BY DEF Complete
<1>3. /\ IsABag(jobs')
      /\ Rows' = {x \in Rows : x # j \/ jobs[x] > 1}
      /\ \A x \in Rows' : jobs'[x] = IF x = j THEN jobs[x] - 1 ELSE jobs[x]
  BY <1>1, <1>2, Without DEF Rows
<1>4. RowsSingle'
  BY <1>3 DEF ReviewInv, RowsSingle, Single
<1>5. RowsFit'
  <2> SUFFICES ASSUME NEW x \in Rows' PROVE WellFormed(x) /\ FitsStatus(x)'
    BY DEF RowsFit, WellFormed
  <2>1. WellFormed(x) /\ FitsStatus(x)
    BY <1>3 DEF ReviewInv, RowsFit
  <2> QED BY <1>2, <2>1 DEF FitsStatus
<1>6. AwaitingHasJudge'
  <2> SUFFICES ASSUME NEW c \in Candidates, status[c] = "awaiting_llm"
               PROVE  \E x \in Rows' : x.kind = "judge" /\ x.cand = c
    BY <1>2 DEF AwaitingHasJudge
  <2>1. PICK x \in Rows : x.kind = "judge" /\ x.cand = c
    BY DEF ReviewInv, AwaitingHasJudge
  <2>2. x.stage # "end"
    BY <2>1 DEF ReviewInv, RowsFit, FitsStatus
  <2> QED BY <1>2, <1>3, <2>1, <2>2
<1>7. TypeOK'
  BY <1>1, <1>2, <1>3 DEF TypeOK, ReviewInv
<1>8. RosterConsistent' /\ OfferedDecided' /\ NomineeHasCritique' /\ NomineesDoNotTrigger'
  BY <1>2 DEF ReviewInv, RosterConsistent, OfferedDecided, NomineeHasCritique, NomineesDoNotTrigger
<1> QED BY <1>3, <1>4, <1>5, <1>6, <1>7, <1>8 DEF ReviewInv

LEMMA LaunchCritiqueKeeps == ASSUME ReviewInv, LaunchCritique PROVE ReviewInv'
<1> DEFINE new == {NewJob("critic", NoCand)}
<1>1. /\ jobs' = jobs (+) SetToBag(new)
      /\ launches' \in 0..MaxLaunches
      /\ UNCHANGED <<status, thinkers, fired, critiques, offered, faults, clicks, doubtful>>
  BY ReviewAssumption DEF LaunchCritique, ReviewInv, TypeOK
<1>2. new \in SUBSET JobRows /\ \A x \in new : ~Single(x) /\ WellFormed(x) /\ x.kind = "critic"
  BY NewCritic
<1> HIDE DEF new
<1>3. /\ IsABag(jobs') /\ Rows' \in SUBSET JobRows
      /\ RowsSingle'
      /\ Rows' = Rows \cup new
  BY <1>1, <1>2, RowsInserted DEF ReviewInv
<1>4. RowsFit'
  <2> SUFFICES ASSUME NEW x \in Rows' PROVE WellFormed(x) /\ FitsStatus(x)'
    BY DEF RowsFit, WellFormed
  <2>1. CASE x \in Rows
    <3>1. WellFormed(x) /\ FitsStatus(x)
      BY <2>1 DEF ReviewInv, RowsFit
    <3> QED BY <1>1, <3>1 DEF FitsStatus
  <2>2. CASE x \in new
    BY <1>2, <2>2 DEF FitsStatus
  <2> QED BY <1>3, <2>1, <2>2
<1>5. TypeOK'
  BY <1>1, <1>3 DEF TypeOK, ReviewInv
<1>6. AwaitingHasJudge'
  BY <1>1, <1>3 DEF AwaitingHasJudge, ReviewInv
<1>7. RosterConsistent' /\ OfferedDecided' /\ NomineeHasCritique' /\ NomineesDoNotTrigger'
  BY <1>1 DEF ReviewInv, RosterConsistent, OfferedDecided, NomineeHasCritique, NomineesDoNotTrigger
<1> QED BY <1>3, <1>4, <1>5, <1>6, <1>7 DEF ReviewInv

LEMMA LoadPageKeeps == ASSUME ReviewInv, LoadPage PROVE ReviewInv'
<1>1. /\ offered' = {c \in Candidates : status[c] = "pending_human"}
      /\ UNCHANGED <<status, thinkers, jobs, fired, critiques, faults, clicks, launches, doubtful>>
  BY DEF LoadPage
<1>2. OfferedDecided' /\ offered' \subseteq Candidates
  BY <1>1 DEF OfferedDecided, Decisions
<1>3. Rows' = Rows
  BY <1>1 DEF Rows
<1>4. TypeOK' /\ RowsSingle'
  BY <1>1, <1>2, <1>3 DEF ReviewInv, TypeOK, RowsSingle, Single
<1>5. RowsFit'
  <2> SUFFICES ASSUME NEW x \in Rows PROVE WellFormed(x) /\ FitsStatus(x)'
    BY <1>3 DEF RowsFit, WellFormed
  <2>1. WellFormed(x) /\ FitsStatus(x)
    BY DEF ReviewInv, RowsFit
  <2> QED BY <1>1, <2>1 DEF FitsStatus
<1>6. AwaitingHasJudge' /\ RosterConsistent' /\ NomineeHasCritique' /\ NomineesDoNotTrigger'
  BY <1>1, <1>3 DEF ReviewInv, AwaitingHasJudge, RosterConsistent, NomineeHasCritique, NomineesDoNotTrigger
<1> QED BY <1>2, <1>4, <1>5, <1>6 DEF ReviewInv

\* An operator decides on a candidate that was offered once: it is past the
\* judge, and if it waits no more it is marked.
LEMMA HumanDecidesKeeps == ASSUME ReviewInv, NEW c \in Candidates, HumanDecides(c) PROVE ReviewInv'
<1>1. PICK v \in {"promoted", "rejected"} : Decide(c, v)
  BY DEF HumanDecides
<1>2. /\ c \in offered /\ status[c] \in Decisions
      /\ doubtful \subseteq doubtful' /\ doubtful' \subseteq Candidates
      /\ c \notin doubtful' => status[c] = "pending_human" /\ c \notin doubtful
      /\ \A d \in Candidates \ {c} : d \in doubtful' => d \in doubtful
      /\ clicks' \in 0..MaxClicks
      /\ UNCHANGED <<jobs, fired, critiques, offered, faults, launches>>
  BY ReviewAssumption DEF HumanDecides, ReviewInv, OfferedDecided, TypeOK
<1>3. /\ status \in [Candidates -> {"absent", "vetting", "awaiting_llm", "pending_human", "promoted", "rejected"}]
      /\ thinkers \in [Candidates -> Nat]
  BY DEF ReviewInv, TypeOK
<1>4. /\ status' \in [Candidates -> {"absent", "vetting", "awaiting_llm", "pending_human", "promoted", "rejected"}]
      /\ status'[c] = v
      /\ \A d \in Candidates \ {c} : status'[d] = status[d]
  BY <1>1, <1>3 DEF Decide
<1>5. /\ thinkers' \in [Candidates -> Nat]
      /\ thinkers'[c] = thinkers[c] + (IF v = "promoted" THEN 1 ELSE 0)
      /\ \A d \in Candidates \ {c} : thinkers'[d] = thinkers[d]
  BY <1>1, <1>3 DEF Decide
<1>6. Rows' = Rows
  BY <1>2 DEF Rows
<1>7. TypeOK' /\ RowsSingle'
  BY <1>2, <1>4, <1>5, <1>6 DEF ReviewInv, TypeOK, RowsSingle, Single
<1>8. RowsFit'
  <2> SUFFICES ASSUME NEW x \in Rows PROVE WellFormed(x) /\ FitsStatus(x)'
    BY <1>6 DEF RowsFit, WellFormed
  <2>1. WellFormed(x) /\ FitsStatus(x)
    BY DEF ReviewInv, RowsFit
  <2>2. CASE Single(x) /\ x.cand = c
    <3>1. x.kind = "judge" /\ x.stage # "end" => c \in doubtful
      BY <1>2, <2>1, <2>2 DEF FitsStatus, Decisions
    <3> QED BY <1>2, <1>4, <2>1, <2>2, <3>1 DEF FitsStatus, Decisions
  <2>3. CASE Single(x) /\ x.cand # c
    <3>1. x.cand \in Candidates
      BY <2>1, <2>3 DEF WellFormed, Single
    <3> QED BY <1>2, <1>4, <2>1, <2>3, <3>1 DEF FitsStatus
  <2>4. CASE ~Single(x)
    BY <2>1, <2>4 DEF FitsStatus, Single
  <2> QED BY <2>1, <2>2, <2>3, <2>4
<1>9. AwaitingHasJudge'
  BY <1>4, <1>6 DEF ReviewInv, AwaitingHasJudge
<1>10. RosterConsistent'
  <2> SUFFICES ASSUME NEW d \in Candidates \ doubtful'
               PROVE  thinkers'[d] = IF status'[d] = "promoted" THEN 1 ELSE 0
    BY DEF RosterConsistent
  <2>1. thinkers[d] = IF status[d] = "promoted" THEN 1 ELSE 0
    BY <1>2 DEF ReviewInv, RosterConsistent
  <2>2. CASE d = c
    BY <1>2, <1>4, <1>5, <2>1, <2>2
  <2>3. CASE d # c
    BY <1>4, <1>5, <2>1, <2>3
  <2> QED BY <2>2, <2>3
<1>11. OfferedDecided'
  BY <1>2, <1>4 DEF ReviewInv, OfferedDecided, TypeOK, Decisions
<1>12. NomineeHasCritique'
  <2>1. \A d \in Nominees : status'[d] # "absent" => status[d] # "absent"
    BY <1>2, <1>4 DEF Candidates, Decisions
  <2> QED BY <1>2, <2>1 DEF NomineeHasCritique, ReviewInv
<1>13. NomineesDoNotTrigger'
  BY <1>2 DEF ReviewInv, NomineesDoNotTrigger
<1> QED BY <1>7, <1>8, <1>9, <1>10, <1>11, <1>12, <1>13 DEF ReviewInv

LEMMA ReviewInitially == Init => ReviewInv
<1> SUFFICES ASSUME Init PROVE ReviewInv
  OBVIOUS
<1>1. Rows = {} /\ IsABag(jobs)
  BY DEF Init, Rows, EmptyBag, SetToBag, BagToSet, IsABag
<1>2. TypeOK
  BY <1>1, ReviewAssumption DEF Init, TypeOK
<1> QED BY <1>1, <1>2, ReviewAssumption DEF Init, ReviewInv, RowsSingle, RowsFit, OfferedDecided,
       NomineeHasCritique, RosterConsistent, AwaitingHasJudge, NomineesDoNotTrigger, Candidates

LEMMA ReviewStuttering == ASSUME ReviewInv, UNCHANGED vars PROVE ReviewInv'
<1>1. UNCHANGED <<status, thinkers, jobs, fired, critiques, offered, faults, clicks, launches, doubtful>>
  BY DEF vars
<1>2. Rows' = Rows
  BY <1>1 DEF Rows
<1>3. \A x : FitsStatus(x)' <=> FitsStatus(x)
  BY <1>1 DEF FitsStatus
<1>4. RowsFit'
  BY <1>2, <1>3 DEF ReviewInv, RowsFit, WellFormed
<1> QED BY <1>1, <1>2, <1>4 DEF ReviewInv, TypeOK, RowsSingle, Single, OfferedDecided,
       NomineeHasCritique, RosterConsistent, AwaitingHasJudge, NomineesDoNotTrigger

LEMMA ReviewStep == ReviewInv /\ [Next]_vars => ReviewInv'
<1> SUFFICES ASSUME ReviewInv, [Next]_vars PROVE ReviewInv'
  OBVIOUS
<1>1. CASE ExpertSearch
  BY <1>1, ExpertSearchKeeps
<1>2. ASSUME NEW j \in Rows, Handle(j) PROVE ReviewInv'
  <2>1. CASE Start(j)
    BY <2>1, StartKeeps
  <2>2. CASE VetSettled(j) \/ VetOverturned(j) \/ VetShortlisted(j)
    BY <2>2, VetKeeps
  <2>3. CASE JudgeAnswers(j)
    BY <2>3, JudgeAnswersKeeps
  <2>4. CASE LookOn(j)
    BY <2>4, LookOnKeeps
  <2>5. CASE LookEnds(j)
    BY <2>5, LookEndsKeeps
  <2>6. CASE Fire(j)
    BY <2>6, FireKeeps
  <2>7. CASE Critique(j)
    BY <2>7, CritiqueKeeps
  <2>8. CASE Complete(j)
    BY <2>8, CompleteKeeps
  <2>9. CASE Fail(j)
    BY <2>9, FailKeeps
  <2> QED BY <1>2, <2>1, <2>2, <2>3, <2>4, <2>5, <2>6, <2>7, <2>8, <2>9 DEF Handle
<1>3. ASSUME NEW j \in Rows, Lost(j) PROVE ReviewInv'
  BY <1>3, LostKeeps
<1>4. CASE LoadPage
  BY <1>4, LoadPageKeeps
<1>5. ASSUME NEW c \in Candidates, HumanDecides(c) PROVE ReviewInv'
  BY <1>5, HumanDecidesKeeps
<1>6. CASE LaunchCritique
  BY <1>6, LaunchCritiqueKeeps
<1>7. CASE UNCHANGED vars
  BY <1>7, ReviewStuttering
<1> QED BY <1>1, <1>2, <1>3, <1>4, <1>5, <1>6, <1>7 DEF Next

\* The inductive invariant of the review.
THEOREM ReviewInvariant == Spec => []ReviewInv
<1>1. Init => ReviewInv
  BY ReviewInitially
<1>2. ReviewInv /\ [Next]_vars => ReviewInv'
  BY ReviewStep
<1> QED BY <1>1, <1>2, PTL DEF Spec

\* Every variable keeps its type: rows, their tries and stages included.
THEOREM ReviewTypes == Spec => []TypeOK
BY ReviewInvariant, PTL DEF ReviewInv

\* A candidate is promoted exactly when one thinker was made from it, however
\* often its vetting is run again, unless its verdict was delivered twice or
\* an operator decided on an outdated page.
THEOREM PromotedOnce == Spec => []RosterConsistent
BY ReviewInvariant, PTL DEF ReviewInv

\* A candidate at the judge always has the judge's row, for any number of
\* crashes and lost reports: the row is inserted with the status.
THEOREM NoneAwaitsNobody == Spec => []AwaitingHasJudge
BY ReviewInvariant, PTL DEF ReviewInv

\* No look on behalf of a nominee enqueues the critic: the critique that
\* nominated it is stored by the commit that made it.
THEOREM NomineesNeverTrigger == Spec => []NomineesDoNotTrigger
BY ReviewInvariant, PTL DEF ReviewInv
=============================================================================
