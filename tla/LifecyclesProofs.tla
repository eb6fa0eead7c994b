---------------------------- MODULE LifecyclesProofs ----------------------------
(***************************************************************************)
(* Proofs about what must reach an end: that an expert's position rests on *)
(* one execution of an inquiry, for any experts, rows, tries and number of *)
(* crashes; and that candidates, inquiries and episodes keep their         *)
(* invariants where MCLifecycles composes them.                            *)
(*                                                                         *)
(* A row of an inquiry that is claimed again makes a second execution: the *)
(* two are kept apart by the lock, and by what each found of an expert     *)
(* when it entered that expert's transaction.                              *)
(***************************************************************************)
EXTENDS MCLifecycles, CandidateReviewProofs, FiniteSetTheorems

-----------------------------------------------------------------------------
(* Inquiry.                                                                *)

RunStages == {"loaded", "headline", "roster", "experts", "lanes", "end"}
Working == {"headline", "roster", "experts", "lanes"}
Accounts == InquiryRows \X Nat
Runs == [row : InquiryRows, try : Nat, stage : RunStages, headline : BOOLEAN,
         todo : SUBSET Experts, cur : SUBSET Experts, seen : SUBSET Accounts]

StateTypeOK ==
    /\ InquiryTypeOK /\ runs \subseteq Runs
    /\ rows \in [InquiryRows -> [state : {"absent", "queued", "running", "done", "failed"},
                                 tries : 0..InquiryTries]]
    /\ position \in [Experts -> Accounts \cup {Free}]
    /\ observations \in [Experts -> SUBSET Accounts]
    /\ abandoned \in BOOLEAN /\ skipped \in BOOLEAN

\* An execution's name is its own, and older than its row's next claim.
Named ==
    /\ \A x \in runs : x.try \in 1..rows[x.row].tries
    /\ \A x, y \in runs : Name(x) = Name(y) => x = y
    /\ \A r \in InquiryRows : rows[r].state = "queued" => rows[r].tries < InquiryTries
    /\ \A r \in InquiryRows : rows[r].state = "absent" => rows[r].tries = 0

\* Who works on the inquiry holds its lock.
WorksUnderLock == \A x \in runs : x.stage \in Working => holder = Name(x)

\* Who is within an expert's transaction found the expert without a position.
WithoutPosition ==
    \A x \in runs : x.stage = "lanes" => \A e \in x.cur : position[e] = Free

InquiryInv == StateTypeOK /\ Named /\ WorksUnderLock /\ WithoutPosition /\ OneAccountPerExpert

-----------------------------------------------------------------------------
\* No execution's name is that of a free lock.
LEMMA NameIsNotFree ==
    ASSUME NEW x \in Runs
    PROVE  Name(x) # Free /\ Name(x) \in Accounts
  BY InquiryAssumption DEF Name, Free, Runs, Accounts

\* An execution that goes on keeps its name.
LEMMA GoesOn ==
    ASSUME StateTypeOK, Named, NEW x \in runs, NEW y \in Runs, y.row = x.row, y.try = x.try,
           runs' = RunBecomes(x, y), UNCHANGED rows
    PROVE  runs' \subseteq Runs /\ Named'
<1>1. runs' = (runs \ {x}) \cup {y} /\ runs \subseteq Runs /\ Name(y) = Name(x)
  BY DEF RunBecomes, StateTypeOK, Name
<1>2. \A z \in runs' : z.try \in 1..rows'[z.row].tries
  BY <1>1 DEF Named
<1>3. \A z, w \in runs' : Name(z) = Name(w) => z = w
  BY <1>1 DEF Named
<1>q. QED
  BY <1>1, <1>2, <1>3 DEF Named

\* An execution that ends leaves the others as they are.
LEMMA RunEnds ==
    ASSUME InquiryInv, NEW x \in runs, runs' = runs \ {x}, holder' = Unlocked(x),
           UNCHANGED <<position, observations>>
    PROVE  WorksUnderLock' /\ WithoutPosition' /\ OneAccountPerExpert'
<1>1. \A y \in runs' : y \in runs /\ Name(y) # Name(x)
  BY DEF InquiryInv, Named
<1>2. \A y \in runs' : y.stage \in Working => holder' = Name(y)
  BY <1>1 DEF InquiryInv, WorksUnderLock, Unlocked
<1>q. QED
  BY <1>1, <1>2 DEF InquiryInv, WorksUnderLock, WithoutPosition, OneAccountPerExpert

\* Nobody exists in the initial state.
THEOREM InquiryInitInv == InquiryInit => InquiryInv
<1> SUFFICES ASSUME InquiryInit PROVE InquiryInv
  OBVIOUS
<1>1. rows \in [InquiryRows -> [state : {"absent", "queued", "running", "done", "failed"},
                               tries : 0..InquiryTries]]
  BY InquiryAssumption DEF InquiryInit
<1>2. InquiryTypeOK
  BY InquiryAssumption DEF InquiryInit, InquiryTypeOK
<1>3. /\ position \in [Experts -> Accounts \cup {Free}]
      /\ observations \in [Experts -> SUBSET Accounts]
  BY DEF InquiryInit
<1>4. StateTypeOK
  BY <1>1, <1>2, <1>3 DEF InquiryInit, StateTypeOK
<1>5. Named /\ WorksUnderLock /\ WithoutPosition
  BY DEF InquiryInit, Named, WorksUnderLock, WithoutPosition
<1>6. OneAccountPerExpert
  BY DEF InquiryInit, OneAccountPerExpert
<1>q. QED
  BY <1>4, <1>5, <1>6 DEF InquiryInv

\* The types of the executions, the rest of StateTypeOK being unchanged.
LEMMA TypesKept ==
    ASSUME StateTypeOK, runs' \subseteq Runs, inquiry' \in {"absent", "pending", "running", "complete"},
           headlines' \in Nat, crashes' \in 0..MaxCrashes, abandoned' \in BOOLEAN, skipped' \in BOOLEAN,
           UNCHANGED <<rows, position, observations>>
    PROVE  StateTypeOK'
  BY DEF StateTypeOK, InquiryTypeOK, Runs

\* Every step, one per action of a row and of an execution.
THEOREM InquiryStepInv == InquiryInv /\ [InquiryNext]_inquiryVars => InquiryInv'
<1> SUFFICES ASSUME InquiryInv, [InquiryNext]_inquiryVars PROVE InquiryInv'
  OBVIOUS
<1>. StateTypeOK /\ Named /\ WorksUnderLock /\ WithoutPosition /\ OneAccountPerExpert /\ runs \subseteq Runs
  BY DEF InquiryInv, StateTypeOK
<1>. /\ inquiry \in {"absent", "pending", "running", "complete"} /\ headlines \in Nat
     /\ crashes \in 0..MaxCrashes /\ abandoned \in BOOLEAN /\ skipped \in BOOLEAN
  BY DEF StateTypeOK, InquiryTypeOK
<1> USE InquiryAssumption
<1>1. ASSUME NEW r \in InquiryRows, LaunchInquiry(r)
      PROVE  InquiryInv'
  <2>1. StateTypeOK'
    BY <1>1 DEF LaunchInquiry, StateTypeOK, InquiryTypeOK
  <2>2. Named'
    <3>1. /\ rows'[r].state = "queued" /\ rows'[r].tries = rows[r].tries /\ rows[r].tries = 0
          /\ \A q \in InquiryRows : q # r => rows'[q] = rows[q]
      BY <1>1 DEF LaunchInquiry, StateTypeOK, Named
    <3>2. \A q \in InquiryRows : rows'[q].tries = rows[q].tries
      BY <3>1
    <3>3. runs' = runs
      BY <1>1 DEF LaunchInquiry
    <3>4. \A y \in runs' : y.try \in 1..rows'[y.row].tries
      BY <3>2, <3>3 DEF Named, Runs
    <3>q. QED
      BY <3>1, <3>3, <3>4 DEF Named
  <2>3. WorksUnderLock' /\ WithoutPosition' /\ OneAccountPerExpert'
    BY <1>1 DEF LaunchInquiry, WorksUnderLock, WithoutPosition, OneAccountPerExpert
  <2>q. QED
    BY <2>1, <2>2, <2>3 DEF InquiryInv
<1>2. ASSUME NEW r \in InquiryRows, RunLoads(r)
      PROVE  InquiryInv'
  <2> DEFINE x == Run(r, rows[r].tries + 1)
  <2>1. /\ runs' = runs \cup {x} /\ rows' = [rows EXCEPT ![r].state = "running", ![r].tries = @ + 1]
        /\ rows[r].tries \in 0..(InquiryTries - 1)
    BY <1>2 DEF RunLoads, StateTypeOK, Named
  <2>2. x \in Runs /\ x.row = r /\ x.try = rows[r].tries + 1 /\ x.stage = "loaded"
    BY <2>1 DEF Run, Runs, RunStages
  <2>3. StateTypeOK'
    <3>1. rows' \in [InquiryRows -> [state : {"absent", "queued", "running", "done", "failed"},
                                     tries : 0..InquiryTries]]
      BY <2>1 DEF StateTypeOK
    <3>2. runs' \subseteq Runs
      BY <2>1, <2>2
    <3>q. QED
      BY <1>2, <3>1, <3>2 DEF RunLoads, StateTypeOK, InquiryTypeOK, Runs
  <2>4. Named'
    <3>1. /\ rows'[r].tries = rows[r].tries + 1 /\ rows'[r].state = "running"
          /\ \A q \in InquiryRows : q # r => rows'[q] = rows[q]
      BY <2>1 DEF StateTypeOK
    <3>2. \A y \in runs : Name(y) # Name(x)
      BY <2>1, <2>2 DEF Named, Name, Runs
    <3>3. \A y \in runs' : y.try \in 1..rows'[y.row].tries
      <4>1. rows[r].tries + 1 \in 1..rows'[r].tries
        BY <2>1, <3>1
      <4>2. \A q \in InquiryRows : rows[q].tries \in Nat /\ rows'[q].tries \in Nat
        BY <2>3 DEF StateTypeOK
      <4>3. \A q \in InquiryRows : rows[q].tries <= rows'[q].tries
        BY <3>1, <4>2
      <4>4. \A y \in runs : y.row \in InquiryRows /\ y.try \in 1..rows[y.row].tries
        BY DEF Named, Runs
      <4>5. \A y \in runs : y.try \in 1..rows'[y.row].tries
        BY <4>2, <4>3, <4>4
      <4>q. QED
        BY <2>1, <2>2, <4>1, <4>5
    <3>q. QED
      BY <2>1, <3>1, <3>2, <3>3 DEF Named
  <2>5. WorksUnderLock' /\ WithoutPosition' /\ OneAccountPerExpert'
    BY <1>2, <2>1, <2>2 DEF RunLoads, WorksUnderLock, WithoutPosition, OneAccountPerExpert, Working
  <2>q. QED
    BY <2>3, <2>4, <2>5 DEF InquiryInv
<1>3. ASSUME NEW x \in runs, RunBegins(x)
      PROVE  InquiryInv'
  <2>1. CASE Acquires(x.row)
    <3> DEFINE y == [x EXCEPT !.stage = "headline"]
    <3>1. y \in Runs /\ y.row = x.row /\ y.try = x.try /\ y.stage = "headline"
      BY DEF Runs, RunStages
    <3>2. /\ runs' = RunBecomes(x, y) /\ holder' = Name(x) /\ inquiry' = "running" /\ skipped' = FALSE
          /\ UNCHANGED <<headlines, position, observations, rows, crashes, abandoned>>
      BY <1>3, <2>1 DEF RunBegins
    <3>3. runs' \subseteq Runs /\ Named'
      BY <3>1, <3>2, GoesOn
    <3>4. StateTypeOK'
      BY <3>2, <3>3, TypesKept
    <3>5. \A z \in runs : z.stage \notin Working
      BY <2>1, NameIsNotFree DEF Acquires, WorksUnderLock
    <3>6. WorksUnderLock' /\ WithoutPosition' /\ OneAccountPerExpert'
      BY <3>1, <3>2, <3>5 DEF RunBecomes, WorksUnderLock, WithoutPosition, OneAccountPerExpert, Working, Name
    <3>q. QED
      BY <3>3, <3>4, <3>6 DEF InquiryInv
  <2>2. CASE ~Acquires(x.row)
    <3> DEFINE y == [x EXCEPT !.stage = "end"]
    <3>1. y \in Runs /\ y.row = x.row /\ y.try = x.try /\ y.stage = "end"
      BY DEF Runs, RunStages
    <3>2. /\ runs' = RunBecomes(x, y) /\ skipped' = TRUE
          /\ UNCHANGED <<inquiry, holder, headlines, position, observations, rows, crashes, abandoned>>
      BY <1>3, <2>2 DEF RunBegins
    <3>3. runs' \subseteq Runs /\ Named'
      BY <3>1, <3>2, GoesOn
    <3>4. StateTypeOK'
      BY <3>2, <3>3, TypesKept
    <3>5. WorksUnderLock' /\ WithoutPosition' /\ OneAccountPerExpert'
      BY <3>1, <3>2 DEF RunBecomes, WorksUnderLock, WithoutPosition, OneAccountPerExpert, Working
    <3>q. QED
      BY <3>3, <3>4, <3>5 DEF InquiryInv
  <2>q. QED
    BY <2>1, <2>2
<1>4. ASSUME NEW x \in runs, RunResolves(x)
      PROVE  InquiryInv'
  <2> DEFINE y == [x EXCEPT !.stage = "roster"]
  <2>1. y \in Runs /\ y.row = x.row /\ y.try = x.try /\ y.stage = "roster"
    BY DEF Runs, RunStages
  <2>2. /\ runs' = RunBecomes(x, y) /\ headlines' \in Nat /\ x.stage = "headline"
        /\ UNCHANGED <<inquiry, position, observations, rows, holder, crashes, skipped, abandoned>>
    BY <1>4 DEF RunResolves
  <2>3. runs' \subseteq Runs /\ Named'
    BY <2>1, <2>2, GoesOn
  <2>4. StateTypeOK'
    BY <2>2, <2>3, TypesKept
  <2>5. WorksUnderLock' /\ WithoutPosition' /\ OneAccountPerExpert'
    BY <2>1, <2>2 DEF RunBecomes, WorksUnderLock, WithoutPosition, OneAccountPerExpert, Working, Name
  <2>q. QED
    BY <2>3, <2>4, <2>5 DEF InquiryInv
<1>5. ASSUME NEW x \in runs, RunReadsRoster(x)
      PROVE  InquiryInv'
  <2>1. PICK roster \in SUBSET Experts :
           runs' = RunBecomes(x, [x EXCEPT !.stage = "experts", !.todo = roster])
    BY <1>5 DEF RunReadsRoster
  <2> DEFINE y == [x EXCEPT !.stage = "experts", !.todo = roster]
  <2>2. y \in Runs /\ y.row = x.row /\ y.try = x.try /\ y.stage = "experts"
    BY DEF Runs, RunStages
  <2>3. /\ runs' = RunBecomes(x, y) /\ x.stage = "roster"
        /\ UNCHANGED <<inquiry, headlines, position, observations, rows, holder, crashes, skipped, abandoned>>
    BY <1>5, <2>1 DEF RunReadsRoster
  <2>4. runs' \subseteq Runs /\ Named'
    BY <2>2, <2>3, GoesOn
  <2>5. StateTypeOK'
    BY <2>3, <2>4, TypesKept
  <2>6. WorksUnderLock' /\ WithoutPosition' /\ OneAccountPerExpert'
    BY <2>2, <2>3 DEF RunBecomes, WorksUnderLock, WithoutPosition, OneAccountPerExpert, Working, Name
  <2>q. QED
    BY <2>4, <2>5, <2>6 DEF InquiryInv
<1>6. ASSUME NEW x \in runs, NEW e \in Experts, ExpertDone(x, e)
      PROVE  InquiryInv'
  <2> DEFINE y == [x EXCEPT !.todo = x.todo \ {e}]
  <2>1. y \in Runs /\ y.row = x.row /\ y.try = x.try /\ y.stage = x.stage
    BY DEF Runs
  <2>2. /\ runs' = RunBecomes(x, y) /\ x.stage = "experts"
        /\ UNCHANGED <<inquiry, headlines, position, observations, rows, holder, crashes, skipped, abandoned>>
    BY <1>6 DEF ExpertDone
  <2>3. runs' \subseteq Runs /\ Named'
    BY <2>1, <2>2, GoesOn
  <2>4. StateTypeOK'
    BY <2>2, <2>3, TypesKept
  <2>5. WorksUnderLock' /\ WithoutPosition' /\ OneAccountPerExpert'
    BY <2>1, <2>2 DEF RunBecomes, WorksUnderLock, WithoutPosition, OneAccountPerExpert, Working, Name
  <2>q. QED
    BY <2>3, <2>4, <2>5 DEF InquiryInv
<1>7. ASSUME NEW x \in runs, NEW e \in Experts, ExpertBegins(x, e)
      PROVE  InquiryInv'
  <2> DEFINE y == [x EXCEPT !.stage = "lanes", !.cur = {e}, !.seen = observations[e]]
  <2>1. y \in Runs /\ y.row = x.row /\ y.try = x.try /\ y.stage = "lanes" /\ y.cur = {e}
    BY DEF Runs, RunStages, StateTypeOK
  <2>2. /\ runs' = RunBecomes(x, y) /\ x.stage = "experts" /\ position[e] = Free
        /\ UNCHANGED <<inquiry, headlines, position, observations, rows, holder, crashes, skipped, abandoned>>
    BY <1>7 DEF ExpertBegins
  <2>3. runs' \subseteq Runs /\ Named'
    BY <2>1, <2>2, GoesOn
  <2>4. StateTypeOK'
    BY <2>2, <2>3, TypesKept
  <2>5. runs' = (runs \ {x}) \cup {y}
    BY <2>2 DEF RunBecomes
  <2> HIDE DEF y
  <2>6. WorksUnderLock' /\ OneAccountPerExpert'
    BY <2>1, <2>2, <2>5 DEF WorksUnderLock, OneAccountPerExpert, Working, Name
  <2>7. WithoutPosition'
    BY <2>1, <2>2, <2>5 DEF WithoutPosition
  <2>q. QED
    BY <2>3, <2>4, <2>6, <2>7 DEF InquiryInv
<1>8. ASSUME NEW x \in runs, ExpertCommits(x)
      PROVE  InquiryInv'
  <2> DEFINE y == [x EXCEPT !.stage = "experts", !.todo = x.todo \ x.cur, !.cur = {}, !.seen = {}]
  <2>1. y \in Runs /\ y.row = x.row /\ y.try = x.try /\ y.stage = "experts"
    BY DEF Runs, RunStages
  <2>2. /\ runs' = RunBecomes(x, y) /\ x.stage = "lanes"
        /\ position' = [e \in Experts |-> IF e \in x.cur THEN Name(x) ELSE position[e]]
        /\ observations' = [e \in Experts |->
              IF e \in x.cur THEN (observations[e] \ x.seen) \cup {Name(x)} ELSE observations[e]]
        /\ UNCHANGED <<inquiry, headlines, rows, holder, crashes, skipped, abandoned>>
    BY <1>8 DEF ExpertCommits
  <2>3. runs' \subseteq Runs /\ Named'
    BY <2>1, <2>2, GoesOn
  <2>4. Name(x) \in Accounts /\ Name(x) # Free
    BY NameIsNotFree
  <2>5. StateTypeOK'
    <3>1. position' \in [Experts -> Accounts \cup {Free}] /\ observations' \in [Experts -> SUBSET Accounts]
      BY <2>2, <2>4 DEF StateTypeOK
    <3>q. QED
      BY <2>2, <2>3, <3>1 DEF StateTypeOK, InquiryTypeOK, Runs
  <2>6. \A z \in runs : z.stage = "lanes" => z = x
    BY <2>2 DEF WorksUnderLock, Named, Working
  <2>7. WorksUnderLock'
    BY <2>1, <2>2 DEF RunBecomes, WorksUnderLock, Working, Name
  <2>8. WithoutPosition'
    BY <2>1, <2>2, <2>6 DEF RunBecomes, WithoutPosition
  <2>9. \A e \in x.cur : observations[e] = {}
    BY <2>2 DEF WithoutPosition, OneAccountPerExpert, Runs
  <2>10. OneAccountPerExpert'
    BY <2>2, <2>4, <2>9 DEF OneAccountPerExpert
  <2>q. QED
    BY <2>3, <2>5, <2>7, <2>8, <2>10 DEF InquiryInv
<1>9. ASSUME NEW x \in runs, ExpertFails(x)
      PROVE  InquiryInv'
  <2> DEFINE y == [x EXCEPT !.stage = "experts", !.todo = x.todo \ x.cur, !.cur = {}, !.seen = {}]
  <2>1. y \in Runs /\ y.row = x.row /\ y.try = x.try /\ y.stage = "experts"
    BY DEF Runs, RunStages
  <2>2. /\ runs' = RunBecomes(x, y) /\ x.stage = "lanes"
        /\ UNCHANGED <<inquiry, headlines, position, observations, rows, holder, crashes, skipped, abandoned>>
    BY <1>9 DEF ExpertFails
  <2>3. runs' \subseteq Runs /\ Named'
    BY <2>1, <2>2, GoesOn
  <2>4. StateTypeOK'
    BY <2>2, <2>3, TypesKept
  <2>5. WorksUnderLock' /\ WithoutPosition' /\ OneAccountPerExpert'
    BY <2>1, <2>2 DEF RunBecomes, WorksUnderLock, WithoutPosition, OneAccountPerExpert, Working, Name
  <2>q. QED
    BY <2>3, <2>4, <2>5 DEF InquiryInv
<1>10. ASSUME NEW x \in runs, RunCompletes(x)
       PROVE  InquiryInv'
  <2> DEFINE y == [x EXCEPT !.stage = "end"]
  <2>1. y \in Runs /\ y.row = x.row /\ y.try = x.try /\ y.stage = "end"
    BY DEF Runs, RunStages
  <2>2. /\ runs' = RunBecomes(x, y) /\ inquiry' = "complete" /\ holder' = Unlocked(x) /\ x.stage = "experts"
        /\ UNCHANGED <<headlines, position, observations, rows, crashes, skipped, abandoned>>
    BY <1>10 DEF RunCompletes
  <2>3. runs' \subseteq Runs /\ Named'
    BY <2>1, <2>2, GoesOn
  <2>4. StateTypeOK'
    BY <2>2, <2>3, TypesKept
  <2>5. \A z \in runs : z.stage \in Working => z = x
    BY <2>2 DEF WorksUnderLock, Named, Working
  <2>6. WorksUnderLock' /\ WithoutPosition' /\ OneAccountPerExpert'
    BY <2>1, <2>2, <2>5 DEF RunBecomes, WorksUnderLock, WithoutPosition, OneAccountPerExpert, Working
  <2>q. QED
    BY <2>3, <2>4, <2>6 DEF InquiryInv
<1>11. ASSUME NEW x \in runs, RunReports(x)
       PROVE  InquiryInv'
  <2>1. /\ runs' = runs \ {x} /\ rows' = [rows EXCEPT ![x.row].state = "done"] /\ x.stage = "end"
        /\ x.row \in InquiryRows
        /\ UNCHANGED <<inquiry, headlines, position, observations, holder, crashes, skipped, abandoned>>
    BY <1>11 DEF RunReports, Runs
  <2>2. StateTypeOK'
    BY <2>1 DEF StateTypeOK, InquiryTypeOK
  <2>3. Named'
    BY <2>1 DEF StateTypeOK, Named, Runs
  <2>4. WorksUnderLock' /\ WithoutPosition' /\ OneAccountPerExpert'
    BY <2>1 DEF WorksUnderLock, WithoutPosition, OneAccountPerExpert
  <2>q. QED
    BY <2>2, <2>3, <2>4 DEF InquiryInv
<1>12. ASSUME NEW x \in runs, RunFails(x)
       PROVE  InquiryInv'
  <2>1. /\ runs' = runs \ {x} /\ rows' = [rows EXCEPT ![x.row].state = Again(x.row)]
        /\ holder' = Unlocked(x) /\ x.row \in InquiryRows /\ abandoned' \in BOOLEAN
        /\ UNCHANGED <<inquiry, headlines, position, observations, crashes, skipped>>
    BY <1>12 DEF RunFails, Runs
  <2>2. StateTypeOK'
    BY <2>1 DEF StateTypeOK, InquiryTypeOK, Again
  <2>3. Named'
    BY <2>1 DEF StateTypeOK, Named, Runs, Again
  <2>4. WorksUnderLock' /\ WithoutPosition' /\ OneAccountPerExpert'
    BY <2>1, RunEnds
  <2>q. QED
    BY <2>2, <2>3, <2>4 DEF InquiryInv
<1>13. ASSUME NEW x \in runs, RunDies(x)
       PROVE  InquiryInv'
  <2>1. /\ runs' = runs \ {x} /\ holder' = Unlocked(x) /\ abandoned' \in BOOLEAN /\ crashes' \in 0..MaxCrashes
        /\ UNCHANGED <<inquiry, headlines, position, observations, rows, skipped>>
    BY <1>13 DEF RunDies, SpendCrash
  <2>2. StateTypeOK'
    BY <2>1, TypesKept
  <2>3. Named'
    BY <2>1 DEF Named
  <2>4. WorksUnderLock' /\ WithoutPosition' /\ OneAccountPerExpert'
    BY <2>1, RunEnds
  <2>q. QED
    BY <2>2, <2>3, <2>4 DEF InquiryInv
<1>14. ASSUME NEW r \in InquiryRows, ReclaimDead(r) \/ ReclaimSlow(r)
       PROVE  InquiryInv'
  <2>1. /\ rows' = [rows EXCEPT ![r].state = Again(r)] /\ crashes' \in 0..MaxCrashes
        /\ UNCHANGED <<inquiry, headlines, position, observations, runs, holder, skipped, abandoned>>
    BY <1>14 DEF ReclaimDead, ReclaimSlow, Reclaimed, SpendCrash
  <2>2. StateTypeOK'
    BY <2>1 DEF StateTypeOK, InquiryTypeOK, Again
  <2>3. Named'
    BY <2>1 DEF StateTypeOK, Named, Runs, Again
  <2>4. WorksUnderLock' /\ WithoutPosition' /\ OneAccountPerExpert'
    BY <2>1 DEF WorksUnderLock, WithoutPosition, OneAccountPerExpert
  <2>q. QED
    BY <2>2, <2>3, <2>4 DEF InquiryInv
<1>15. CASE UNCHANGED inquiryVars
  BY <1>15 DEF inquiryVars, InquiryInv, StateTypeOK, InquiryTypeOK, Named, WorksUnderLock, WithoutPosition,
               OneAccountPerExpert
<1>q. QED
  BY <1>1, <1>2, <1>3, <1>4, <1>5, <1>6, <1>7, <1>8, <1>9, <1>10, <1>11, <1>12, <1>13, <1>14, <1>15
  DEF InquiryNext, RunStep

\* Every cell rests on one execution's observations (run_inquiry.py:184), for
\* any number of reruns, copies, crashes and failing experts.
THEOREM AccountedOnce == InquirySpec => []OneAccountPerExpert
<1>1. InquiryInv => OneAccountPerExpert
  BY DEF InquiryInv
<1>q. QED
  BY <1>1, InquiryInitInv, InquiryStepInv, PTL DEF InquirySpec

\* Types of the inquiry, its rows and its executions.
THEOREM InquiryTypes == InquirySpec => []InquiryTypeOK
<1>1. InquiryInv => InquiryTypeOK
  BY DEF InquiryInv, StateTypeOK
<1>q. QED
  BY <1>1, InquiryInitInv, InquiryStepInv, PTL DEF InquirySpec

-----------------------------------------------------------------------------
(* An inquiry implements StanceMatrix.                                     *)

\* Nothing runs before the inquiry is posed; who works on it works on a running
\* one, and on one expert at a time.
CellInv ==
    /\ inquiry = "absent" => runs = {} /\ \A r \in InquiryRows : rows[r].state = "absent"
    /\ \A x \in runs : x.stage \in Working => inquiry = "running"
    /\ \A x \in runs : x.stage = "lanes" => \E e \in Experts : x.cur = {e}

LEMMA CellInvStep ==
    ASSUME InquiryInv, CellInv, [InquiryNext]_inquiryVars
    PROVE  CellInv'
<1>. runs \subseteq Runs /\ StateTypeOK
  BY DEF InquiryInv, StateTypeOK
<1>1. ASSUME NEW r \in InquiryRows, LaunchInquiry(r)
      PROVE  CellInv'
  BY <1>1 DEF LaunchInquiry, CellInv, Working
<1>2. ASSUME NEW r \in InquiryRows, RunLoads(r)
      PROVE  CellInv'
  <2>1. inquiry # "absent" /\ inquiry' = inquiry /\ runs' = runs \cup {Run(r, rows[r].tries + 1)}
    BY <1>2 DEF RunLoads, CellInv
  <2>2. Run(r, rows[r].tries + 1).stage = "loaded"
    BY DEF Run
  <2> QED BY <2>1, <2>2 DEF CellInv, Working
<1>3. ASSUME NEW x \in runs, NEW y \in Runs, runs' = RunBecomes(x, y), UNCHANGED rows,
             y.stage \in Working => inquiry' = "running",
             y.stage = "lanes" => \E e \in Experts : y.cur = {e},
             inquiry' = "running" \/ inquiry' = inquiry
      PROVE  CellInv'
  BY <1>3 DEF RunBecomes, CellInv
<1>4. ASSUME NEW x \in runs, RunBegins(x)
      PROVE  CellInv'
  <2>1. [x EXCEPT !.stage = "headline"] \in Runs /\ [x EXCEPT !.stage = "end"] \in Runs
    BY DEF Runs, RunStages
  <2>2. [x EXCEPT !.stage = "headline"].stage = "headline" /\ [x EXCEPT !.stage = "end"].stage = "end"
    BY DEF Runs
  <2> QED BY <1>3, <1>4, <2>1, <2>2 DEF RunBegins, Working
<1>5. ASSUME NEW x \in runs, RunResolves(x)
      PROVE  CellInv'
  <2>1. [x EXCEPT !.stage = "roster"] \in Runs /\ [x EXCEPT !.stage = "roster"].stage = "roster"
    BY DEF Runs, RunStages
  <2>2. inquiry' = "running"
    BY <1>5 DEF RunResolves, CellInv, Working
  <2> QED BY <1>3, <1>5, <2>1, <2>2 DEF RunResolves
<1>6. ASSUME NEW x \in runs, RunReadsRoster(x)
      PROVE  CellInv'
  <2>1. PICK roster \in SUBSET Experts :
           runs' = RunBecomes(x, [x EXCEPT !.stage = "experts", !.todo = roster])
    BY <1>6 DEF RunReadsRoster
  <2> DEFINE y == [x EXCEPT !.stage = "experts", !.todo = roster]
  <2>2. y \in Runs /\ y.stage = "experts"
    BY DEF Runs, RunStages
  <2>3. inquiry' = "running"
    BY <1>6 DEF RunReadsRoster, CellInv, Working
  <2> QED BY <1>3, <1>6, <2>1, <2>2, <2>3 DEF RunReadsRoster
<1>7. ASSUME NEW x \in runs, NEW e \in Experts, ExpertDone(x, e)
      PROVE  CellInv'
  <2> DEFINE y == [x EXCEPT !.todo = x.todo \ {e}]
  <2>1. y \in Runs /\ y.stage = x.stage /\ x.stage = "experts"
    BY <1>7 DEF Runs, ExpertDone
  <2>2. inquiry' = "running"
    BY <1>7 DEF ExpertDone, CellInv, Working
  <2> QED BY <1>3, <1>7, <2>1, <2>2 DEF ExpertDone
<1>8. ASSUME NEW x \in runs, NEW e \in Experts, ExpertBegins(x, e)
      PROVE  CellInv'
  <2> DEFINE y == [x EXCEPT !.stage = "lanes", !.cur = {e}, !.seen = observations[e]]
  <2>1. y \in Runs /\ y.stage = "lanes" /\ y.cur = {e}
    BY DEF Runs, RunStages, StateTypeOK
  <2>2. inquiry' = "running"
    BY <1>8 DEF ExpertBegins, CellInv, Working
  <2> QED BY <1>3, <1>8, <2>1, <2>2 DEF ExpertBegins
<1>9. ASSUME NEW x \in runs, ExpertCommits(x) \/ ExpertFails(x)
      PROVE  CellInv'
  <2> DEFINE y == [x EXCEPT !.stage = "experts", !.todo = x.todo \ x.cur, !.cur = {}, !.seen = {}]
  <2>1. y \in Runs /\ y.stage = "experts"
    BY DEF Runs, RunStages
  <2>2. inquiry' = "running"
    BY <1>9 DEF ExpertCommits, ExpertFails, CellInv, Working
  <2> QED BY <1>3, <1>9, <2>1, <2>2 DEF ExpertCommits, ExpertFails
<1>10. ASSUME NEW x \in runs, RunCompletes(x)
       PROVE  CellInv'
  <2>1. [x EXCEPT !.stage = "end"].stage = "end"
    BY DEF Runs
  <2>2. \A z \in runs : z.stage \in Working => z = x
    BY <1>10 DEF RunCompletes, InquiryInv, WorksUnderLock, Named, Working
  <2> QED BY <1>10, <2>1, <2>2 DEF RunCompletes, RunBecomes, CellInv, Working
<1>11. ASSUME NEW x \in runs, RunReports(x) \/ RunFails(x) \/ RunDies(x)
       PROVE  CellInv'
  BY <1>11 DEF RunReports, RunFails, RunDies, CellInv
<1>12. ASSUME NEW r \in InquiryRows, ReclaimDead(r) \/ ReclaimSlow(r)
       PROVE  CellInv'
  BY <1>12 DEF ReclaimDead, ReclaimSlow, Reclaimed, CellInv
<1>13. CASE UNCHANGED inquiryVars
  BY <1>13 DEF inquiryVars, CellInv
<1> QED
  BY <1>1, <1>2, <1>4, <1>5, <1>6, <1>7, <1>8, <1>9, <1>10, <1>11, <1>12, <1>13 DEF InquiryNext, RunStep

\* A step is one of the matrix, or none.
LEMMA MatrixStep ==
    ASSUME InquiryInv, CellInv, [InquiryNext]_inquiryVars
    PROVE  [Matrix!MatrixNext]_Matrix!matrixVars
<1>. runs \subseteq Runs /\ StateTypeOK
  BY DEF InquiryInv, StateTypeOK
<1>1. ASSUME NEW r \in InquiryRows, LaunchInquiry(r)
      PROVE  Matrix!Pose \/ UNCHANGED Matrix!matrixVars
  BY <1>1 DEF LaunchInquiry, Matrix!Pose, Matrix!matrixVars
<1>2. ASSUME NEW x \in runs, RunBegins(x)
      PROVE  Matrix!Resume \/ UNCHANGED Matrix!matrixVars
  <2>1. inquiry \in {"pending", "running", "complete"}
    BY DEF StateTypeOK, InquiryTypeOK, CellInv
  <2> QED BY <1>2, <2>1 DEF RunBegins, Matrix!Resume, Matrix!matrixVars
<1>3. ASSUME NEW x \in runs, ExpertCommits(x)
      PROVE  Matrix!MatrixNext
  <2>1. PICK e \in Experts : x.cur = {e}
    BY <1>3 DEF ExpertCommits, CellInv
  <2>2. position[e] = Free /\ observations[e] = {} /\ inquiry = "running"
    BY <1>3, <2>1 DEF ExpertCommits, InquiryInv, WithoutPosition, OneAccountPerExpert, CellInv, Working
  <2>3. Name(x) \in InquiryRows \X (1..InquiryTries)
    <3>1. x.row \in InquiryRows /\ x.try \in 1..rows[x.row].tries /\ rows[x.row].tries \in 0..InquiryTries
      BY DEF InquiryInv, Named, Runs, StateTypeOK
    <3> QED BY <3>1, InquiryAssumption DEF Name
  <2>4. /\ position' = [position EXCEPT ![e] = Name(x)]
        /\ observations' = [observations EXCEPT ![e] = {Name(x)}]
    BY <1>3, <2>1, <2>2 DEF ExpertCommits, StateTypeOK
  <2>5. Matrix!Fill(e, Name(x))
    BY <1>3, <2>2, <2>4 DEF ExpertCommits, Matrix!Fill
  <2> QED BY <2>3, <2>5 DEF Matrix!MatrixNext
<1>4. ASSUME NEW x \in runs, RunCompletes(x)
      PROVE  Matrix!Close
  BY <1>4 DEF RunCompletes, CellInv, Working, Matrix!Close
<1>5. ASSUME NEW x \in runs,
             \/ RunResolves(x) \/ RunReadsRoster(x) \/ ExpertFails(x) \/ RunReports(x) \/ RunFails(x) \/ RunDies(x)
             \/ \E e \in Experts : ExpertDone(x, e) \/ ExpertBegins(x, e)
      PROVE  UNCHANGED Matrix!matrixVars
  BY <1>5 DEF RunResolves, RunReadsRoster, ExpertFails, RunReports, RunFails, RunDies, ExpertDone, ExpertBegins,
              Matrix!matrixVars
<1>6. ASSUME NEW r \in InquiryRows, RunLoads(r) \/ ReclaimDead(r) \/ ReclaimSlow(r)
      PROVE  UNCHANGED Matrix!matrixVars
  BY <1>6 DEF RunLoads, ReclaimDead, ReclaimSlow, Reclaimed, Matrix!matrixVars
<1>7. CASE UNCHANGED inquiryVars
  BY <1>7 DEF inquiryVars, Matrix!matrixVars
<1> QED
  BY <1>1, <1>2, <1>3, <1>4, <1>5, <1>6, <1>7 DEF InquiryNext, RunStep, Matrix!MatrixNext

LEMMA MatrixInitially == InquiryInit => CellInv /\ Matrix!MatrixInit
BY DEF InquiryInit, CellInv, Matrix!MatrixInit

\* An inquiry's positions and observations are a row of the stance matrix:
\* filled one by one while it runs, each with its evidence, each for good.
THEOREM InquiryRefines == InquirySpec => ImplementsMatrix
<1>1. InquiryInv /\ CellInv /\ [InquiryNext]_inquiryVars => CellInv' /\ [Matrix!MatrixNext]_Matrix!matrixVars
  BY CellInvStep, MatrixStep
<1> QED BY <1>1, InquiryInitInv, InquiryStepInv, MatrixInitially, PTL
        DEF InquirySpec, ImplementsMatrix, Matrix!MatrixSpec

-----------------------------------------------------------------------------
(* The episodes of MCLifecycles are those of ContentPipeline, and what is  *)
(* proved of it holds of them.                                             *)

Pipeline == INSTANCE ContentPipelineProofs WITH
    Thinkers <- EpisodeThinkers, Promoters <- {Promoter}, Rescans <- {Promoter}, Recent <- Contents,
    Finds <- [p \in {Promoter} |-> [c \in Contents |-> EpisodeThinkers]], Discovered <- Order,
    MaxTries <- EpisodeTries, MaxFaults <- EpisodeFaults, jobs <- episodeJobs, faults <- episodeFaults

\* Finitely many episodes can be put in an order.
LEMMA OrderIsThere == Order \in [Contents -> Nat]
<1> DEFINE n == Cardinality(Contents)
<1>1. n \in Nat
  BY LifecyclesAssumption, FS_CardinalityType
<1>2. PICK b : b \in Bijection(1..n, Contents)
  BY <1>1, LifecyclesAssumption, FS_CardinalityType DEF ExistsBijection
<1>3. /\ b \in [1..n -> Contents] /\ \A i, k \in 1..n : i # k => b[i] # b[k]
      /\ \A c \in Contents : \E i \in 1..n : b[i] = c
  BY <1>2 DEF Bijection, Injection, Surjection, IsInjective
<1> DEFINE o == [c \in Contents |-> CHOOSE i \in 1..n : b[i] = c]
<1>4. o \in [Contents -> 1..n] /\ \A c, d \in Contents : c # d => o[c] # o[d]
  BY <1>3
<1> HIDE DEF n, o
<1>5. \E f \in [Contents -> 1..n] : \A c, d \in Contents : c # d => f[c] # f[d]
  BY <1>4
<1>6. Order \in [Contents -> 1..n]
  BY <1>5 DEF Order, n
<1> QED BY <1>1, <1>6

LEMMA SamePromoteLook == ASSUME NEW p PROVE Episodes!PromoteLook(p) <=> Pipeline!PromoteLook(p)
BY DEF Episodes!PromoteLook, Episodes!Targets, Episodes!New, Episodes!sweepVars,
   Pipeline!PromoteLook, Pipeline!Targets, Pipeline!New, Pipeline!sweepVars

LEMMA SamePromoteCommit == ASSUME NEW p PROVE Episodes!PromoteCommit(p) <=> Pipeline!PromoteCommit(p)
BY DEF Episodes!PromoteCommit, Episodes!Attributions, Episodes!Seen, Episodes!NewJobs, Episodes!SetToSeq, Episodes!IsInjective, Episodes!Cardinality, Episodes!IsFiniteSet, Episodes!Contested, Episodes!Promoting, Episodes!Sweeping, Episodes!sweepVars,
   Pipeline!PromoteCommit, Pipeline!Attributions, Pipeline!Seen, Pipeline!NewJobs, Pipeline!SetToSeq, Pipeline!IsInjective, Pipeline!Cardinality, Pipeline!IsFiniteSet, Pipeline!Contested, Pipeline!Promoting, Pipeline!Sweeping, Pipeline!sweepVars

LEMMA SamePromoteAbort == ASSUME NEW p PROVE Episodes!PromoteAbort(p) <=> Pipeline!PromoteAbort(p)
BY DEF Episodes!PromoteAbort, Episodes!Attributions, Episodes!Spend, Episodes!sweepVars,
   Pipeline!PromoteAbort, Pipeline!Attributions, Pipeline!Spend, Pipeline!sweepVars

LEMMA SameSweep == ASSUME NEW s PROVE Episodes!Sweep(s) <=> Pipeline!Sweep(s)
BY DEF Episodes!Sweep, Episodes!SweepDepth, Episodes!SweepCovered, Episodes!SweepPick, Episodes!SweepCommit, Episodes!Depth, Episodes!Covered, Episodes!Backlog, Episodes!Picks, Episodes!NewJobs, Episodes!SetToSeq, Episodes!IsInjective, Episodes!Cardinality, Episodes!IsFiniteSet, Episodes!Contested, Episodes!Promoting, Episodes!Sweeping, Episodes!Seen, Episodes!Ids,
   Pipeline!Sweep, Pipeline!SweepDepth, Pipeline!SweepCovered, Pipeline!SweepPick, Pipeline!SweepCommit, Pipeline!Depth, Pipeline!Covered, Pipeline!Backlog, Pipeline!Picks, Pipeline!NewJobs, Pipeline!SetToSeq, Pipeline!IsInjective, Pipeline!Cardinality, Pipeline!IsFiniteSet, Pipeline!Contested, Pipeline!Promoting, Pipeline!Sweeping, Pipeline!Seen, Pipeline!Ids

LEMMA SameHandle == ASSUME NEW i PROVE Episodes!Handle(i) <=> Pipeline!Handle(i)
BY DEF Episodes!Handle, Episodes!Start, Episodes!Transcribe, Episodes!Complete, Episodes!Fail, Episodes!Update, Episodes!Settle, Episodes!sweepVars,
   Pipeline!Handle, Pipeline!Start, Pipeline!Transcribe, Pipeline!Complete, Pipeline!Fail, Pipeline!Update, Pipeline!Settle, Pipeline!sweepVars

LEMMA SameLost == ASSUME NEW i PROVE Episodes!Lost(i) <=> Pipeline!Lost(i)
BY DEF Episodes!Lost, Episodes!Spend, Episodes!Update, Episodes!Settle, Episodes!sweepVars,
   Pipeline!Lost, Pipeline!Spend, Pipeline!Update, Pipeline!Settle, Pipeline!sweepVars

LEMMA SameCancel == ASSUME NEW i PROVE Episodes!Cancel(i) <=> Pipeline!Cancel(i)
BY DEF Episodes!Cancel, Episodes!Update, Episodes!sweepVars,
   Pipeline!Cancel, Pipeline!Update, Pipeline!sweepVars

LEMMA SameNext == Episodes!Next <=> Pipeline!Next
BY SamePromoteLook, SamePromoteCommit, SamePromoteAbort, SameSweep, SameHandle, SameLost, SameCancel
   DEF Episodes!Next, Pipeline!Next, Episodes!Promote, Pipeline!Promote, Episodes!Ids, Pipeline!Ids

LEMMA SameInit == Episodes!Init <=> Pipeline!Init
BY DEF Episodes!Init, Pipeline!Init

LEMMA SameTypes == Episodes!TypeOK <=> Pipeline!TypeOK
BY DEF Episodes!TypeOK, Pipeline!TypeOK

LEMMA EpisodesAssumed == Pipeline!PipelineAssumption
<1>1. /\ IsFiniteSet(Contents)
      /\ {Promoter} \subseteq {Promoter} /\ {Promoter} \cap Sweeps = {}
      /\ [p \in {Promoter} |-> [c \in Contents |-> EpisodeThinkers]]
           \in [{Promoter} -> [Contents -> SUBSET EpisodeThinkers]]
      /\ Contents \subseteq Contents
      /\ Order \in [Contents -> Nat]
      /\ Threshold \in Nat /\ EpisodeTries \in Nat \ {0} /\ EpisodeFaults \in Nat
  BY OrderIsThere, LifecyclesAssumption
<1> QED BY ONLY <1>1 DEF IsFiniteSet, Pipeline!IsFiniteSet

LEMMA EpisodesInitially == Episodes!Init => Pipeline!PipelineInv
<1>1. Pipeline!Init => Pipeline!PipelineInv
  BY ONLY EpisodesAssumed, Pipeline!PipelineInitInv
<1> QED BY <1>1, SameInit

LEMMA EpisodesStep ==
    ASSUME Pipeline!PipelineInv, Episodes!Next \/ UNCHANGED episodeVars
    PROVE  Pipeline!PipelineInv'
<1>1. Pipeline!PipelineInv /\ [Pipeline!Next]_Pipeline!vars => Pipeline!PipelineInv'
  BY ONLY EpisodesAssumed, Pipeline!PipelineStepInv
<1>2. UNCHANGED episodeVars => UNCHANGED Pipeline!vars
  BY DEF Pipeline!vars, Pipeline!sweepVars, episodeVars
<1> QED BY <1>1, <1>2, SameNext

-----------------------------------------------------------------------------
(* The three together.                                                     *)

LifecyclesInv == ReviewInv /\ InquiryInv /\ Pipeline!PipelineInv

\* Whichever of the three moves, each keeps its invariant: what follows from
\* the three invariants holds where they are composed.
THEOREM LifecyclesInvariant == MCSpec => []LifecyclesInv
<1>1. MCInit => LifecyclesInv
  BY ReviewInitially, InquiryInitInv, EpisodesInitially DEF MCInit, LifecyclesInv
<1>2. LifecyclesInv /\ [MCNext]_<<reviewVars, inquiryVars, episodeVars, focus>> => LifecyclesInv'
  <2> SUFFICES ASSUME LifecyclesInv, [MCNext]_<<reviewVars, inquiryVars, episodeVars, focus>> PROVE LifecyclesInv'
    OBVIOUS
  <2>1. [Next]_vars /\ [InquiryNext]_inquiryVars /\ (Episodes!Next \/ UNCHANGED episodeVars)
    BY DEF MCNext, reviewVars
  <2> QED BY <2>1, ReviewStep, InquiryStepInv, EpisodesStep DEF LifecyclesInv
<1> QED BY <1>1, <1>2, PTL DEF MCSpec

\* Composed with the others, an inquiry still fills a row of the matrix.
THEOREM MatrixFilled == MCSpec => ImplementsMatrix
<1>1. MCInit => InquiryInv /\ CellInv /\ Matrix!MatrixInit
  BY InquiryInitInv, MatrixInitially DEF MCInit
<1>2. InquiryInv /\ CellInv /\ [MCNext]_<<reviewVars, inquiryVars, episodeVars, focus>>
         => InquiryInv' /\ CellInv' /\ [Matrix!MatrixNext]_Matrix!matrixVars
  <2> SUFFICES ASSUME InquiryInv, CellInv, [MCNext]_<<reviewVars, inquiryVars, episodeVars, focus>>
               PROVE  InquiryInv' /\ CellInv' /\ [Matrix!MatrixNext]_Matrix!matrixVars
    OBVIOUS
  <2>1. [InquiryNext]_inquiryVars
    BY DEF MCNext
  <2> QED BY <2>1, InquiryStepInv, CellInvStep, MatrixStep
<1> QED BY <1>1, <1>2, PTL DEF MCSpec, ImplementsMatrix, Matrix!MatrixSpec

\* Every variable of the three keeps its type.
THEOREM LifecyclesTypes == MCSpec => []TypesOK
<1>1. LifecyclesInv => TypesOK
  <2>1. Pipeline!PipelineInv => Pipeline!TypeOK
    BY DEF Pipeline!PipelineInv
  <2> QED BY <2>1, SameTypes DEF LifecyclesInv, ReviewInv, InquiryInv, StateTypeOK, TypesOK
<1> QED BY <1>1, LifecyclesInvariant, PTL
=================================================================================
