------------------------ MODULE ContentPipelineProofs ------------------------
(* Safety of ContentPipeline for any episodes, promoters, sweeps and faults. *)
EXTENDS ContentPipeline, FiniteSetTheorems, TLAPS

JobRows == [content : Contents, by : {"promotion", "sweep"},
            status : {"queued", "running", "done", "failed", "cancelled"},
            tries : 0..(MaxTries + 1), was : {"cataloged", "pending", "done"},
            wrote : BOOLEAN]

JobsOf(c) == {i \in Ids : jobs[i].content = c}

\* What is queued has a try left, what runs has not used one too many, and what
\* does not run has no handler with something in memory.
RowOK(row) ==
    /\ row.status = "queued" => row.tries < MaxTries
    /\ row.status = "running" => row.tries <= MaxTries
    /\ row.status # "running" => ~row.wrote
TriesLeft == \A i \in Ids : RowOK(jobs[i])

\* An episode has at most one job ever, and none while it is cataloged.
OneJob(c) ==
    /\ \A i, k \in JobsOf(c) : i = k
    /\ content[c] = "cataloged" => JobsOf(c) = {}

\* What a job's execution stored, or read as stored, is stored.
Stored(c) ==
    \A i \in JobsOf(c) :
        (jobs[i].status = "done" \/ jobs[i].wrote \/ jobs[i].was = "done") => content[c] = "done"

\* What a handler that will write read of the episode is still so.
UpToDate(c) ==
    /\ \A p \in Promoters : c \in Seen(p) => content[c] = "cataloged"
    /\ \A s \in Sweeps : pcs[s] = "covered" /\ c \notin covered[s]
                            => \A i \in JobsOf(c) : jobs[i].status = "done"
    /\ \A s \in Sweeps : pcs[s] = "picked" /\ c \in picked[s]
                            => content[c] = "pending" /\ JobsOf(c) = {}

\* Each transcript beyond the job's own was stored by an execution that was lost.
MadeByFaults(c) ==
    /\ JobsOf(c) = {} => made[c] <= faults
    /\ \A i \in JobsOf(c) :
          made[c] <= faults + (IF jobs[i].wrote \/ jobs[i].status = "done" THEN 1 ELSE 0)

Tidy(c) == OneJob(c) /\ Stored(c) /\ UpToDate(c) /\ MadeByFaults(c)

PipelineInv == TypeOK /\ TriesLeft /\ \A c \in Contents \ raced : Tidy(c)

-----------------------------------------------------------------------------
(* The sequence of jobs.                                                   *)

\* SetToSeq lists a finite set without repetition.
LEMMA ListsOnce ==
    ASSUME NEW S, IsFiniteSet(S)
    PROVE  /\ SetToSeq(S) \in [1..Cardinality(S) -> S]
           /\ IsInjective(SetToSeq(S)) /\ Cardinality(S) \in Nat
<1>1. Cardinality(S) \in Nat /\ ExistsBijection(1..Cardinality(S), S)
  BY FS_CardinalityType
<1>2. PICK f \in Bijection(1..Cardinality(S), S) : TRUE
  BY <1>1 DEF ExistsBijection
<1>3. f \in [1..Cardinality(S) -> S] /\ IsInjective(f)
  BY <1>2 DEF Bijection, Injection
<1>4. \E g \in [1..Cardinality(S) -> S] : IsInjective(g)
  BY <1>3
<1>q. QED
  BY <1>1, <1>4 DEF SetToSeq

\* The length of a concatenation.
LEMMA Appends ==
    ASSUME NEW T, NEW a \in Seq(T), NEW b \in Seq(T)
    PROVE  Len(a \o b) = Len(a) + Len(b)
  OBVIOUS

\* A row no execution has touched.
Fresh(row) == row.status = "queued" /\ row.tries = 0 /\ row.was = "pending" /\ ~row.wrote

\* The rows a commit adds: one per episode, queued and untried.
LEMMA Added ==
    ASSUME jobs \in Seq(JobRows), NEW S \in SUBSET Contents, NEW origin \in {"promotion", "sweep"},
           jobs' = jobs \o NewJobs(S, origin)
    PROVE  /\ jobs' \in Seq(JobRows) /\ Ids \subseteq Ids'
           /\ \A i \in Ids : jobs'[i] = jobs[i]
           /\ \A i \in Ids' \ Ids : jobs'[i].content \in S /\ Fresh(jobs'[i])
           /\ \A i, k \in Ids' \ Ids : jobs'[i].content = jobs'[k].content => i = k
<1> DEFINE fresh(c) == [content |-> c, by |-> origin, status |-> "queued", tries |-> 0,
                        was |-> "pending", wrote |-> FALSE]
           rows == {fresh(c) : c \in S}
           new == SetToSeq(rows)
           n == Cardinality(rows)
<1>1. IsFiniteSet(rows)
  <2>1. IsFiniteSet(S)
    BY FS_Subset, PipelineAssumption
  <2>q. QED
    <3> DEFINE f == [c \in S |-> fresh(c)]
    <3>1. f \in Surjection(S, rows)
      BY DEF Surjection
    <3>q. QED
      BY <2>1, <3>1, FS_Surjection DEF ExistsSurjection
<1>2. new \in [1..n -> rows] /\ IsInjective(new) /\ n \in Nat
  BY <1>1, ListsOnce
<1>3. \A c \in S : fresh(c) \in JobRows /\ fresh(c).content = c
  BY PipelineAssumption DEF JobRows
<1>4. jobs' = jobs \o new
  BY DEF NewJobs
<1>5. \A x \in rows : x \in JobRows /\ x.content \in S /\ Fresh(x)
  <2> SUFFICES ASSUME NEW c \in S
               PROVE  fresh(c) \in JobRows /\ fresh(c).content \in S /\ Fresh(fresh(c))
    OBVIOUS
  <2>1. ~fresh(c).wrote
    OBVIOUS
  <2>q. QED
    BY <1>3, <2>1 DEF Fresh
<1>6. \A a \in 1..n : new[a] \in JobRows /\ new[a].content \in S /\ Fresh(new[a])
  BY <1>2, <1>5
<1>7. \A a, b \in 1..n : new[a].content = new[b].content => a = b
  <2>1. \A x, y \in rows : x.content = y.content => x = y
    BY <1>3
  <2>2. \A a, b \in 1..n : new[a].content = new[b].content => new[a] = new[b]
    BY <1>2, <2>1
  <2>q. QED
    BY <1>2, <2>2 DEF IsInjective
<1> HIDE DEF new, n, rows
<1>8. new \in Seq(JobRows) /\ Len(new) = n
  BY <1>2, <1>6
<1>9. /\ jobs' \in Seq(JobRows) /\ Len(jobs') = Len(jobs) + n /\ Len(jobs) \in Nat
      /\ \A i \in 1..Len(jobs) : jobs'[i] = jobs[i]
  <2>1. jobs' \in Seq(JobRows)
    BY <1>4, <1>8
  <2>2. Len(jobs) \in Nat
    OBVIOUS
  <2>4. Len(jobs \o new) = Len(jobs) + Len(new)
    BY <1>8, Appends
  <2>3. \A i \in 1..Len(jobs) : jobs'[i] = jobs[i]
    BY <1>4, <1>8
  <2>q. QED
    BY <1>4, <1>8, <2>1, <2>2, <2>3, <2>4
<1>10. Ids' = 1..(Len(jobs) + n) /\ Ids = 1..Len(jobs)
  BY <1>9 DEF Ids
<1>11. ASSUME NEW i \in Ids' \ Ids
       PROVE  i - Len(jobs) \in 1..n /\ jobs'[i] = new[i - Len(jobs)]
  <2>1. i \in Int /\ i > Len(jobs) /\ i <= Len(jobs) + n
    BY <1>2, <1>9, <1>10
  <2>q. QED
    BY <1>2, <1>4, <1>8, <1>9, <2>1
<1>12. \A i \in Ids' \ Ids : jobs'[i].content \in S /\ Fresh(jobs'[i])
  BY <1>6, <1>11
<1>13. ASSUME NEW i \in Ids' \ Ids, NEW k \in Ids' \ Ids, jobs'[i].content = jobs'[k].content
       PROVE  i = k
  <2>1. /\ i - Len(jobs) \in 1..n /\ jobs'[i] = new[i - Len(jobs)]
        /\ k - Len(jobs) \in 1..n /\ jobs'[k] = new[k - Len(jobs)]
    BY <1>11
  <2>2. new[i - Len(jobs)].content = new[k - Len(jobs)].content
    BY <1>13, <2>1
  <2>3. i - Len(jobs) = k - Len(jobs)
    BY <1>7, <2>1, <2>2
  <2>q. QED
    BY <2>3, <1>2, <1>9, <1>10
<1>14. Ids \subseteq Ids'
  BY <1>2, <1>9, <1>10
<1>q. QED
  BY <1>9, <1>10, <1>12, <1>13, <1>14

\* The step of one job changes no other's row and no row's episode.
LEMMA Updated ==
    ASSUME jobs \in Seq(JobRows), NEW i \in Ids, NEW row \in JobRows, Update(i, row),
           row.content = jobs[i].content
    PROVE  /\ jobs' \in Seq(JobRows) /\ Ids' = Ids /\ jobs'[i] = row
           /\ \A k \in Ids : k # i => jobs'[k] = jobs[k]
           /\ \A c : JobsOf(c)' = JobsOf(c)
<1>1. /\ jobs' \in Seq(JobRows) /\ Len(jobs') = Len(jobs) /\ jobs'[i] = row
      /\ \A k \in Ids : k # i => jobs'[k] = jobs[k]
  BY DEF Update, Ids
<1>2. Ids' = Ids
  BY <1>1 DEF Ids
<1>q. QED
  BY <1>1, <1>2 DEF JobsOf

-----------------------------------------------------------------------------
\* Episodes start without jobs and nobody has read anything.
THEOREM PipelineInitInv == Init => PipelineInv
<1> SUFFICES ASSUME Init PROVE PipelineInv
  OBVIOUS
<1>1. TypeOK
  BY PipelineAssumption DEF Init, TypeOK
<1>2. Ids = {}
  BY DEF Init, Ids
<1>3. TriesLeft
  BY <1>2 DEF TriesLeft
<1>4. ASSUME NEW c \in Contents PROVE Tidy(c)
  <2>1. JobsOf(c) = {} /\ \A p \in Promoters : Seen(p) = {}
    BY <1>2 DEF JobsOf, Seen, Init
  <2>q. QED
    BY <2>1 DEF Init, Tidy, OneJob, Stored, UpToDate, MadeByFaults
<1>q. QED
  BY <1>1, <1>3, <1>4 DEF PipelineInv

\* A look, or a rollback, leaves the episode as it is.
LEMMA LooksOnly ==
    ASSUME PipelineInv, NEW c \in Contents \ raced, UpToDate(c)', faults' >= faults, TypeOK',
           UNCHANGED <<content, jobs, made>>
    PROVE  Tidy(c)'
<1>1. JobsOf(c)' = JobsOf(c) /\ Tidy(c)
  BY DEF JobsOf, Ids, PipelineInv
<1>2. OneJob(c)' /\ Stored(c)'
  BY <1>1 DEF Tidy, OneJob, Stored
<1>3. made[c] \in Nat /\ faults \in Nat /\ faults' \in Nat
  BY DEF PipelineInv, TypeOK
<1>4. MadeByFaults(c)'
  BY <1>1, <1>3 DEF Tidy, MadeByFaults
<1>q. QED
  BY <1>2, <1>4 DEF Tidy

\* The commit of a promoter.
LEMMA PromoteCommitInv ==
    ASSUME PipelineInv, NEW p \in Promoters, PromoteCommit(p)
    PROVE  PipelineInv'
<1>. TypeOK /\ TriesLeft /\ \A c \in Contents \ raced : Tidy(c)
  BY DEF PipelineInv
<1> DEFINE S == Seen(p) \cap Recent
<1>1. Seen(p) \subseteq Contents
  BY DEF TypeOK, Seen
<1>2. /\ jobs \in Seq(JobRows) /\ S \in SUBSET Contents /\ jobs' = jobs \o NewJobs(S, "promotion")
  BY <1>1 DEF PromoteCommit, TypeOK, JobRows
<1>3. /\ jobs' \in Seq(JobRows) /\ Ids \subseteq Ids'
      /\ \A i \in Ids : jobs'[i] = jobs[i]
      /\ \A i \in Ids' \ Ids : jobs'[i].content \in S /\ Fresh(jobs'[i])
      /\ \A i, k \in Ids' \ Ids : jobs'[i].content = jobs'[k].content => i = k
  BY <1>2, Added
<1>4. TypeOK'
  <2>1. Attributions(p) \subseteq Contents \X Thinkers
    BY DEF TypeOK, Attributions
  <2>2. raced' \subseteq Contents
    BY <1>1 DEF PromoteCommit, TypeOK, Contested
  <2>3. /\ content' \in [Contents -> {"cataloged", "pending", "done"}]
        /\ attrib' \subseteq Contents \X Thinkers
        /\ look' \in [Promoters -> SUBSET (Contents \X SUBSET Thinkers)]
    BY <2>1 DEF PromoteCommit, TypeOK
  <2>q. QED
    BY <1>3, <2>2, <2>3 DEF PromoteCommit, TypeOK, JobRows, sweepVars
<1>5. TriesLeft'
  BY <1>3, PipelineAssumption DEF TriesLeft, RowOK, Fresh
<1>6. ASSUME NEW c \in Contents \ raced' PROVE Tidy(c)'
  <2>1. Tidy(c)
    BY <1>6 DEF PromoteCommit
  <2>2. /\ \A q \in Promoters : q # p => Seen(q)' = Seen(q)
        /\ Seen(p)' = {}
    BY DEF PromoteCommit, Seen, TypeOK
  <2>3. CASE c \in Seen(p)
    <3>1. content[c] = "cataloged" /\ JobsOf(c) = {}
      BY <2>1, <2>3 DEF Tidy, UpToDate, OneJob
    <3>2. content'[c] = "pending"
      BY <2>3 DEF PromoteCommit
    <3>3. JobsOf(c)' \subseteq Ids' \ Ids
      BY <1>3, <3>1 DEF JobsOf
    <3>4. OneJob(c)' /\ Stored(c)'
      BY <1>3, <3>2, <3>3 DEF OneJob, Stored, JobsOf, Fresh
    <3>5. ~Promoting(c, p) /\ ~Sweeping(c, p)
      BY <1>6, <2>3 DEF PromoteCommit, Contested
    <3>6. \A s \in Sweeps : /\ ~(pcs[s] = "covered" /\ c \notin covered[s])
                            /\ ~(pcs[s] = "picked" /\ c \in picked[s])
      BY <3>5, PipelineAssumption DEF Sweeping
    <3>7. UpToDate(c)'
      BY <2>2, <3>5, <3>6 DEF PromoteCommit, UpToDate, Promoting, sweepVars
    <3>8. made[c] <= faults /\ made[c] \in Nat /\ faults \in Nat
      BY <2>1, <3>1 DEF Tidy, MadeByFaults, TypeOK
    <3>9. MadeByFaults(c)'
      BY <3>8 DEF PromoteCommit, MadeByFaults
    <3>q. QED
      BY <3>4, <3>7, <3>9 DEF Tidy
  <2>4. CASE c \notin Seen(p)
    <3>1. content'[c] = content[c] /\ JobsOf(c)' = JobsOf(c)
      <4>1. content'[c] = content[c]
        BY <2>4 DEF PromoteCommit
      <4>2. \A i \in Ids' : jobs'[i].content = c => i \in Ids
        BY <1>3, <2>4
      <4>q. QED
        BY <1>3, <4>1, <4>2 DEF JobsOf
    <3>2. \A i \in JobsOf(c) : jobs'[i] = jobs[i]
      BY <1>3 DEF JobsOf
    <3>3. OneJob(c)' /\ Stored(c)'
      BY <2>1, <3>1, <3>2 DEF Tidy, OneJob, Stored
    <3>4. UpToDate(c)'
      BY <2>1, <2>2, <3>1, <3>2 DEF PromoteCommit, Tidy, UpToDate, sweepVars
    <3>5. MadeByFaults(c)'
      BY <2>1, <3>1, <3>2 DEF PromoteCommit, Tidy, MadeByFaults
    <3>q. QED
      BY <3>3, <3>4, <3>5 DEF Tidy
  <2>q. QED
    BY <2>3, <2>4
<1>q. QED
  BY <1>4, <1>5, <1>6 DEF PipelineInv

\* The commit of a sweep.
LEMMA SweepCommitInv ==
    ASSUME PipelineInv, NEW s \in Sweeps, SweepCommit(s)
    PROVE  PipelineInv'
<1>. TypeOK /\ TriesLeft /\ \A c \in Contents \ raced : Tidy(c)
  BY DEF PipelineInv
<1> DEFINE S == picked[s]
<1>1. /\ jobs \in Seq(JobRows) /\ S \in SUBSET Contents /\ jobs' = jobs \o NewJobs(S, "sweep")
  BY DEF SweepCommit, TypeOK, JobRows
<1>2. /\ jobs' \in Seq(JobRows) /\ Ids \subseteq Ids'
      /\ \A i \in Ids : jobs'[i] = jobs[i]
      /\ \A i \in Ids' \ Ids : jobs'[i].content \in S /\ Fresh(jobs'[i])
      /\ \A i, k \in Ids' \ Ids : jobs'[i].content = jobs'[k].content => i = k
  BY <1>1, Added
<1>3. TypeOK'
  <2>1. raced' \subseteq Contents
    BY <1>1 DEF SweepCommit, TypeOK, Contested
  <2>2. pcs' \in [Sweeps -> {"idle", "depth", "covered", "picked"}] /\ picked' \in [Sweeps -> SUBSET Contents]
    BY DEF SweepCommit, TypeOK
  <2>q. QED
    BY <1>2, <2>1, <2>2 DEF SweepCommit, TypeOK, JobRows
<1>4. TriesLeft'
  BY <1>2, PipelineAssumption DEF TriesLeft, RowOK, Fresh
<1>5. ASSUME NEW c \in Contents \ raced' PROVE Tidy(c)'
  <2>1. Tidy(c) /\ content' = content /\ \A p \in Promoters : Seen(p)' = Seen(p)
    BY <1>5 DEF SweepCommit, Seen
  <2>2. CASE c \in S
    <3>1. content[c] = "pending" /\ JobsOf(c) = {}
      BY <2>1, <2>2 DEF SweepCommit, Tidy, UpToDate
    <3>2. JobsOf(c)' \subseteq Ids' \ Ids
      BY <1>2, <3>1 DEF JobsOf
    <3>3. OneJob(c)' /\ Stored(c)'
      BY <1>2, <2>1, <3>1, <3>2 DEF OneJob, Stored, JobsOf, Fresh
    <3>4. ~Promoting(c, s) /\ ~Sweeping(c, s)
      BY <1>5, <2>2 DEF SweepCommit, Contested
    <3>5. UpToDate(c)'
      BY <2>1, <3>4, PipelineAssumption DEF SweepCommit, UpToDate, Promoting, Sweeping, TypeOK
    <3>6. made[c] <= faults /\ made[c] \in Nat /\ faults \in Nat
      BY <2>1, <3>1 DEF Tidy, MadeByFaults, TypeOK
    <3>7. MadeByFaults(c)'
      BY <3>6 DEF SweepCommit, MadeByFaults
    <3>q. QED
      BY <3>3, <3>5, <3>7 DEF Tidy
  <2>3. CASE c \notin S
    <3>1. JobsOf(c)' = JobsOf(c)
      <4>1. \A i \in Ids' : jobs'[i].content = c => i \in Ids
        BY <1>2, <2>3
      <4>q. QED
        BY <1>2, <4>1 DEF JobsOf
    <3>2. \A i \in JobsOf(c) : jobs'[i] = jobs[i]
      BY <1>2 DEF JobsOf
    <3>3. OneJob(c)' /\ Stored(c)'
      BY <2>1, <3>1, <3>2 DEF Tidy, OneJob, Stored
    <3>4. /\ UNCHANGED covered /\ \A t \in Sweeps : pcs'[t] # "idle" => pcs'[t] = pcs[t] /\ picked'[t] = picked[t]
      BY DEF SweepCommit, TypeOK
    <3>6. UpToDate(c)'
      BY <2>1, <3>1, <3>2, <3>4 DEF Tidy, UpToDate
    <3>5. MadeByFaults(c)'
      BY <2>1, <3>1, <3>2 DEF SweepCommit, Tidy, MadeByFaults
    <3>q. QED
      BY <3>3, <3>5, <3>6 DEF Tidy
  <2>q. QED
    BY <2>2, <2>3
<1>q. QED
  BY <1>3, <1>4, <1>5 DEF PipelineInv

\* A step of one job: what must hold of its new row and of its own episode.
LEMMA OneRowInv ==
    ASSUME PipelineInv, NEW i \in Ids, NEW new \in JobRows, NEW own, own = jobs[i].content,
           Update(i, new), new.content = own, RowOK(new), jobs[i].status # "done",
           UNCHANGED <<attrib, look, sweepVars, raced>>, faults' \in 0..MaxFaults, faults' >= faults,
           content' \in [Contents -> {"cataloged", "pending", "done"}], made' \in [Contents -> Nat],
           \A c \in Contents : c # own => content'[c] = content[c] /\ made'[c] = made[c],
           content'[own] \in {content[own], "done"},
           own \notin raced => (new.status = "done" \/ new.wrote \/ new.was = "done" => content'[own] = "done"),
           own \notin raced => made'[own] <= faults' + (IF new.wrote \/ new.status = "done" THEN 1 ELSE 0)
    PROVE  PipelineInv'
<1>. TypeOK /\ TriesLeft /\ \A c \in Contents \ raced : Tidy(c)
  BY DEF PipelineInv
<1>1. jobs \in Seq(JobRows)
  BY DEF TypeOK, JobRows
<1>2. /\ jobs' \in Seq(JobRows) /\ Ids' = Ids /\ jobs'[i] = new
      /\ \A k \in Ids : k # i => jobs'[k] = jobs[k]
      /\ \A c : JobsOf(c)' = JobsOf(c)
  BY <1>1, Updated
<1>3. TypeOK'
  BY <1>2 DEF TypeOK, sweepVars, JobRows
<1>4. TriesLeft'
  BY <1>2 DEF TriesLeft
<1>5. ASSUME NEW c \in Contents \ raced' PROVE Tidy(c)'
  <2>1. Tidy(c) /\ JobsOf(c)' = JobsOf(c) /\ \A p \in Promoters : Seen(p)' = Seen(p)
    BY <1>2, <1>5 DEF Seen
  <2>2. faults \in Nat /\ faults' \in Nat /\ made[c] \in Nat /\ made'[c] \in Nat
    BY DEF TypeOK
  <2>3. CASE c # own
    <3>1. content'[c] = content[c] /\ made'[c] = made[c] /\ \A k \in JobsOf(c) : jobs'[k] = jobs[k]
      BY <1>2, <2>3 DEF JobsOf
    <3>2. OneJob(c)' /\ Stored(c)'
      BY <2>1, <3>1 DEF Tidy, OneJob, Stored
    <3>3. UpToDate(c)'
      BY <2>1, <3>1 DEF Tidy, UpToDate, sweepVars
    <3>4. MadeByFaults(c)'
      <4>1. JobsOf(c) = {} => made'[c] <= faults'
        BY <2>1, <2>2, <3>1 DEF Tidy, MadeByFaults
      <4>2. ASSUME NEW k \in JobsOf(c)
            PROVE  made'[c] <= faults' + (IF jobs'[k].wrote \/ jobs'[k].status = "done" THEN 1 ELSE 0)
        BY <2>1, <2>2, <3>1 DEF Tidy, MadeByFaults
      <4>q. QED
        BY <2>1, <4>1, <4>2 DEF MadeByFaults
    <3>q. QED
      BY <3>2, <3>3, <3>4 DEF Tidy
  <2>4. CASE c = own
    <3>1. JobsOf(c) = {i}
      BY <2>1, <2>4 DEF Tidy, OneJob, JobsOf
    <3>2. content[c] # "cataloged" /\ content'[c] # "cataloged"
      BY <2>1, <2>4, <3>1 DEF Tidy, OneJob
    <3>3. OneJob(c)'
      BY <2>1, <3>1, <3>2 DEF OneJob
    <3>4. Stored(c)'
      BY <1>2, <1>5, <2>1, <2>4, <3>1 DEF Stored
    <3>5. UpToDate(c)'
      BY <2>1, <3>1, <3>2 DEF Tidy, UpToDate, sweepVars
    <3>6. MadeByFaults(c)'
      BY <1>2, <1>5, <2>1, <2>4, <3>1 DEF MadeByFaults
    <3>q. QED
      BY <3>3, <3>4, <3>5, <3>6 DEF Tidy
  <2>q. QED
    BY <2>3, <2>4
<1>q. QED
  BY <1>3, <1>4, <1>5 DEF PipelineInv

\* The row of a job, its only one if no handlers raced for its episode.
LEMMA OwnRow ==
    ASSUME PipelineInv, NEW i \in Ids
    PROVE  /\ jobs[i] \in JobRows /\ jobs[i].content \in Contents /\ RowOK(jobs[i])
           /\ jobs[i].tries \in Nat /\ jobs[i].wrote \in BOOLEAN
           /\ MaxTries \in Nat \ {0} /\ faults \in Nat /\ made[jobs[i].content] \in Nat
           /\ jobs[i].content \notin raced =>
                /\ (jobs[i].status = "done" \/ jobs[i].wrote \/ jobs[i].was = "done")
                       => content[jobs[i].content] = "done"
                /\ made[jobs[i].content] <=
                       faults + (IF jobs[i].wrote \/ jobs[i].status = "done" THEN 1 ELSE 0)
<1>1. jobs \in Seq(JobRows) /\ i \in 1..Len(jobs)
  BY DEF PipelineInv, TypeOK, JobRows, Ids
<1>2. jobs[i] \in JobRows
  BY <1>1
<1>3. jobs[i].content \in Contents /\ jobs[i].tries \in Nat /\ jobs[i].wrote \in BOOLEAN
  BY <1>2, PipelineAssumption DEF JobRows
<1>4. RowOK(jobs[i]) /\ faults \in Nat /\ made[jobs[i].content] \in Nat
  BY <1>3 DEF PipelineInv, TypeOK, TriesLeft
<1>5. i \in JobsOf(jobs[i].content)
  BY DEF JobsOf
<1>6. jobs[i].content \notin raced => Tidy(jobs[i].content)
  BY <1>3 DEF PipelineInv
<1>q. QED
  BY <1>2, <1>3, <1>4, <1>5, <1>6, PipelineAssumption DEF Tidy, Stored, MadeByFaults

\* The steps of a transcription job.
LEMMA JobStepInv ==
    ASSUME PipelineInv, NEW i \in Ids, Handle(i) \/ Lost(i) \/ Cancel(i)
    PROVE  PipelineInv'
<1>. TypeOK
  BY DEF PipelineInv
<1> DEFINE own == jobs[i].content
<1>1. /\ jobs[i] \in JobRows /\ own \in Contents /\ RowOK(jobs[i])
      /\ jobs[i].tries \in Nat /\ jobs[i].wrote \in BOOLEAN
      /\ MaxTries \in Nat \ {0} /\ faults \in Nat /\ made[own] \in Nat
      /\ own \notin raced =>
            /\ (jobs[i].status = "done" \/ jobs[i].wrote \/ jobs[i].was = "done") => content[own] = "done"
            /\ made[own] <= faults + (IF jobs[i].wrote \/ jobs[i].status = "done" THEN 1 ELSE 0)
  BY OwnRow
<1>2. /\ content \in [Contents -> {"cataloged", "pending", "done"}] /\ made \in [Contents -> Nat]
      /\ faults \in 0..MaxFaults
  BY DEF TypeOK
<1>3. CASE Start(i)
  <2> DEFINE new == [jobs[i] EXCEPT !.status = "running", !.tries = @ + 1,
                                    !.was = content[jobs[i].content], !.wrote = FALSE]
  <2>1. /\ jobs[i].status = "queued" /\ jobs[i].tries < MaxTries /\ Update(i, new) /\ ~jobs[i].wrote
        /\ UNCHANGED <<content, attrib, look, sweepVars, faults, made, raced>>
    BY <1>1, <1>3 DEF Start, RowOK
  <2>2. jobs[i].tries + 1 \in 0..(MaxTries + 1) /\ content[own] \in {"cataloged", "pending", "done"}
    BY <1>1, <1>2, <2>1
  <2>3. new \in JobRows
    BY <1>1, <2>2 DEF JobRows
  <2>4. /\ new.content = own /\ new.status = "running" /\ new.was = content[own]
        /\ new.tries = jobs[i].tries + 1 /\ ~new.wrote
    BY <1>1 DEF JobRows
  <2> HIDE DEF new
  <2>5. RowOK(new)
    BY <1>1, <2>1, <2>4 DEF RowOK
  <2>q. QED
    BY <1>1, <1>2, <2>1, <2>3, <2>4, <2>5, OneRowInv
<1>4. CASE Transcribe(i)
  <2> DEFINE new == [jobs[i] EXCEPT !.wrote = TRUE]
  <2>1. /\ jobs[i].status = "running" /\ ~jobs[i].wrote /\ Update(i, new)
        /\ content' = IF jobs[i].was = "done" THEN content ELSE [content EXCEPT ![own] = "done"]
        /\ made' = [made EXCEPT ![own] = @ + 1]
        /\ UNCHANGED <<attrib, look, sweepVars, faults, raced>>
    BY <1>4 DEF Transcribe
  <2>2. new \in JobRows
    BY <1>1 DEF JobRows
  <2>3. /\ new.content = own /\ new.status = jobs[i].status /\ new.was = jobs[i].was
        /\ new.tries = jobs[i].tries /\ new.wrote
    BY <1>1 DEF JobRows
  <2> HIDE DEF new
  <2>4. RowOK(new)
    BY <1>1, <2>1, <2>3 DEF RowOK
  <2>5. /\ content' \in [Contents -> {"cataloged", "pending", "done"}] /\ made' \in [Contents -> Nat]
        /\ \A c \in Contents : c # own => content'[c] = content[c] /\ made'[c] = made[c]
        /\ content'[own] \in {content[own], "done"} /\ made'[own] = made[own] + 1
    BY <1>1, <1>2, <2>1
  <2>6. own \notin raced => content'[own] = "done"
    BY <1>1, <1>2, <2>1
  <2>7. own \notin raced => made'[own] <= faults' + 1
    BY <1>1, <2>1, <2>5
  <2>q. QED
    BY <1>1, <1>2, <2>1, <2>2, <2>3, <2>4, <2>5, <2>6, <2>7, OneRowInv
<1>5. CASE Complete(i) \/ Fail(i) \/ Lost(i)
  <2>1. PICK st \in {"queued", "done", "failed"}, n \in 0..(MaxTries + 1) :
           /\ Settle(i, st, n) /\ jobs[i].status = "running"
           /\ st = "queued" => n < MaxTries
           /\ st = "done" => jobs[i].wrote
           /\ (faults' = faults /\ (st = "done" \/ ~jobs[i].wrote)) \/ faults' = faults + 1
           /\ faults' \in 0..MaxFaults
           /\ UNCHANGED <<content, attrib, look, sweepVars, made, raced>>
    <3>1. CASE Complete(i)
      <4>1. jobs[i].tries \in 0..(MaxTries + 1)
        BY <1>1 DEF JobRows
      <4>q. QED
        BY <1>2, <3>1, <4>1 DEF Complete
    <3>2. CASE Fail(i)
      <4>1. jobs[i].tries \in 0..(MaxTries + 1)
        BY <1>1 DEF JobRows
      <4>q. QED
        BY <1>2, <3>2, <4>1 DEF Fail
    <3>3. CASE Lost(i)
      <4>1. jobs[i].status = "running" /\ jobs[i].tries <= MaxTries
        BY <1>1, <3>3 DEF Lost, RowOK
      <4>2. jobs[i].tries + 1 \in 0..(MaxTries + 1)
        BY <1>1, <4>1
      <4>3. faults' = faults + 1 /\ faults' \in 0..MaxFaults
        BY <1>1, <1>2, <3>3, PipelineAssumption DEF Lost, Spend
      <4>q. QED
        BY <3>3, <4>1, <4>2, <4>3 DEF Lost
    <3>q. QED
      BY <1>5, <3>1, <3>2, <3>3
  <2> DEFINE new == [jobs[i] EXCEPT !.status = st, !.tries = n, !.was = "pending", !.wrote = FALSE]
  <2>2. Update(i, new)
    BY <2>1 DEF Settle
  <2>3. new \in JobRows
    BY <1>1, <2>1 DEF JobRows
  <2>4. /\ new.content = own /\ new.status = st /\ new.tries = n /\ new.was = "pending" /\ ~new.wrote
    BY <1>1 DEF JobRows
  <2> HIDE DEF new
  <2>5. RowOK(new)
    BY <2>1, <2>4 DEF RowOK
  <2>6. own \notin raced => made[own] <= faults' + (IF new.wrote \/ new.status = "done" THEN 1 ELSE 0)
    BY <1>1, <2>1, <2>4
  <2>7. own \notin raced => (new.status = "done" \/ new.wrote \/ new.was = "done" => content[own] = "done")
    BY <1>1, <2>1, <2>4
  <2>q. QED
    BY <1>1, <1>2, <2>1, <2>2, <2>3, <2>4, <2>5, <2>6, <2>7, OneRowInv
<1>6. CASE Cancel(i)
  <2> DEFINE new == [jobs[i] EXCEPT !.status = "cancelled"]
  <2>1. /\ jobs[i].status = "queued" /\ ~jobs[i].wrote /\ Update(i, new)
        /\ UNCHANGED <<content, attrib, look, sweepVars, faults, made, raced>>
    BY <1>1, <1>6 DEF Cancel, RowOK
  <2>2. new \in JobRows
    BY <1>1 DEF JobRows
  <2>3. new.content = own /\ new.status = "cancelled" /\ new.was = jobs[i].was /\ ~new.wrote
    BY <1>1, <2>1 DEF JobRows
  <2> HIDE DEF new
  <2>4. RowOK(new)
    BY <2>3 DEF RowOK
  <2>q. QED
    BY <1>1, <1>2, <2>1, <2>2, <2>3, <2>4, OneRowInv
<1>q. QED
  BY <1>3, <1>4, <1>5, <1>6 DEF Handle

\* What only looks, or rolls back, leaves the rows as they are.
LEMMA LookStepInv ==
    ASSUME PipelineInv, TypeOK', faults' >= faults, UNCHANGED <<content, jobs, made, raced>>,
           \A c \in Contents \ raced : UpToDate(c)'
    PROVE  PipelineInv'
<1>1. \A c \in Contents \ raced' : Tidy(c)'
  BY LooksOnly
<1>2. TriesLeft'
  BY DEF PipelineInv, TriesLeft, Ids
<1>q. QED
  BY <1>1, <1>2 DEF PipelineInv

\* Every step: of a promoter, of a sweep, of a transcription job.
THEOREM PipelineStepInv == PipelineInv /\ [Next]_vars => PipelineInv'
<1> SUFFICES ASSUME PipelineInv, [Next]_vars PROVE PipelineInv'
  OBVIOUS
<1>. TypeOK /\ TriesLeft /\ \A c \in Contents \ raced : Tidy(c)
  BY DEF PipelineInv
<1>0. faults \in Nat /\ UNCHANGED jobs => \A c : JobsOf(c)' = JobsOf(c)
  BY DEF TypeOK, JobsOf, Ids
<1>1. ASSUME NEW p \in Promoters, PromoteLook(p)
      PROVE  PipelineInv'
  <2>1. TypeOK'
    <3>1. \A c \in Targets(p) : New(p, c) \subseteq Thinkers
      BY PipelineAssumption DEF New, Targets
    <3>2. {<<c, New(p, c)>> : c \in Targets(p)} \subseteq Contents \X SUBSET Thinkers
      BY <3>1 DEF Targets
    <3>3. look' \in [Promoters -> SUBSET (Contents \X SUBSET Thinkers)]
      BY <1>1, <3>2 DEF PromoteLook, TypeOK
    <3>q. QED
      BY <1>1, <3>3 DEF PromoteLook, TypeOK, sweepVars
  <2>2. ASSUME NEW c \in Contents \ raced PROVE UpToDate(c)'
    <3>1. \A q \in Promoters : q # p => Seen(q)' = Seen(q)
      BY <1>1 DEF PromoteLook, Seen, TypeOK
    <3>2. c \in Seen(p)' => content[c] = "cataloged"
      BY <1>1 DEF PromoteLook, Seen, TypeOK, Targets
    <3>3. Tidy(c) /\ JobsOf(c)' = JobsOf(c)
      BY <1>0, <1>1, <2>2 DEF PromoteLook, TypeOK
    <3>q. QED
      BY <1>1, <3>1, <3>2, <3>3 DEF PromoteLook, Tidy, UpToDate, sweepVars
  <2>3. UNCHANGED <<content, jobs, made, raced, faults>>
    BY <1>1 DEF PromoteLook
  <2>q. QED
    BY <1>0, <2>1, <2>2, <2>3, LookStepInv DEF TypeOK
<1>2. ASSUME NEW p \in Promoters, PromoteCommit(p)
      PROVE  PipelineInv'
  BY <1>2, PromoteCommitInv
<1>3. ASSUME NEW p \in Promoters, PromoteAbort(p)
      PROVE  PipelineInv'
  <2>1. faults' \in 0..MaxFaults /\ faults' >= faults
    BY <1>3, PipelineAssumption DEF PromoteAbort, Spend, TypeOK
  <2>2. TypeOK'
    BY <1>3, <2>1 DEF PromoteAbort, TypeOK, sweepVars
  <2>3. ASSUME NEW c \in Contents \ raced PROVE UpToDate(c)'
    <3>1. \A q \in Promoters : Seen(q)' \subseteq Seen(q)
      BY <1>3 DEF PromoteAbort, Seen, TypeOK
    <3>2. Tidy(c) /\ JobsOf(c)' = JobsOf(c)
      BY <1>0, <1>3, <2>3 DEF PromoteAbort, TypeOK
    <3>q. QED
      BY <1>3, <3>1, <3>2 DEF PromoteAbort, Tidy, UpToDate, sweepVars
  <2>4. UNCHANGED <<content, jobs, made, raced>>
    BY <1>3 DEF PromoteAbort
  <2>q. QED
    BY <2>1, <2>2, <2>3, <2>4, LookStepInv
<1>4. ASSUME NEW s \in Sweeps, SweepDepth(s)
      PROVE  PipelineInv'
  <2>1. Depth \in Nat
    <3>0. jobs \in Seq(JobRows)
      BY DEF TypeOK, JobRows
    <3>3. Len(jobs) \in Nat
      BY <3>0
    <3>1. IsFiniteSet(1..Len(jobs))
      BY <3>3, FS_Interval
    <3>2. IsFiniteSet({i \in Ids : jobs[i].status = "queued"})
      BY <3>1, FS_Subset DEF Ids
    <3>q. QED
      BY <3>2, FS_CardinalityType DEF Depth
  <2>2. TypeOK'
    <3>1. Threshold - Depth \in 0..Threshold
      BY <1>4, <2>1, PipelineAssumption DEF SweepDepth
    <3>q. QED
      BY <1>4, <3>1 DEF SweepDepth, TypeOK
  <2>3. ASSUME NEW c \in Contents \ raced PROVE UpToDate(c)'
    <3>1. Tidy(c) /\ JobsOf(c)' = JobsOf(c) /\ \A q \in Promoters : Seen(q)' = Seen(q)
      BY <1>0, <1>4, <2>3 DEF SweepDepth, TypeOK, Seen
    <3>2. /\ UNCHANGED <<covered, picked>>
          /\ \A t \in Sweeps : pcs'[t] # "depth" => pcs'[t] = pcs[t]
      BY <1>4 DEF SweepDepth, TypeOK
    <3>q. QED
      BY <1>4, <3>1, <3>2 DEF SweepDepth, Tidy, UpToDate
  <2>4. UNCHANGED <<content, jobs, made, raced, faults>>
    BY <1>4 DEF SweepDepth
  <2>q. QED
    BY <1>0, <2>2, <2>3, <2>4, LookStepInv DEF TypeOK
<1>5. ASSUME NEW s \in Sweeps, SweepCovered(s)
      PROVE  PipelineInv'
  <2>1. TypeOK'
    BY <1>5 DEF SweepCovered, TypeOK, Covered
  <2>2. ASSUME NEW c \in Contents \ raced PROVE UpToDate(c)'
    <3>1. Tidy(c) /\ JobsOf(c)' = JobsOf(c) /\ \A q \in Promoters : Seen(q)' = Seen(q)
      BY <1>0, <1>5, <2>2 DEF SweepCovered, TypeOK, Seen
    <3>2. c \notin Covered => \A i \in JobsOf(c) : jobs[i].status = "done"
      BY DEF Covered, JobsOf
    <3>3. /\ UNCHANGED <<picked, content, jobs>> /\ pcs'[s] = "covered" /\ covered'[s] = Covered
          /\ \A t \in Sweeps : t # s => pcs'[t] = pcs[t] /\ covered'[t] = covered[t]
      BY <1>5 DEF SweepCovered, TypeOK
    <3>q. QED
      BY <3>1, <3>2, <3>3 DEF Tidy, UpToDate
  <2>3. UNCHANGED <<content, jobs, made, raced, faults>>
    BY <1>5 DEF SweepCovered
  <2>q. QED
    BY <1>0, <2>1, <2>2, <2>3, LookStepInv DEF TypeOK
<1>6. ASSUME NEW s \in Sweeps, SweepPick(s)
      PROVE  PipelineInv'
  <2>1. Picks(s) \subseteq Contents
    BY PipelineAssumption DEF Picks, Backlog
  <2>2. TypeOK'
    <3>1. 0 \in 0..Threshold
      BY PipelineAssumption
    <3>q. QED
      BY <1>6, <2>1, <3>1 DEF SweepPick, TypeOK
  <2>3. ASSUME NEW c \in Contents \ raced PROVE UpToDate(c)'
    <3>1. Tidy(c) /\ JobsOf(c)' = JobsOf(c) /\ \A q \in Promoters : Seen(q)' = Seen(q)
      BY <1>0, <1>6, <2>3 DEF SweepPick, TypeOK, Seen
    <3>2. c \in Picks(s) => content[c] = "pending" /\ c \notin covered[s]
      BY DEF Picks, Backlog
    <3>3. c \in Picks(s) => JobsOf(c) = {}
      BY <1>6, <3>1, <3>2 DEF SweepPick, Tidy, UpToDate, Stored
    <3>4. /\ UNCHANGED <<content, jobs>> /\ pcs'[s] \in {"idle", "picked"} /\ picked'[s] = Picks(s)
          /\ \A t \in Sweeps : t # s => pcs'[t] = pcs[t] /\ covered'[t] = covered[t] /\ picked'[t] = picked[t]
      BY <1>6 DEF SweepPick, TypeOK
    <3>q. QED
      BY <3>1, <3>2, <3>3, <3>4 DEF Tidy, UpToDate
  <2>4. UNCHANGED <<content, jobs, made, raced, faults>>
    BY <1>6 DEF SweepPick
  <2>q. QED
    BY <1>0, <2>2, <2>3, <2>4, LookStepInv DEF TypeOK
<1>7. ASSUME NEW s \in Sweeps, SweepCommit(s)
      PROVE  PipelineInv'
  BY <1>7, SweepCommitInv
<1>8. ASSUME NEW i \in Ids, Handle(i) \/ Lost(i) \/ Cancel(i)
      PROVE  PipelineInv'
  BY <1>8, JobStepInv
<1>9. CASE UNCHANGED vars
  <2>1. \A c : JobsOf(c)' = JobsOf(c) /\ \A p \in Promoters : Seen(p)' = Seen(p)
    BY <1>9 DEF vars, JobsOf, Ids, Seen
  <2>2. TypeOK'
    BY <1>9 DEF vars, sweepVars, TypeOK
  <2>3. ASSUME NEW c \in Contents \ raced PROVE UpToDate(c)'
    BY <1>9, <2>1, <2>3 DEF vars, sweepVars, Tidy, UpToDate
  <2>q. QED
    BY <1>0, <1>9, <2>2, <2>3, LookStepInv DEF vars, TypeOK
<1>q. QED
  BY <1>1, <1>2, <1>3, <1>4, <1>5, <1>6, <1>7, <1>8, <1>9 DEF Next, Promote, Sweep

-----------------------------------------------------------------------------
\* At most one transcription of an episode is in flight, unless two handlers
\* decided about it at once (process_content jobs of promoters and sweeps).
THEOREM InFlightOnce == Spec => []SingleFlight
<1>1. PipelineInv => SingleFlight
  BY DEF PipelineInv, Tidy, OneJob, JobsOf, SingleFlight
<1>q. QED
  BY <1>1, PipelineInitInv, PipelineStepInv, PTL DEF Spec

\* An episode is transcribed again only for a report that was lost.
THEOREM StoredOnce == Spec => []TranscribedOnce
<1>1. PipelineInv => TranscribedOnce
  <2> SUFFICES ASSUME PipelineInv, NEW c \in Contents \ raced
               PROVE  made[c] <= 1 + faults
    BY DEF TranscribedOnce
  <2>1. MadeByFaults(c) /\ made[c] \in Nat /\ faults \in Nat
    BY DEF PipelineInv, TypeOK, Tidy
  <2>2. CASE JobsOf(c) = {}
    BY <2>1, <2>2 DEF MadeByFaults
  <2>3. CASE JobsOf(c) # {}
    <3>1. PICK i \in JobsOf(c) : TRUE
      BY <2>3
    <3>q. QED
      BY <2>1, <3>1 DEF MadeByFaults
  <2>q. QED
    BY <2>2, <2>3
<1>q. QED
  BY <1>1, PipelineInitInv, PipelineStepInv, PTL DEF Spec

\* No step takes a finished episode back: only a promoter could, and it saw the
\* episode cataloged.
LEMMA DoneStays ==
    ASSUME PipelineInv, Next, NEW c \in Contents \ raced', content[c] = "done"
    PROVE  content'[c] = "done"
<1>1. CASE \E p \in Promoters : PromoteCommit(p)
  <2>1. PICK p \in Promoters : PromoteCommit(p)
    BY <1>1
  <2>2. c \notin Seen(p)
    BY <2>1 DEF PromoteCommit, PipelineInv, Tidy, UpToDate
  <2>q. QED
    BY <2>1, <2>2 DEF PromoteCommit
<1>2. CASE \E i \in Ids : Transcribe(i)
  BY <1>2 DEF Transcribe, PipelineInv, TypeOK
<1>3. CASE UNCHANGED content
  BY <1>3
<1>q. QED
  BY <1>1, <1>2, <1>3
  DEF Next, Promote, Sweep, Handle, PromoteLook, PromoteAbort, SweepDepth, SweepCovered, SweepPick,
      SweepCommit, Start, Complete, Fail, Lost, Cancel

\* A finished transcript is never sent back (process_content's status writes
\* against a promoter's write by primary key).
THEOREM DoneForGood == Spec => DoneIsFinal
<1>1. PipelineInv /\ [Next]_vars =>
        [\A c \in Contents \ raced' : content[c] = "done" => content'[c] = "done"]_vars
  BY DoneStays
<1>q. QED
  BY <1>1, PipelineInitInv, PipelineStepInv, PTL DEF Spec, DoneIsFinal

\* Types of the episodes, their jobs, and what promoters and sweeps have read.
THEOREM PipelineTypes == Spec => []TypeOK
<1>1. PipelineInv => TypeOK
  BY DEF PipelineInv
<1>q. QED
  BY <1>1, PipelineInitInv, PipelineStepInv, PTL DEF Spec
=============================================================================
