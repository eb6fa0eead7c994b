--------------------------- MODULE JobQueueProofs ---------------------------
(* Safety of JobQueue for every number of jobs, workers, permits and faults. *)
EXTENDS JobQueue, FiniteSetTheorems, TLAPS

\* A worker has a job in hand exactly between its claim and its dispatch.
HandShape ==
    \A w \in Workers : hand[w] # NoExec <=> pc[w] \in {"demote", "acquire"}

\* The semaphore's count and the task set agree; the set is finite.
PermitsInv ==
    \A w \in Workers :
        /\ IsFiniteSet(tasks[w])
        /\ permits[w] + Cardinality(tasks[w]) = MaxConcurrency
        /\ hand[w] \notin tasks[w]

\* No live execution is ahead of its row's attempts.
NewestAttempt ==
    \A w \in Workers : \A e \in Held(w) : e.att <= attempts[e.job]

\* While a claimed job's backpressure check runs, nothing claims or reclaims it.
CheckedRow ==
    \A w \in Workers : pc[w] = "demote" =>
        /\ attempts[hand[w].job] = hand[w].att
        /\ ~stale[hand[w].job]
        /\ status[hand[w].job] # "absent"
        /\ status[hand[w].job] \in Queued => ~due[hand[w].job]

IInv ==
    TypeOK /\ HandShape /\ PermitsInv /\ NewestAttempt /\ CheckedRow /\ ExclusiveExecution

-----------------------------------------------------------------------------
(* Proofs. *)

\* Two live executions of an undisturbed job are one and the same.
LEMMA SoleHolder ==
    ASSUME TypeOK, ExclusiveExecution,
           NEW v \in Workers, NEW w \in Workers, NEW d \in Held(v), NEW e \in Held(w),
           d \in Execs, e \in Execs, d.job = e.job, e.job \notin disturbed
    PROVE  v = w /\ d = e
  BY DEF ExclusiveExecution, Execs

\* The end of a task removes one execution and returns one permit.
LEMMA FinishReleases ==
    ASSUME TypeOK, HandShape, PermitsInv, NEW w \in Workers, NEW e, Finish(w, e)
    PROVE  PermitsInv' /\ HandShape' /\ permits' \in [Workers -> 0..MaxConcurrency]
<1>1. e \in tasks[w] /\ IsFiniteSet(tasks[w])
  BY DEF Finish, PermitsInv
<1>2. /\ IsFiniteSet(tasks[w] \ {e})
      /\ Cardinality(tasks[w] \ {e}) = Cardinality(tasks[w]) - 1
      /\ Cardinality(tasks[w] \ {e}) \in Nat
      /\ Cardinality(tasks[w]) \in Nat
  BY <1>1, FS_RemoveElement, FS_CardinalityType
<1>3. permits[w] + 1 \in 0..MaxConcurrency
  BY <1>2, QueueAssumption DEF TypeOK, PermitsInv
<1>4. permits' \in [Workers -> 0..MaxConcurrency]
  BY <1>3 DEF TypeOK, Finish
<1>5. PermitsInv'
  BY <1>2, QueueAssumption DEF TypeOK, PermitsInv, Finish
<1>6. HandShape'
  BY DEF HandShape, Finish
<1>q. QED
  BY <1>4, <1>5, <1>6

\* The initial state, where the table is empty and every worker polls.
THEOREM InitInv == Init => IInv
<1> SUFFICES ASSUME Init PROVE IInv
  OBVIOUS
<1>1. TypeOK
  BY QueueAssumption DEF Init, TypeOK, Statuses
<1>2. HandShape /\ NewestAttempt /\ CheckedRow /\ ExclusiveExecution
  BY DEF Init, HandShape, NewestAttempt, CheckedRow, ExclusiveExecution, Held
<1>3. PermitsInv
  BY FS_EmptySet, QueueAssumption DEF Init, PermitsInv
<1>q. QED
  BY <1>1, <1>2, <1>3 DEF IInv

\* Every step, one per action of a row, of a worker's loop, of its tasks.
THEOREM StepInv == IInv /\ [Next]_vars => IInv'
<1> SUFFICES ASSUME IInv, [Next]_vars PROVE IInv'
  OBVIOUS
<1>. TypeOK /\ HandShape /\ PermitsInv /\ NewestAttempt /\ CheckedRow /\ ExclusiveExecution
  BY DEF IInv
<1> USE DEF Execs, Queued, Terminal, Statuses, procVars
<1>1. ASSUME NEW j \in Jobs, Enqueue(j)
      PROVE  IInv'
  <2>1. TypeOK'
    BY <1>1, QueueAssumption DEF TypeOK, Enqueue
  <2>2. HandShape' /\ PermitsInv'
    BY <1>1 DEF HandShape, PermitsInv, Enqueue
  <2>3. NewestAttempt' /\ CheckedRow'
    BY <1>1 DEF TypeOK, HandShape, NewestAttempt, CheckedRow, Held, Enqueue
  <2>4. ExclusiveExecution'
    BY <1>1 DEF TypeOK, ExclusiveExecution, Held, Enqueue
  <2>q. QED
    BY <2>1, <2>2, <2>3, <2>4 DEF IInv
<1>2. ASSUME NEW j \in Jobs, AdminCancelRead(j)
      PROVE  IInv'
  <2>1. TypeOK'
    BY <1>2 DEF TypeOK, AdminCancelRead, rowVars
  <2>2. HandShape' /\ PermitsInv'
    BY <1>2 DEF HandShape, PermitsInv, AdminCancelRead
  <2>3. NewestAttempt' /\ CheckedRow'
    BY <1>2 DEF TypeOK, HandShape, NewestAttempt, CheckedRow, Held, AdminCancelRead, rowVars
  <2>4. ExclusiveExecution'
    BY <1>2 DEF TypeOK, ExclusiveExecution, Held, AdminCancelRead, rowVars
  <2>q. QED
    BY <2>1, <2>2, <2>3, <2>4 DEF IInv
<1>3. ASSUME NEW j \in Jobs, AdminCancelWrite(j)
      PROVE  IInv'
  <2>1. TypeOK'
    BY <1>3 DEF TypeOK, AdminCancelWrite
  <2>2. HandShape' /\ PermitsInv'
    BY <1>3 DEF HandShape, PermitsInv, AdminCancelWrite
  <2>3. NewestAttempt' /\ CheckedRow'
    BY <1>3 DEF TypeOK, HandShape, NewestAttempt, CheckedRow, Held, AdminCancelWrite
  <2>4. ExclusiveExecution'
    BY <1>3 DEF TypeOK, ExclusiveExecution, Held, AdminCancelWrite
  <2>q. QED
    BY <2>1, <2>2, <2>3, <2>4 DEF IInv
<1>4. ASSUME NEW j \in Jobs, AgentCancel(j)
      PROVE  IInv'
  <2>1. TypeOK'
    BY <1>4 DEF TypeOK, AgentCancel
  <2>2. HandShape' /\ PermitsInv'
    BY <1>4 DEF HandShape, PermitsInv, AgentCancel
  <2>3. NewestAttempt' /\ CheckedRow'
    BY <1>4 DEF TypeOK, HandShape, NewestAttempt, CheckedRow, Held, AgentCancel
  <2>4. ExclusiveExecution'
    BY <1>4 DEF TypeOK, ExclusiveExecution, Held, AgentCancel
  <2>q. QED
    BY <2>1, <2>2, <2>3, <2>4 DEF IInv
<1>5. ASSUME NEW j \in Jobs, BecomeDue(j)
      PROVE  IInv'
  <2>1. TypeOK'
    BY <1>5 DEF TypeOK, BecomeDue, Unchecked
  <2>2. HandShape' /\ PermitsInv'
    BY <1>5 DEF HandShape, PermitsInv, BecomeDue
  <2>3. NewestAttempt' /\ CheckedRow'
    BY <1>5 DEF TypeOK, HandShape, NewestAttempt, CheckedRow, Held, BecomeDue, Unchecked
  <2>4. ExclusiveExecution'
    BY <1>5 DEF TypeOK, ExclusiveExecution, Held, BecomeDue, Unchecked
  <2>q. QED
    BY <2>1, <2>2, <2>3, <2>4 DEF IInv
<1>6. ASSUME NEW j \in Jobs, BecomeStale(j)
      PROVE  IInv'
  <2>1. TypeOK'
    BY <1>6 DEF TypeOK, BecomeStale, Unchecked
  <2>2. HandShape' /\ PermitsInv'
    BY <1>6 DEF HandShape, PermitsInv, BecomeStale
  <2>3. NewestAttempt' /\ CheckedRow'
    BY <1>6 DEF TypeOK, HandShape, NewestAttempt, CheckedRow, Held, BecomeStale, Unchecked
  <2>4. ExclusiveExecution'
    BY <1>6 DEF TypeOK, ExclusiveExecution, Held, BecomeStale, Unchecked
  <2>q. QED
    BY <2>1, <2>2, <2>3, <2>4 DEF IInv
<1>7. ASSUME Reclaim
      PROVE  IInv'
  <2>1. TypeOK'
    BY <1>7 DEF TypeOK, Reclaim, StaleRows, Spent, Live
  <2>2. HandShape' /\ PermitsInv'
    BY <1>7 DEF HandShape, PermitsInv, Reclaim
  <2>3. NewestAttempt' /\ CheckedRow'
    BY <1>7 DEF TypeOK, HandShape, NewestAttempt, CheckedRow, Held, Reclaim,
       StaleRows, Spent, Live
  <2>4. ExclusiveExecution'
    BY <1>7 DEF TypeOK, ExclusiveExecution, Held, Reclaim, StaleRows, Spent, Live
  <2>q. QED
    BY <2>1, <2>2, <2>3, <2>4 DEF IInv
<1>8. ASSUME ToggleKillSwitch
      PROVE  IInv'
  <2>1. TypeOK'
    BY <1>8 DEF TypeOK, ToggleKillSwitch, rowVars
  <2>2. HandShape' /\ PermitsInv'
    BY <1>8 DEF HandShape, PermitsInv, ToggleKillSwitch
  <2>3. NewestAttempt' /\ CheckedRow'
    BY <1>8 DEF TypeOK, HandShape, NewestAttempt, CheckedRow, Held, ToggleKillSwitch,
       rowVars
  <2>4. ExclusiveExecution'
    BY <1>8 DEF TypeOK, ExclusiveExecution, Held, ToggleKillSwitch, rowVars
  <2>q. QED
    BY <2>1, <2>2, <2>3, <2>4 DEF IInv
<1>9. ASSUME NEW w \in Workers, Poll(w)
      PROVE  IInv'
  <2>1. TypeOK'
    BY <1>9 DEF TypeOK, Poll, rowVars
  <2>2. HandShape' /\ PermitsInv'
    BY <1>9 DEF TypeOK, HandShape, PermitsInv, Poll
  <2>3. NewestAttempt' /\ CheckedRow' /\ ExclusiveExecution'
    BY <1>9 DEF TypeOK, NewestAttempt, CheckedRow, ExclusiveExecution, Held, Poll, rowVars
  <2>q. QED
    BY <2>1, <2>2, <2>3 DEF IInv
<1>10. ASSUME NEW w \in Workers, ClaimNone(w)
      PROVE  IInv'
  <2>1. TypeOK'
    BY <1>10 DEF TypeOK, ClaimNone, rowVars
  <2>2. HandShape' /\ PermitsInv'
    BY <1>10 DEF TypeOK, HandShape, PermitsInv, ClaimNone
  <2>3. NewestAttempt' /\ CheckedRow' /\ ExclusiveExecution'
    BY <1>10 DEF TypeOK, NewestAttempt, CheckedRow, ExclusiveExecution, Held,
       ClaimNone, rowVars
  <2>q. QED
    BY <2>1, <2>2, <2>3 DEF IInv
<1>11. ASSUME NEW w \in Workers, ClaimError(w)
      PROVE  IInv'
  <2>1. TypeOK'
    BY <1>11, QueueAssumption DEF TypeOK, ClaimError, Spend, rowVars
  <2>2. HandShape' /\ PermitsInv'
    BY <1>11 DEF TypeOK, HandShape, PermitsInv, ClaimError, Spend
  <2>3. NewestAttempt' /\ CheckedRow' /\ ExclusiveExecution'
    BY <1>11 DEF TypeOK, NewestAttempt, CheckedRow, ExclusiveExecution, Held,
       ClaimError, Spend, rowVars
  <2>q. QED
    BY <2>1, <2>2, <2>3 DEF IInv
<1>12. ASSUME NEW w \in Workers, Stop(w)
      PROVE  IInv'
  <2>1. TypeOK'
    BY <1>12, QueueAssumption DEF TypeOK, Stop, Spend, rowVars
  <2>2. HandShape' /\ PermitsInv'
    BY <1>12 DEF TypeOK, HandShape, PermitsInv, Stop, Spend
  <2>3. NewestAttempt' /\ CheckedRow' /\ ExclusiveExecution'
    BY <1>12 DEF TypeOK, NewestAttempt, CheckedRow, ExclusiveExecution, Held, Stop,
       Spend, rowVars
  <2>q. QED
    BY <2>1, <2>2, <2>3 DEF IInv
<1>13. ASSUME NEW w \in Workers, LeaveLoop(w)
      PROVE  IInv'
  <2>1. TypeOK'
    BY <1>13 DEF TypeOK, LeaveLoop, rowVars
  <2>2. HandShape' /\ PermitsInv'
    BY <1>13 DEF TypeOK, HandShape, PermitsInv, LeaveLoop
  <2>3. NewestAttempt' /\ CheckedRow' /\ ExclusiveExecution'
    BY <1>13 DEF TypeOK, NewestAttempt, CheckedRow, ExclusiveExecution, Held,
       LeaveLoop, rowVars
  <2>q. QED
    BY <2>1, <2>2, <2>3 DEF IInv
<1>14. ASSUME NEW w \in Workers, Restart(w)
      PROVE  IInv'
  <2>1. TypeOK'
    BY <1>14 DEF TypeOK, Restart, rowVars
  <2>2. HandShape' /\ PermitsInv'
    BY <1>14 DEF TypeOK, HandShape, PermitsInv, Restart
  <2>3. NewestAttempt' /\ CheckedRow' /\ ExclusiveExecution'
    BY <1>14 DEF TypeOK, NewestAttempt, CheckedRow, ExclusiveExecution, Held,
       Restart, rowVars
  <2>q. QED
    BY <2>1, <2>2, <2>3 DEF IInv
<1>15. ASSUME NEW w \in Workers, NEW j \in Jobs, Claim(w, j)
      PROVE  IInv'
  <2>1. TypeOK'
    BY <1>15, QueueAssumption DEF TypeOK, Claim, ClaimRow, Front, Eligible
  <2>2. HandShape' /\ PermitsInv'
    BY <1>15, QueueAssumption DEF TypeOK, HandShape, PermitsInv, NewestAttempt, Held,
       Claim, ClaimRow, Front, Eligible
  <2>3. NewestAttempt'
    BY <1>15 DEF TypeOK, HandShape, NewestAttempt, Held, Claim, ClaimRow, Front, Eligible
  <2>4. CheckedRow'
    BY <1>15 DEF TypeOK, HandShape, CheckedRow, Claim, ClaimRow, Front, Eligible
  <2>5. ExclusiveExecution'
    BY <1>15 DEF TypeOK, HandShape, ExclusiveExecution, Held, Claim, ClaimRow, Front,
       Eligible
  <2>q. QED
    BY <2>1, <2>2, <2>3, <2>4, <2>5 DEF IInv
<1>16. ASSUME NEW w \in Workers, NEW j \in Jobs, ClaimLost(w, j)
      PROVE  IInv'
  <2>1. TypeOK'
    BY <1>16, QueueAssumption DEF TypeOK, ClaimLost, ClaimRow, Front, Eligible, Spend
  <2>2. HandShape' /\ PermitsInv'
    BY <1>16, QueueAssumption DEF TypeOK, HandShape, PermitsInv, NewestAttempt, Held,
       ClaimLost, ClaimRow, Front, Eligible, Spend
  <2>3. NewestAttempt'
    BY <1>16 DEF TypeOK, HandShape, NewestAttempt, Held, ClaimLost, ClaimRow, Front,
       Eligible, Spend
  <2>4. CheckedRow'
    BY <1>16 DEF TypeOK, HandShape, CheckedRow, ClaimLost, ClaimRow, Front, Eligible, Spend
  <2>5. ExclusiveExecution'
    BY <1>16 DEF TypeOK, HandShape, ExclusiveExecution, Held, ClaimLost, ClaimRow,
       Front, Eligible, Spend
  <2>q. QED
    BY <2>1, <2>2, <2>3, <2>4, <2>5 DEF IInv
<1>17. ASSUME NEW w \in Workers, Demote(w)
      PROVE  IInv'
  <2>1. hand[w] \in Execs /\ hand[w] \in Held(w) /\ attempts[hand[w].job] = hand[w].att
    BY <1>17 DEF TypeOK, HandShape, CheckedRow, Demote, Held
  <2>2. EffectivePriority(hand[w].job) \in 1..10
    BY <2>1 DEF TypeOK, EffectivePriority
  <2>3. attempts' = attempts
    BY <1>17, <2>1 DEF TypeOK, Demote, Merge, rowVars
  <2>4. TypeOK'
    <3>1. hand[w].job \in Jobs
      BY <2>1 DEF Execs
    <3>2. CASE Merge(w, hand[w])
      BY <1>17, <2>2, <2>3, <3>1, <3>2 DEF TypeOK, Demote, Merge
    <3>3. CASE UNCHANGED rowVars
      BY <1>17, <3>3 DEF TypeOK, Demote, rowVars
    <3>q. QED
      BY <1>17, <3>2, <3>3 DEF Demote
  <2>5. HandShape' /\ PermitsInv'
    BY <1>17 DEF TypeOK, HandShape, PermitsInv, Demote
  <2>6. NewestAttempt'
    BY <1>17, <2>3 DEF NewestAttempt, Held, Demote
  <2>7. CheckedRow'
    BY <1>17, <2>1, <2>3 DEF TypeOK, HandShape, CheckedRow, Demote, Merge, rowVars
  <2>8. ExclusiveExecution'
    BY <1>17, <2>1, <2>3 DEF TypeOK, ExclusiveExecution, Held, Demote, Merge, rowVars
  <2>q. QED
    BY <2>4, <2>5, <2>6, <2>7, <2>8 DEF IInv
<1>18. ASSUME NEW w \in Workers, Dispatch(w)
      PROVE  IInv'
  <2>1. hand[w] \in Execs
    BY <1>18 DEF TypeOK, HandShape, Dispatch
  <2>2. TypeOK'
    BY <1>18, <2>1, QueueAssumption DEF TypeOK, Dispatch, rowVars
  <2>3. /\ IsFiniteSet(tasks[w] \cup {hand[w]})
        /\ Cardinality(tasks[w] \cup {hand[w]}) = Cardinality(tasks[w]) + 1
        /\ Cardinality(tasks[w]) \in Nat
    BY FS_AddElement, FS_CardinalityType DEF PermitsInv
  <2>4. PermitsInv'
    <3> SUFFICES ASSUME NEW v \in Workers
                 PROVE  /\ IsFiniteSet(tasks'[v])
                        /\ permits'[v] + Cardinality(tasks'[v]) = MaxConcurrency
                        /\ hand'[v] \notin tasks'[v]
      BY DEF PermitsInv
    <3>1. CASE v = w
      <4>1. /\ tasks'[w] = tasks[w] \cup {hand[w]}
            /\ permits'[w] = permits[w] - 1
            /\ hand'[w] = NoExec
        BY <1>18 DEF TypeOK, Dispatch
      <4>2. NoExec \notin tasks'[w]
        BY <4>1, <2>1, QueueAssumption DEF TypeOK
      <4>3. permits[w] \in Int /\ permits[w] + Cardinality(tasks[w]) = MaxConcurrency
        BY QueueAssumption DEF TypeOK, PermitsInv
      <4>q. QED
        BY <3>1, <4>1, <4>2, <4>3, <2>3, QueueAssumption
    <3>2. CASE v # w
      BY <1>18, <3>2 DEF TypeOK, PermitsInv, Dispatch
    <3>q. QED
      BY <3>1, <3>2
  <2>5. HandShape'
    BY <1>18 DEF TypeOK, HandShape, Dispatch
  <2>6. \A v \in Workers : Held(v)' = Held(v)
    BY <1>18, <2>1, QueueAssumption DEF TypeOK, Held, Dispatch, Execs
  <2>7. NewestAttempt' /\ CheckedRow' /\ ExclusiveExecution'
    BY <1>18, <2>6 DEF TypeOK, NewestAttempt, CheckedRow, ExclusiveExecution,
       Dispatch, rowVars
  <2>q. QED
    BY <2>2, <2>4, <2>5, <2>7 DEF IInv
<1>19. ASSUME NEW w \in Workers, NEW e \in tasks[w], Complete(w, e)
      PROVE  IInv'
  <2>1. e \in Execs /\ e \in Held(w) /\ Finish(w, e)
    BY <1>19 DEF TypeOK, Held, Complete
  <2>2. PermitsInv' /\ HandShape' /\ permits' \in [Workers -> 0..MaxConcurrency]
    BY <2>1, FinishReleases
  <2>3. TypeOK'
    BY <1>19, <2>1, <2>2, QueueAssumption DEF TypeOK, Complete, Finish
  <2>4. NewestAttempt' /\ CheckedRow'
    BY <1>19, <2>1 DEF TypeOK, HandShape, NewestAttempt, CheckedRow, Held, Complete, Finish
  <2>5. ExclusiveExecution'
    <3> SUFFICES ASSUME NEW v \in Workers, NEW x \in Held(v)', x.job \notin disturbed'
                 PROVE  /\ status'[x.job] = "running"
                        /\ owner'[x.job] = v
                        /\ attempts'[x.job] = x.att
      BY DEF ExclusiveExecution
    <3>1. x \in Held(v) /\ x.job \notin disturbed /\ (v = w => x # e)
      BY <2>1 DEF TypeOK, PermitsInv, Held, Finish
    <3>2. x \in Execs
      BY <3>1, QueueAssumption DEF TypeOK, HandShape, Held
    <3>3. x.job # e.job
      BY <2>1, <3>1, <3>2, SoleHolder
    <3>q. QED
      BY <1>19, <2>1, <3>1, <3>2, <3>3 DEF TypeOK, ExclusiveExecution, Complete
  <2>q. QED
    BY <2>2, <2>3, <2>4, <2>5 DEF IInv
<1>20. ASSUME NEW w \in Workers, NEW e \in tasks[w], FailWrite(w, e)
      PROVE  IInv'
  <2>1. e \in Execs /\ e \in Held(w) /\ Finish(w, e)
    BY <1>20 DEF TypeOK, Held, FailWrite
  <2>2. PermitsInv' /\ HandShape' /\ permits' \in [Workers -> 0..MaxConcurrency]
    BY <2>1, FinishReleases
  <2>3. TypeOK'
    <3>1. /\ status' \in [Jobs -> Statuses]
          /\ due' \in [Jobs -> BOOLEAN]
          /\ owner' \in [Jobs -> Workers \cup {NoWorker}]
          /\ overtaken' \subseteq Jobs
      BY <1>20, <2>1 DEF TypeOK, Statuses, FailWrite, FailRow
    <3>2. /\ tasks' \in [Workers -> SUBSET Execs]
          /\ reads' \in [Workers -> SUBSET Reads]
      BY <2>1 DEF TypeOK, Finish
    <3>q. QED
      BY <1>20, <2>2, <3>1, <3>2 DEF TypeOK, FailWrite, Finish
  <2>4. NewestAttempt' /\ CheckedRow'
    BY <1>20, <2>1 DEF TypeOK, HandShape, NewestAttempt, CheckedRow, Held, FailWrite,
       FailRow, Finish
  <2>5. ExclusiveExecution'
    <3> SUFFICES ASSUME NEW v \in Workers, NEW x \in Held(v)', x.job \notin disturbed'
                 PROVE  /\ status'[x.job] = "running"
                        /\ owner'[x.job] = v
                        /\ attempts'[x.job] = x.att
      BY DEF ExclusiveExecution
    <3>1. x \in Held(v) /\ x.job \notin disturbed /\ (v = w => x # e)
      BY <2>1 DEF TypeOK, PermitsInv, Held, Finish
    <3>2. x \in Execs
      BY <3>1, QueueAssumption DEF TypeOK, HandShape, Held
    <3>3. x.job # e.job
      BY <2>1, <3>1, <3>2, SoleHolder
    <3>q. QED
      BY <1>20, <2>1, <3>1, <3>2, <3>3 DEF TypeOK, ExclusiveExecution, FailWrite, FailRow
  <2>q. QED
    BY <2>2, <2>3, <2>4, <2>5 DEF IInv
<1>21. ASSUME NEW w \in Workers, NEW e \in tasks[w], ReportLost(w, e)
      PROVE  IInv'
  <2>1. e \in Execs /\ e \in Held(w) /\ Finish(w, e)
    BY <1>21 DEF TypeOK, Held, ReportLost
  <2>2. PermitsInv' /\ HandShape' /\ permits' \in [Workers -> 0..MaxConcurrency]
    BY <2>1, FinishReleases
  <2>3. TypeOK'
    BY <1>21, <2>1, <2>2, QueueAssumption DEF TypeOK, ReportLost, Finish, Spend, rowVars
  <2>4. NewestAttempt' /\ CheckedRow'
    BY <1>21, <2>1 DEF TypeOK, HandShape, NewestAttempt, CheckedRow, Held,
       ReportLost, Finish, Spend, rowVars
  <2>5. ExclusiveExecution'
    BY <1>21, <2>1 DEF TypeOK, ExclusiveExecution, Held, ReportLost, Finish, Spend, rowVars
  <2>q. QED
    BY <2>2, <2>3, <2>4, <2>5 DEF IInv
<1>22. ASSUME NEW w \in Workers, DrainEnd(w)
      PROVE  IInv'
  <2>1. TypeOK'
    BY <1>22, QueueAssumption DEF TypeOK, DrainEnd, Gone, rowVars
  <2>2. HandShape' /\ PermitsInv'
    BY <1>22, FS_EmptySet, QueueAssumption DEF TypeOK, HandShape, PermitsInv, DrainEnd, Gone
  <2>3. NewestAttempt' /\ CheckedRow' /\ ExclusiveExecution'
    BY <1>22 DEF TypeOK, NewestAttempt, CheckedRow, ExclusiveExecution, Held,
       DrainEnd, Gone, rowVars
  <2>q. QED
    BY <2>1, <2>2, <2>3 DEF IInv
<1>23. ASSUME NEW w \in Workers, Crash(w)
      PROVE  IInv'
  <2>1. TypeOK'
    BY <1>23, QueueAssumption DEF TypeOK, Crash, Gone, Spend, rowVars
  <2>2. HandShape' /\ PermitsInv'
    BY <1>23, FS_EmptySet, QueueAssumption DEF TypeOK, HandShape, PermitsInv, Crash,
       Gone, Spend
  <2>3. NewestAttempt' /\ CheckedRow' /\ ExclusiveExecution'
    BY <1>23 DEF TypeOK, NewestAttempt, CheckedRow, ExclusiveExecution, Held, Crash,
       Gone, Spend, rowVars
  <2>q. QED
    BY <2>1, <2>2, <2>3 DEF IInv
<1>24. ASSUME NEW w \in Workers, NEW e \in tasks[w], FailRead(w, e)
      PROVE  IInv'
  <2>1. TypeOK'
    BY <1>24 DEF TypeOK, FailRead, Reads, rowVars
  <2>2. HandShape' /\ PermitsInv'
    BY <1>24 DEF HandShape, PermitsInv, FailRead
  <2>3. NewestAttempt' /\ CheckedRow' /\ ExclusiveExecution'
    BY <1>24 DEF NewestAttempt, CheckedRow, ExclusiveExecution, Held, FailRead, rowVars
  <2>q. QED
    BY <2>1, <2>2, <2>3 DEF IInv
<1>25. CASE UNCHANGED vars
  BY <1>25 DEF vars, rowVars, procVars, IInv, TypeOK, HandShape, PermitsInv, NewestAttempt,
             CheckedRow, ExclusiveExecution, Held
<1>q. QED
  BY <1>1, <1>2, <1>3, <1>4, <1>5, <1>6, <1>7, <1>8, <1>9, <1>10, <1>11, <1>12,
     <1>13, <1>14, <1>15, <1>16, <1>17, <1>18, <1>19, <1>20, <1>21, <1>22, <1>23, <1>24, <1>25
     DEF Next, Loop, Row, ClaimStep, Report

THEOREM Invariance == Spec => []IInv
  BY InitInv, StepInv, PTL DEF Spec

\* Every variable keeps its type.
THEOREM TypeCorrect == Spec => []TypeOK
<1>1. IInv => TypeOK
  BY DEF IInv
<1>q. QED
  BY <1>1, Invariance, PTL

\* One live execution per job, until the job is reclaimed or cancelled under it.
THEOREM Exclusive == Spec => []ExclusiveExecution
<1>1. IInv => ExclusiveExecution
  BY DEF IInv
<1>q. QED
  BY <1>1, Invariance, PTL

\* No way through a task leaks or forges a permit of the semaphore.
THEOREM Permits == Spec => []PermitsAccounted
<1>1. IInv => PermitsAccounted
  BY DEF IInv, PermitsInv, PermitsAccounted
<1>q. QED
  BY <1>1, Invariance, PTL

-----------------------------------------------------------------------------
(* What follows from the invariant, or on top of it.                       *)

\* No step reopens a finished row of an undisturbed job: every write that is
\* not guarded by the status comes from a holder, whose row is running.
LEMMA FinalStep ==
    IInv /\ [Next]_vars =>
        \A j \in Jobs \ disturbed' : status[j] \in Terminal => status'[j] = status[j]
<1> SUFFICES ASSUME IInv, [Next]_vars, NEW i \in Jobs \ disturbed', status[i] \in Terminal
             PROVE  status'[i] = status[i]
  OBVIOUS
<1>. TypeOK /\ HandShape /\ ExclusiveExecution
  BY DEF IInv
<1> USE DEF Queued, Terminal
<1>1. ASSUME NEW j \in Jobs, Row(j)
      PROVE  status'[i] = status[i]
  BY <1>1 DEF Row, TypeOK, Enqueue, AdminCancelRead, AdminCancelWrite, AgentCancel,
              BecomeDue, BecomeStale, rowVars
<1>2. CASE Reclaim \/ ToggleKillSwitch \/ UNCHANGED vars
  BY <1>2 DEF Reclaim, StaleRows, ToggleKillSwitch, vars, rowVars, TypeOK
<1>3. ASSUME NEW w \in Workers,
             Poll(w) \/ ClaimNone(w) \/ ClaimError(w) \/ Dispatch(w) \/ Stop(w)
             \/ LeaveLoop(w) \/ DrainEnd(w) \/ Crash(w) \/ Restart(w)
      PROVE  status'[i] = status[i]
  BY <1>3 DEF Poll, ClaimNone, ClaimError, Dispatch, Stop, LeaveLoop, DrainEnd, Crash,
              Gone, Restart, rowVars
<1>4. ASSUME NEW w \in Workers, NEW j \in Jobs, Claim(w, j) \/ ClaimLost(w, j)
      PROVE  status'[i] = status[i]
  BY <1>4 DEF TypeOK, Claim, ClaimLost, ClaimRow, Front, Eligible
<1>5. ASSUME NEW w \in Workers, Demote(w)
      PROVE  status'[i] = status[i]
  <2>1. hand[w] \in Held(w) /\ disturbed' = disturbed
    BY <1>5 DEF HandShape, Demote, Held
  <2>2. hand[w].job # i
    BY <2>1 DEF ExclusiveExecution
  <2>q. QED
    BY <1>5, <2>2 DEF TypeOK, Demote, Merge, rowVars
<1>6. ASSUME NEW w \in Workers, NEW e \in tasks[w],
             Complete(w, e) \/ FailRead(w, e) \/ FailWrite(w, e) \/ ReportLost(w, e)
      PROVE  status'[i] = status[i]
  <2>1. e \in Held(w) /\ disturbed' = disturbed
    BY <1>6 DEF Complete, FailRead, FailWrite, ReportLost, Finish, Held
  <2>2. e.job # i
    BY <2>1 DEF ExclusiveExecution
  <2>q. QED
    BY <1>6, <2>2 DEF TypeOK, Complete, FailRead, FailWrite, FailRow, ReportLost, rowVars
<1>q. QED
  BY <1>1, <1>2, <1>3, <1>4, <1>5, <1>6 DEF Next, Loop, ClaimStep, Report

\* A finished row is final unless its job was disturbed.
THEOREM Final == Spec => TerminalIsFinal
<1>1. IInv /\ [Next]_vars =>
        [\A j \in Jobs \ disturbed' : status[j] \in Terminal => status'[j] = status[j]]_vars
  BY FinalStep
<1>q. QED
  BY <1>1, Invariance, PTL DEF Spec, TerminalIsFinal

\* AttemptsBounded, with what a running row adds to it: reclaim counts one more
\* attempt on a running row, so a running row must be within the limit itself.
AttemptsInv ==
    /\ AttemptsBounded
    /\ \A j \in Jobs :
          /\ j \notin overtaken /\ status[j] = "running" => attempts[j] <= Limit(j)
          /\ status[j] = "absent" => attempts[j] = 0

LEMMA AttemptsStep == IInv /\ AttemptsInv /\ [Next]_vars => AttemptsInv'
<1> SUFFICES ASSUME IInv, AttemptsInv, [Next]_vars
             PROVE  AttemptsInv'
  OBVIOUS
<1>. TypeOK /\ HandShape /\ CheckedRow
  BY DEF IInv
<1>. \A j \in Jobs : Limit(j) \in Nat /\ RowMax[j] <= Limit(j) /\ TypeMax[j] <= Limit(j)
                     /\ Limit(j) >= 1
  BY QueueAssumption DEF Limit
<1> USE DEF Queued, Terminal, Execs, AttemptsInv, AttemptsBounded
<1>1. ASSUME NEW j \in Jobs, Row(j)
      PROVE  AttemptsInv'
  <2>1. procVars' = procVars /\ attempts' = attempts /\ overtaken' = overtaken
    BY <1>1 DEF Row, Enqueue, AdminCancelRead, AdminCancelWrite, AgentCancel, BecomeDue,
                BecomeStale, rowVars
  <2>2. CASE Enqueue(j)
    BY <2>1, <2>2 DEF TypeOK, Held, procVars, Enqueue
  <2>3. CASE ~Enqueue(j)
    BY <1>1, <2>1, <2>3 DEF Row, TypeOK, Held, procVars, AdminCancelRead, AdminCancelWrite,
       AgentCancel, BecomeDue, BecomeStale, rowVars
  <2>q. QED
    BY <2>2, <2>3
<1>2. CASE Reclaim
  BY <1>2, QueueAssumption DEF TypeOK, Held, procVars, Reclaim, StaleRows, Spent
<1>3. CASE ToggleKillSwitch \/ UNCHANGED vars
  BY <1>3 DEF ToggleKillSwitch, vars, rowVars, procVars, Held
<1>4. ASSUME NEW w \in Workers,
             Poll(w) \/ ClaimNone(w) \/ ClaimError(w) \/ Dispatch(w) \/ Stop(w)
             \/ LeaveLoop(w) \/ DrainEnd(w) \/ Crash(w) \/ Restart(w)
      PROVE  AttemptsInv'
  <2>1. \A v \in Workers : Held(v)' \subseteq Held(v)
    BY <1>4, QueueAssumption DEF TypeOK, HandShape, Held, Poll, ClaimNone, ClaimError,
       Dispatch, Stop, LeaveLoop, DrainEnd, Crash, Gone, Restart
  <2>2. rowVars' = rowVars /\ overtaken' = overtaken
    BY <1>4 DEF Poll, ClaimNone, ClaimError, Dispatch, Stop, LeaveLoop, DrainEnd, Crash,
       Gone, Restart
  <2>q. QED
    BY <2>1, <2>2 DEF rowVars
<1>5. ASSUME NEW w \in Workers, NEW j \in Jobs, Claim(w, j) \/ ClaimLost(w, j)
      PROVE  AttemptsInv'
  <2>1. status[j] \in Queued
    BY <1>5 DEF Claim, ClaimLost, Front, Eligible
  <2>2. \A v \in Workers : \A e \in Held(v)' :
           e \in Held(v) \/ e = [job |-> j, att |-> attempts[j] + 1]
    BY <1>5 DEF TypeOK, Held, Claim, ClaimLost, ClaimRow
  <2>q. QED
    BY <1>5, <2>1, <2>2 DEF TypeOK, Claim, ClaimLost, ClaimRow
<1>6. ASSUME NEW w \in Workers, Demote(w)
      PROVE  AttemptsInv'
  <2>1. /\ hand[w] \in Execs /\ hand[w] \in Held(w)
        /\ attempts[hand[w].job] = hand[w].att /\ status[hand[w].job] # "absent"
    BY <1>6 DEF TypeOK, HandShape, CheckedRow, Demote, Held
  <2>. hand[w].job \notin overtaken => hand[w].att <= Limit(hand[w].job)
    BY <2>1
  <2>2. attempts' = attempts /\ overtaken' = overtaken /\ \A v \in Workers : Held(v)' = Held(v)
    BY <1>6, <2>1 DEF TypeOK, Held, Demote, Merge, rowVars
  <2>3. \A j \in Jobs : status'[j] = status[j]
                        \/ /\ status[j] # "absent" /\ status'[j] = "running"
                           /\ j \notin overtaken => attempts[j] <= Limit(j)
    BY <1>6, <2>1 DEF TypeOK, Demote, Merge, rowVars
  <2>q. QED
    BY <2>2, <2>3
<1>7. ASSUME NEW w \in Workers, NEW e \in tasks[w],
             Complete(w, e) \/ FailRead(w, e) \/ FailWrite(w, e) \/ ReportLost(w, e)
      PROVE  AttemptsInv'
  <2>1. e \in Execs /\ attempts' = attempts
    BY <1>7 DEF TypeOK, Complete, FailRead, FailWrite, ReportLost, rowVars
  <2>2. \A v \in Workers : Held(v)' \subseteq Held(v)
    BY <1>7 DEF TypeOK, Held, Complete, FailRead, FailWrite, ReportLost, Finish
  <2>3. overtaken \subseteq overtaken'
    BY <1>7 DEF Complete, FailRead, FailWrite, FailRow, ReportLost
  <2>4. ASSUME NEW j \in Jobs
        PROVE  \/ status'[j] = status[j]
               \/ status'[j] \in {"done", "failed"}
               \/ status'[j] = "retrying" /\ (j \in overtaken' \/ attempts[j] < Limit(j))
    <3>1. CASE FailWrite(w, e)
      <4>1. PICK r \in reads[w] : r.exec = e /\ FailRow(r)
        BY <3>1 DEF FailWrite
      <4>2. MaxAttempts(e.job) <= Limit(e.job) /\ MaxAttempts(e.job) \in Nat
        BY <2>1, QueueAssumption DEF MaxAttempts
      <4>3. CASE Retries(r) /\ r.att = attempts[e.job]
        BY <2>1, <4>1, <4>2, <4>3 DEF TypeOK, FailRow, Retries
      <4>4. CASE Retries(r) /\ r.att # attempts[e.job]
        BY <2>1, <4>1, <4>4 DEF TypeOK, FailRow
      <4>5. CASE ~Retries(r)
        BY <2>1, <4>1, <4>5 DEF TypeOK, FailRow
      <4>q. QED
        BY <4>3, <4>4, <4>5
    <3>2. CASE ~FailWrite(w, e)
      BY <1>7, <2>1, <3>2 DEF TypeOK, Complete, FailRead, ReportLost, rowVars
    <3>q. QED
      BY <3>1, <3>2
  <2>q. QED
    BY <2>1, <2>2, <2>3, <2>4
<1>q. QED
  BY <1>1, <1>2, <1>3, <1>4, <1>5, <1>6, <1>7 DEF Next, Loop, ClaimStep, Report

\* No execution starts beyond the larger of the two retry limits, unless a
\* reclaim came between fail_job's read of the row and its write.
THEOREM Attempts == Spec => []AttemptsBounded
<1>1. Init => AttemptsInv
  BY QueueAssumption DEF Init, AttemptsInv, AttemptsBounded, Held, Limit, Queued
<1>2. AttemptsInv => AttemptsBounded
  BY DEF AttemptsInv
<1>q. QED
  BY <1>1, <1>2, AttemptsStep, Invariance, PTL DEF Spec

\* A worker that claimed late has left the claim and cannot poll again before
\* the switch is back on, or before it has restarted.
LateInv ==
    \A w \in Workers :
        \/ late[w] = 0
        \/ late[w] = 1 /\ pc[w] # "claim" /\ (~active \/ stopping[w])

LEMMA LateStep == TypeOK /\ LateInv /\ [Next]_vars => LateInv'
<1> SUFFICES ASSUME TypeOK, LateInv, [Next]_vars
             PROVE  LateInv'
  OBVIOUS
<1> USE DEF LateInv, TypeOK
<1>1. ASSUME NEW j \in Jobs, Row(j)
      PROVE  LateInv'
  BY <1>1 DEF Row, Enqueue, AdminCancelRead, AdminCancelWrite, AgentCancel, BecomeDue,
     BecomeStale, procVars
<1>2. CASE Reclaim \/ ToggleKillSwitch \/ UNCHANGED vars
  BY <1>2 DEF Reclaim, ToggleKillSwitch, vars, procVars
<1>3. ASSUME NEW w \in Workers, NEW j \in Jobs, Claim(w, j) \/ ClaimLost(w, j)
      PROVE  LateInv'
  BY <1>3 DEF Claim, ClaimLost, ClaimRow
<1>4. ASSUME NEW w \in Workers,
             Poll(w) \/ ClaimNone(w) \/ ClaimError(w) \/ Demote(w) \/ Dispatch(w)
      PROVE  LateInv'
  BY <1>4 DEF Poll, ClaimNone, ClaimError, Demote, Dispatch
<1>5. ASSUME NEW w \in Workers, NEW e \in tasks[w],
             Complete(w, e) \/ FailRead(w, e) \/ FailWrite(w, e) \/ ReportLost(w, e)
      PROVE  LateInv'
  BY <1>5 DEF Complete, FailRead, FailWrite, ReportLost, Finish
<1>6. ASSUME NEW w \in Workers,
             Stop(w) \/ LeaveLoop(w) \/ DrainEnd(w) \/ Crash(w) \/ Restart(w)
      PROVE  LateInv'
  BY <1>6 DEF Stop, LeaveLoop, DrainEnd, Crash, Gone, Restart
<1>q. QED
  BY <1>1, <1>2, <1>3, <1>4, <1>5, <1>6 DEF Next, Loop, ClaimStep, Report

\* At most one claim per worker after the kill switch or the shutdown event.
THEOREM LateClaims == Spec => []OneLateClaim
<1>1. Init => LateInv
  BY DEF Init, LateInv
<1>2. LateInv => OneLateClaim
  BY DEF LateInv, OneLateClaim
<1>q. QED
  BY <1>1, <1>2, LateStep, TypeCorrect, PTL DEF Spec

-----------------------------------------------------------------------------
(* The queue implements LeaseQueue.                                        *)

\* What the refinement needs beyond IInv: a cancel request has seen
\* an inserted row.
LeaseInv == \A j \in cancelSeen : status[j] # "absent"

LEMMA LeaseInvStep == IInv /\ LeaseInv /\ [Next]_vars => LeaseInv'
<1> SUFFICES ASSUME IInv, LeaseInv, [Next]_vars
             PROVE  LeaseInv'
  OBVIOUS
<1>. TypeOK /\ HandShape /\ CheckedRow
  BY DEF IInv
<1> USE DEF Queued, Terminal, Execs, LeaseInv
<1>1. ASSUME NEW j \in Jobs, Row(j)
      PROVE  LeaseInv'
  BY <1>1 DEF Row, TypeOK, Held, Enqueue, AdminCancelRead, AdminCancelWrite, AgentCancel,
     BecomeDue, BecomeStale, rowVars, procVars
<1>2. CASE Reclaim \/ ToggleKillSwitch \/ UNCHANGED vars
  BY <1>2 DEF TypeOK, Held, Reclaim, StaleRows, ToggleKillSwitch, vars, rowVars, procVars
<1>3. ASSUME NEW w \in Workers, NEW j \in Jobs, Claim(w, j) \/ ClaimLost(w, j)
      PROVE  LeaseInv'
  BY <1>3 DEF TypeOK, Held, Claim, ClaimLost, ClaimRow
<1>4. ASSUME NEW w \in Workers,
             Poll(w) \/ ClaimNone(w) \/ ClaimError(w) \/ Dispatch(w) \/ Stop(w)
             \/ LeaveLoop(w) \/ DrainEnd(w) \/ Crash(w) \/ Restart(w)
      PROVE  LeaseInv'
  BY <1>4, QueueAssumption DEF TypeOK, HandShape, Held, Poll, ClaimNone, ClaimError, Dispatch,
     Stop, LeaveLoop, DrainEnd, Crash, Gone, Restart, rowVars
<1>5. ASSUME NEW w \in Workers, Demote(w)
      PROVE  LeaseInv'
  BY <1>5 DEF TypeOK, Held, Demote, Merge, rowVars
<1>6. ASSUME NEW w \in Workers, NEW e \in tasks[w],
             Complete(w, e) \/ FailRead(w, e) \/ FailWrite(w, e) \/ ReportLost(w, e)
      PROVE  LeaseInv'
  BY <1>6 DEF TypeOK, Held, Complete, FailRead, FailWrite, FailRow, ReportLost, Finish, rowVars
<1>q. QED
  BY <1>1, <1>2, <1>3, <1>4, <1>5, <1>6 DEF Next, Loop, ClaimStep, Report

\* The holders are typed: pairs of a worker and an execution.
HoldersTypeOK == HoldersOf \in [Jobs -> SUBSET (Workers \X Execs)]

LEMMA HoldersTyped ==
    ASSUME TypeOK, HandShape
    PROVE  HoldersTypeOK
<1>1. ASSUME NEW w \in Workers, NEW e \in Held(w)
      PROVE  e \in Execs
  BY <1>1, QueueAssumption DEF TypeOK, HandShape, Held
<1>q. QED
  BY <1>1 DEF HoldersOf, HoldersTypeOK

\* A job is held exactly when some worker has a live execution of it.
LEMMA HeldMeans ==
    ASSUME NEW j \in Jobs
    PROVE  \A h : h \in HoldersOf[j] <=>
                  \E w \in Workers : \E e \in Held(w) : e.job = j /\ h = <<w, e>>
  BY DEF HoldersOf

\* The same, of the next state.
LEMMA HeldMeansNext ==
    ASSUME NEW j \in Jobs
    PROVE  \A h : h \in HoldersOf'[j] <=>
                  \E w \in Workers : \E e \in Held(w)' : e.job = j /\ h = <<w, e>>
  BY DEF HoldersOf

\* A step that leaves what every worker holds alone leaves the holders alone.
LEMMA SameHolders ==
    ASSUME \A w \in Workers : Held(w)' = Held(w)
    PROVE  HoldersOf' = HoldersOf
  BY DEF HoldersOf

\* Workers can lose executions only.
LEMMA FewerHolders ==
    ASSUME \A w \in Workers : Held(w)' \subseteq Held(w), NEW j \in Jobs
    PROVE  HoldersOf'[j] \subseteq HoldersOf[j]
  BY DEF HoldersOf

\* Every step of the queue is a step of LeaseQueue, or changes nothing of it.
LEMMA LeaseStep ==
    IInv /\ LeaseInv /\ HoldersTypeOK' /\ [Next]_vars
      => [Leases!LNext]_(Leases!lvars)
<1> SUFFICES ASSUME IInv, LeaseInv, [Next]_vars, HoldersTypeOK'
             PROVE  Leases!LNext \/ UNCHANGED Leases!lvars
  OBVIOUS
<1>. TypeOK /\ HandShape /\ ExclusiveExecution /\ CheckedRow
  BY DEF IInv
<1> USE DEF Queued, Terminal, Statuses
<1>1. ASSUME NEW j \in Jobs, Row(j)
      PROVE  Leases!LNext \/ UNCHANGED Leases!lvars
  <2>1. HoldersOf' = HoldersOf
    <3>1. procVars' = procVars
      BY <1>1 DEF Row, Enqueue, AdminCancelRead, AdminCancelWrite, AgentCancel, BecomeDue,
         BecomeStale
    <3>q. QED
      BY <3>1, SameHolders DEF Held, procVars
  <2>2. CASE Enqueue(j)
    BY <2>1, <2>2 DEF Enqueue, Leases!LNext, Leases!Offer, Phase, TypeOK
  <2>3. CASE AdminCancelRead(j) \/ BecomeDue(j) \/ BecomeStale(j)
    BY <2>1, <2>3 DEF AdminCancelRead, BecomeDue, BecomeStale, Leases!lvars, Phase, rowVars
  <2>4. CASE AdminCancelWrite(j)
    <3>1. Phase[j] # "absent" /\ (Phase[j] = "open" <=> status[j] \in Queued)
      BY <2>4 DEF AdminCancelWrite, Phase, TypeOK, LeaseInv
    <3>2. Phase' = [Phase EXCEPT ![j] = "closed"]
      BY <2>4 DEF AdminCancelWrite, Phase, TypeOK
    <3>3. Leases!Withdraw(j)
      BY <2>1, <2>4, <3>1, <3>2 DEF AdminCancelWrite, Leases!Withdraw
    <3>q. QED
      BY <3>3 DEF Leases!LNext
  <2>5. CASE AgentCancel(j)
    <3>1. Phase[j] = "open" /\ Phase' = [Phase EXCEPT ![j] = "closed"]
      BY <2>5 DEF AgentCancel, Phase, TypeOK
    <3>2. Leases!Withdraw(j)
      BY <2>1, <2>5, <3>1 DEF AgentCancel, Leases!Withdraw
    <3>q. QED
      BY <3>2 DEF Leases!LNext
  <2>q. QED
    BY <1>1, <2>2, <2>3, <2>4, <2>5 DEF Row
<1>2. CASE Reclaim
  <2> DEFINE closed == {j \in StaleRows : Spent(j)}
  <2>1. HoldersOf' = HoldersOf
    BY <1>2, SameHolders DEF Reclaim, Held, procVars
  <2>2. \A j \in Jobs : HoldersOf[j] # {} <=> Live(j)
    <3> SUFFICES ASSUME NEW j \in Jobs PROVE HoldersOf[j] # {} <=> Live(j)
      OBVIOUS
    <3>1. HoldersOf[j] # {} <=> \E h : h \in HoldersOf[j]
      OBVIOUS
    <3>2. ASSUME NEW w \in Workers, NEW e \in Held(w), e.job = j
          PROVE  \E h : h \in HoldersOf[j]
      <4>1. <<w, e>> \in HoldersOf[j]
        BY <3>2, HeldMeans
      <4>q. QED
        BY <4>1
    <3>q. QED
      BY <3>1, <3>2, HeldMeans DEF Live
  <2>3. Leases!Revoke(StaleRows, closed)
    BY <1>2, <2>1, <2>2 DEF Reclaim, StaleRows, Leases!Revoke, Phase, TypeOK
  <2>4. StaleRows \in SUBSET Jobs /\ closed \in SUBSET Jobs
    BY DEF StaleRows
  <2>q. QED
    BY <2>3, <2>4 DEF Leases!LNext
<1>3. CASE ToggleKillSwitch \/ UNCHANGED vars
  BY <1>3, SameHolders DEF ToggleKillSwitch, vars, rowVars, procVars, Held, Leases!lvars, Phase
<1>4. ASSUME NEW w \in Workers, NEW j \in Jobs, Claim(w, j)
      PROVE  Leases!LNext \/ UNCHANGED Leases!lvars
  <2>0. PICK n : n = [job |-> j, att |-> attempts[j] + 1] /\ n.job = j
    <3> DEFINE m == [job |-> j, att |-> attempts[j] + 1]
    <3>1. m.job = j
      OBVIOUS
    <3>q. QED
      <4> WITNESS m
      <4>q. QED
        BY <3>1
  <2> DEFINE h == <<w, n>>
  <2>1. status[j] \in Queued /\ pc[w] = "claim" /\ hand[w] = NoExec
    BY <1>4 DEF Claim, Front, Eligible, HandShape
  <2>2. Held(w)' = Held(w) \cup {n}
    BY <1>4, <2>0, <2>1, QueueAssumption DEF Claim, ClaimRow, Held, TypeOK, Execs
  <2>3. \A v \in Workers : v # w => Held(v)' = Held(v)
    BY <1>4 DEF Claim, ClaimRow, Held, TypeOK
  <2>4. ASSUME NEW i \in Jobs
        PROVE  HoldersOf'[i] = IF i = j THEN HoldersOf[i] \cup {h} ELSE HoldersOf[i]
    <3>1. ASSUME NEW x
          PROVE  x \in HoldersOf'[i] <=> x \in HoldersOf[i] \/ (i = j /\ x = h)
      <4>1. CASE x \in HoldersOf'[i]
        <5>1. PICK v \in Workers : \E e \in Held(v)' : e.job = i /\ x = <<v, e>>
          BY <4>1, HeldMeansNext
        <5>2. PICK e \in Held(v)' : e.job = i /\ x = <<v, e>>
          BY <5>1
        <5>3. CASE e \in Held(v)
          BY <4>1, <5>2, <5>3, HeldMeans
        <5>4. CASE e \notin Held(v)
          <6>1. v = w /\ e = n
            BY <2>2, <2>3, <5>2, <5>4
          <6>q. QED
            BY <2>0, <4>1, <5>2, <6>1
        <5>q. QED
          BY <5>3, <5>4
      <4>2. CASE x \in HoldersOf[i]
        <5>1. PICK v \in Workers : \E e \in Held(v) : e.job = i /\ x = <<v, e>>
          BY <4>2, HeldMeans
        <5>2. \A e \in Held(v) : e \in Held(v)'
          BY <2>2, <2>3, <5>1
        <5>q. QED
          BY <4>2, <5>1, <5>2, HeldMeansNext
      <4>3. CASE i = j /\ x = h
        <5>1. n \in Held(w)'
          BY <2>2
        <5>q. QED
          BY <2>0, <4>3, <5>1, HeldMeansNext
      <4>q. QED
        BY <4>1, <4>2, <4>3
    <3> HIDE DEF h
    <3>2. CASE i = j
      BY <3>1, <3>2
    <3>3. CASE i # j
      BY <3>1, <3>3
    <3>q. QED
      BY <3>2, <3>3
  <2>5. /\ \A i \in Jobs \ {j} : HoldersOf'[i] = HoldersOf[i]
        /\ HoldersOf[j] \subseteq HoldersOf'[j]
        /\ \A g, k \in HoldersOf'[j] \ HoldersOf[j] : g = k
    BY <2>4
  <2>6. Phase[j] = "open" /\ Phase' = [Phase EXCEPT ![j] = "leased"]
    BY <1>4, <2>1 DEF Claim, ClaimRow, Phase, TypeOK
  <2>7. Leases!Lease(j)
    BY <1>4, <2>5, <2>6 DEF Claim, ClaimRow, Leases!Lease, HoldersTypeOK
  <2>q. QED
    BY <2>7 DEF Leases!LNext
<1>5. ASSUME NEW w \in Workers, NEW j \in Jobs, ClaimLost(w, j)
      PROVE  Leases!LNext \/ UNCHANGED Leases!lvars
  <2>1. HoldersOf' = HoldersOf
    BY <1>5, SameHolders DEF ClaimLost, ClaimRow, Held
  <2>2. Phase[j] = "open" /\ Phase' = [Phase EXCEPT ![j] = "leased"]
    BY <1>5 DEF ClaimLost, ClaimRow, Front, Eligible, Phase, TypeOK
  <2>3. Leases!Lease(j)
    BY <1>5, <2>1, <2>2 DEF ClaimLost, ClaimRow, Leases!Lease, HoldersTypeOK
  <2>q. QED
    BY <2>3 DEF Leases!LNext
<1>6. ASSUME NEW w \in Workers,
             Poll(w) \/ ClaimNone(w) \/ ClaimError(w) \/ Dispatch(w) \/ Stop(w)
             \/ LeaveLoop(w) \/ Restart(w) \/ \E e \in tasks[w] : FailRead(w, e)
      PROVE  Leases!LNext \/ UNCHANGED Leases!lvars
  <2>1. \A v \in Workers : Held(v)' = Held(v)
    BY <1>6, QueueAssumption DEF TypeOK, HandShape, Held, Execs, Poll, ClaimNone, ClaimError,
       Dispatch, Stop, LeaveLoop, Restart, FailRead
  <2>2. HoldersOf' = HoldersOf
    BY <2>1, SameHolders
  <2>3. status' = status /\ disturbed' = disturbed
    BY <1>6 DEF Poll, ClaimNone, ClaimError, Dispatch, Stop, LeaveLoop, Restart, FailRead, rowVars
  <2>q. QED
    BY <2>2, <2>3 DEF Leases!lvars, Phase
<1>7. ASSUME NEW w \in Workers, Demote(w)
      PROVE  Leases!LNext \/ UNCHANGED Leases!lvars
  <2>1. hand[w] \in Held(w) /\ hand[w].job \in Jobs
    BY <1>7 DEF TypeOK, HandShape, Demote, Held, Execs
  <2>2. HoldersOf' = HoldersOf /\ disturbed' = disturbed
    BY <1>7, SameHolders DEF Held, Demote
  <2>3. CASE status' = status
    BY <2>2, <2>3 DEF Leases!lvars, Phase
  <2>4. CASE status' # status
    <3>1. status' = [status EXCEPT ![hand[w].job] = "running"]
      BY <1>7, <2>4 DEF Demote, Merge, rowVars
    <3>2. hand[w].job \in disturbed
      BY <2>1, <2>4, <3>1 DEF ExclusiveExecution, TypeOK
    <3>3. HoldersOf[hand[w].job] # {}
      BY <2>1, HeldMeans
    <3>4. Leases!Retake(hand[w].job)
      BY <2>1, <2>2, <3>1, <3>2, <3>3 DEF Leases!Retake, Phase, TypeOK
    <3>q. QED
      BY <2>1, <3>4 DEF Leases!LNext
  <2>q. QED
    BY <2>3, <2>4
<1>8. ASSUME NEW w \in Workers, NEW e \in tasks[w], Complete(w, e) \/ FailWrite(w, e),
             status' # status
      PROVE  Leases!LNext \/ UNCHANGED Leases!lvars
  <2>1. e \in Held(w) /\ e.job \in Jobs /\ hand[w] # e
    BY DEF TypeOK, Held, Execs, IInv, PermitsInv
  <2>2. Held(w)' = Held(w) \ {e} /\ \A v \in Workers : v # w => Held(v)' = Held(v)
    BY <1>8, <2>1 DEF Complete, FailWrite, Finish, Held, TypeOK
  <2>3. HoldersOf' = [HoldersOf EXCEPT ![e.job] = @ \ {<<w, e>>}]
    <3>1. ASSUME NEW i \in Jobs
          PROVE  HoldersOf'[i] = IF i = e.job THEN HoldersOf[i] \ {<<w, e>>} ELSE HoldersOf[i]
      <4>1. ASSUME NEW x
            PROVE  x \in HoldersOf'[i] <=> x \in HoldersOf[i] /\ ~(i = e.job /\ x = <<w, e>>)
        BY <2>2, HeldMeans, HeldMeansNext
      <4>q. QED
        BY <4>1
    <3>q. QED
      BY <3>1 DEF HoldersOf
  <2>4. <<w, e>> \in HoldersOf[e.job]
    BY <2>1, HeldMeans
  <2>5. \E p \in {"open", "closed"} : Phase' = [Phase EXCEPT ![e.job] = p]
    <3>1. PICK s \in {"done", "failed", "retrying"} : status' = [status EXCEPT ![e.job] = s]
      BY <1>8 DEF Complete, FailWrite, FailRow
    <3>2. CASE s = "retrying"
      BY <2>1, <3>1, <3>2 DEF Phase, TypeOK
    <3>3. CASE s # "retrying"
      BY <2>1, <3>1, <3>3 DEF Phase, TypeOK
    <3>q. QED
      BY <3>2, <3>3
  <2>6. disturbed' = disturbed
    BY <1>8 DEF Complete, FailWrite, Finish
  <2>7. \E p \in {"open", "closed"} : Leases!Settle(e.job, <<w, e>>, p)
    BY <2>3, <2>4, <2>5, <2>6 DEF Leases!Settle
  <2>q. QED
    BY <2>1, <2>4, <2>7 DEF Leases!LNext
<1>9. ASSUME NEW w \in Workers,
             \/ DrainEnd(w) \/ Crash(w)
             \/ \E e \in tasks[w] : \/ ReportLost(w, e)
                                   \/ Complete(w, e) \/ FailWrite(w, e),
             status' = status
      PROVE  Leases!LNext \/ UNCHANGED Leases!lvars
  <2>1. \A v \in Workers : Held(v)' \subseteq Held(v)
    BY <1>9 DEF TypeOK, Held, DrainEnd, Crash, Gone, ReportLost, Complete, FailWrite, Finish
  <2>2. disturbed' = disturbed
    BY <1>9 DEF DrainEnd, Crash, Gone, ReportLost, Complete, FailWrite, Finish
  <2>3. Leases!Vanish
    BY <1>9, <2>1, <2>2, FewerHolders DEF Leases!Vanish, Phase, HoldersTypeOK
  <2>q. QED
    BY <2>3 DEF Leases!LNext
<1>10. ASSUME NEW w \in Workers,
              DrainEnd(w) \/ Crash(w) \/ \E e \in tasks[w] : ReportLost(w, e)
       PROVE  status' = status
  BY <1>10 DEF DrainEnd, Crash, Gone, ReportLost, rowVars
<1>q. QED
  BY <1>1, <1>2, <1>3, <1>4, <1>5, <1>6, <1>7, <1>8, <1>9, <1>10
     DEF Next, Loop, ClaimStep, Report

\* The queue's behaviours, seen through leases, are LeaseQueue's.
THEOREM Refinement == Spec => ImplementsLeases
<1>1. Init => LeaseInv /\ Leases!LInit
  <2> SUFFICES ASSUME Init PROVE LeaseInv /\ Leases!LInit
    OBVIOUS
  <2>1. LeaseInv
    BY DEF Init, LeaseInv
  <2>2. \A w \in Workers : Held(w) = {}
    BY DEF Init, Held
  <2>3. HoldersOf = [j \in Jobs |-> {}]
    BY <2>2 DEF HoldersOf
  <2>q. QED
    BY <2>1, <2>3 DEF Init, Leases!LInit, Phase, Queued, Terminal
<1>2. IInv => HoldersTypeOK
  BY HoldersTyped DEF IInv
<1>q. QED
  BY <1>1, <1>2, LeaseInvStep, LeaseStep, Invariance, PTL
     DEF Spec, ImplementsLeases, Leases!LSpec
=============================================================================
