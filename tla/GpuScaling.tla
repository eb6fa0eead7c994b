----------------------------- MODULE GpuScaling -----------------------------
(***************************************************************************)
(* The GPU scaling loop of every worker replica: one at a time, under the  *)
(* advisory lock, it reads the depth of the transcription queue and the    *)
(* service's replica count, and scales the GPU service to one or to none.  *)
(* Each replica keeps an idle timer of its own between its ticks.          *)
(***************************************************************************)
EXTENDS Integers, FiniteSets

CONSTANTS
    Scalers,    \* the worker replicas
    NoScaler,
    Threshold,  \* gpu_queue_threshold
    IdleLimit,  \* gpu_idle_minutes_before_shutdown, in steps of the clock
    MaxDepth,   \* bound on the queue
    MaxApiFails \* bound on failed calls, ticks that raise, and restarts

ASSUME ScalingAssumption ==
    /\ IsFiniteSet(Scalers) /\ NoScaler \notin Scalers
    /\ Threshold \in Nat /\ IdleLimit \in Nat /\ MaxDepth \in Nat /\ MaxApiFails \in Nat

VARIABLES
    depth,     \* process_content rows pending or retrying
    gpu,       \* numReplicas of the GPU service
    idleFor,   \* each replica's idle timer: how long ago it started, or Off
    scaleTick, \* each replica's tick: asleep, or what it has read
    scaleLock, \* the holder of LOCK_GPU_SCALING
    apiFails,
    sawWork    \* history: how long ago a tick of each replica last returned
               \* having seen work

scalingVars == <<depth, gpu, idleFor, scaleTick, scaleLock, apiFails, sawWork>>

Off == -1
Long == IdleLimit + 1          \* ages are counted up to here
Aged(age) == IF age \in 0..IdleLimit THEN age + 1 ELSE age
Asleep == [at |-> "asleep"]

-----------------------------------------------------------------------------
Transcribe ==
    /\ depth < MaxDepth /\ depth' = depth + 1
    /\ UNCHANGED <<gpu, idleFor, scaleTick, scaleLock, apiFails, sawWork>>

\* A worker claims a row: running rows are not counted in the depth.
Claimed ==
    /\ depth > 0 /\ depth' = depth - 1
    /\ UNCHANGED <<gpu, idleFor, scaleTick, scaleLock, apiFails, sawWork>>

Minutes ==
    /\ idleFor' = [r \in Scalers |-> Aged(idleFor[r])]
    /\ sawWork' = [r \in Scalers |-> Aged(sawWork[r])]
    /\ UNCHANGED <<depth, gpu, scaleTick, scaleLock, apiFails>>

-----------------------------------------------------------------------------
\* A replica that does not get the lock sleeps on with its timer as it is, and
\* so needs no step; the one that gets it reads the depth of the queue.
ScaleReads(r) ==
    /\ scaleTick[r] = Asleep /\ scaleLock = NoScaler
    /\ scaleLock' = r
    /\ scaleTick' = [scaleTick EXCEPT ![r] = [at |-> "count", depth |-> depth]]
    /\ UNCHANGED <<depth, gpu, idleFor, apiFails, sawWork>>

\* numReplicas, or None when the query fails.
ReplicaCount(r, count) ==
    /\ scaleTick[r].at = "count"
    /\ \/ count = gpu /\ UNCHANGED apiFails
       \/ count = Off /\ apiFails < MaxApiFails /\ apiFails' = apiFails + 1
    /\ scaleTick' = [scaleTick EXCEPT ![r] = [at |-> "scale", depth |-> @.depth, count |-> count]]
    /\ UNCHANGED <<depth, gpu, idleFor, scaleLock, sawWork>>

\* A call that reports failure may have taken effect (a lost response).
ScaleTo(n) ==
    \/ gpu' = n /\ UNCHANGED apiFails
    \/ apiFails < MaxApiFails /\ apiFails' = apiFails + 1 /\ gpu' \in {gpu, n}

\* Faulty variant: work does not reset the timer.
TimerAfter_Kept(r) ==
    LET t == scaleTick[r] IN
    CASE t.depth > 0 -> idleFor[r]
      [] t.depth = 0 /\ idleFor[r] = Off -> 0
      [] t.depth = 0 /\ idleFor[r] > IdleLimit -> Off
      [] OTHER -> idleFor[r]

\* The timer a tick returns: off with work and after scaling, whether or not
\* the call succeeded; started by the first tick that finds the queue empty.
TimerAfter(r) ==
    LET t == scaleTick[r] IN
    CASE t.depth > 0 -> Off
      [] t.depth = 0 /\ idleFor[r] = Off -> 0
      [] t.depth = 0 /\ idleFor[r] > IdleLimit -> Off
      [] OTHER -> idleFor[r]

\* Faulty variant: one transcription more than the threshold is not enough.
WantsGpu_Late(t) == t.depth > Threshold + 1 /\ t.count \in {0, Off}

WantsGpu(t) == t.depth > Threshold /\ t.count \in {0, Off}
GivesUpGpu(r) == scaleTick[r].depth = 0 /\ idleFor[r] > IdleLimit

\* What was read decides, whatever the queue has become.
ManageScaling(r) ==
    /\ scaleTick[r].at = "scale"
    /\ IF WantsGpu(scaleTick[r]) THEN ScaleTo(1)
       ELSE IF GivesUpGpu(r) THEN ScaleTo(0)
       ELSE UNCHANGED <<gpu, apiFails>>
    /\ idleFor' = [idleFor EXCEPT ![r] = TimerAfter(r)]
    /\ sawWork' = [sawWork EXCEPT ![r] = IF scaleTick[r].depth > 0 THEN 0 ELSE @]
    /\ scaleTick' = [scaleTick EXCEPT ![r] = Asleep] /\ scaleLock' = NoScaler
    /\ UNCHANGED depth

\* A read of the configuration or of a secret raises after the depth was read:
\* the loop logs it and keeps the timer it had, whatever the depth was.
ScaleRaises(r) ==
    /\ scaleTick[r] # Asleep
    /\ apiFails < MaxApiFails /\ apiFails' = apiFails + 1
    /\ scaleTick' = [scaleTick EXCEPT ![r] = Asleep] /\ scaleLock' = NoScaler
    /\ UNCHANGED <<depth, gpu, idleFor, sawWork>>

\* The replica is restarted: its timer is gone and its lock released.
ScalerRestarts(r) ==
    /\ apiFails < MaxApiFails /\ apiFails' = apiFails + 1
    /\ idleFor' = [idleFor EXCEPT ![r] = Off]
    /\ scaleTick' = [scaleTick EXCEPT ![r] = Asleep]
    /\ scaleLock' = IF scaleLock = r THEN NoScaler ELSE scaleLock
    /\ UNCHANGED <<depth, gpu, sawWork>>

-----------------------------------------------------------------------------
ScalingInit ==
    /\ depth = 0 /\ gpu \in {0, 1}
    /\ idleFor = [r \in Scalers |-> Off]
    /\ scaleTick = [r \in Scalers |-> Asleep] /\ scaleLock = NoScaler
    /\ apiFails = 0 /\ sawWork = [r \in Scalers |-> Long]

ScaleStep(r) ==
    ScaleReads(r) \/ (\E count \in {gpu, Off} : ReplicaCount(r, count)) \/ ManageScaling(r)

ScalingNext ==
    \/ Transcribe \/ Claimed \/ Minutes
    \/ \E r \in Scalers : ScaleStep(r) \/ ScaleRaises(r) \/ ScalerRestarts(r)

\* Every replica's loop runs every few minutes; SF because another holds the
\* lock at times.
ScalingFair == WF_scalingVars(Minutes) /\ \A r \in Scalers : SF_scalingVars(ScaleStep(r))

ScalingSpec == ScalingInit /\ [][ScalingNext]_scalingVars /\ ScalingFair

-----------------------------------------------------------------------------
ScalingTypeOK ==
    /\ depth \in 0..MaxDepth /\ gpu \in {0, 1} /\ apiFails \in 0..MaxApiFails
    /\ idleFor \in [Scalers -> Off..Long] /\ sawWork \in [Scalers -> 0..Long]
    /\ scaleLock \in Scalers \cup {NoScaler}
    /\ \A r \in Scalers : scaleTick[r] # Asleep <=> scaleLock = r

\* The GPU is shut down only by a replica none of whose own ticks returned
\* having seen work for longer than the limit, whatever ticks raised, calls
\* failed, and rows were queued meanwhile.  Ticks that saw work and then raised
\* do not count, the loop keeps the old timer after them (loop.py:412); and the
\* replicas' timers are apart, so another's ticks may have seen work since
\* (railway.py:232, loop.py:406).
ShutDownIdle ==
    [][\A r \in Scalers :
          (gpu = 1 /\ gpu' = 0 /\ scaleLock = r) => sawWork[r] > IdleLimit]_scalingVars

\* A queue that stays above the threshold gets its GPU, over failing calls,
\* restarts and the shutdown another replica decided on an earlier reading.
BacklogGetsGpu == (depth > Threshold) ~> (gpu = 1 \/ depth <= Threshold)
=============================================================================
