---------------------------- MODULE LlmSchedules ----------------------------
(***************************************************************************)
(* The scheduled reviews of the LLM supervisor: in every worker replica a  *)
(* loop per review sleeps until its time, tries the review's advisory      *)
(* lock, skips the period that has its review, and otherwise asks the LLM  *)
(* and inserts the review.  Each review has its own lock and rows, so one  *)
(* behaviour is about one of them.                                         *)
(***************************************************************************)
EXTENDS Integers, Sequences, FiniteSets

CONSTANTS
    Supervisors,  \* the worker replicas
    NoSupervisor,
    Day, Week,    \* in steps of the clock
    SevenAM,      \* the hour of the digest and, on Mondays, of the audit
    HealthEvery, HealthGuard, AuditGuard, \* six hours, three hours, six days
    MaxSkew,      \* bound on how early or late a loop wakes, and on a call
    MaxHour,      \* bound on the clock
    MaxDowns      \* bound on failed calls and lost replicas

\* Six days and a late start are less than a week; a call begun around seven
\* ends on its day.
ASSUME SupervisionAssumption ==
    /\ IsFiniteSet(Supervisors) /\ Supervisors # {} /\ NoSupervisor \notin Supervisors
    /\ Day \in Nat \ {0} /\ Week \in Nat \ {0} /\ SevenAM \in 1..(Day - 1) /\ Week % Day = 0
    /\ HealthEvery \in Nat \ {0} /\ HealthGuard \in 0..HealthEvery
    /\ AuditGuard \in Nat /\ AuditGuard + MaxSkew < Week
    /\ MaxSkew \in 0..SevenAM /\ SevenAM + 2 * MaxSkew < Day
    /\ MaxHour \in Nat /\ MaxDowns \in Nat

VARIABLES
    task,      \* the review this behaviour is about
    hour,
    wake,      \* when each loop's sleep ends
    loop,      \* asleep, calling, or down with its replica
    began,     \* the start of each loop's transaction: its review's created_at
    superLock, \* the holder of the review's lock
    reviews,   \* created_at of the llm_reviews rows, in the order of their commits
    downs,
    spoiled    \* history: periods with a failed call, a loss, or nobody up

superVars == <<task, hour, wake, loop, began, superLock, reviews, downs, spoiled>>

Period == IF task = "audit" THEN Week ELSE Day
PeriodOf(h) == h \div Period

-----------------------------------------------------------------------------
\* The first seven o'clock, or Monday's, that is still ahead.
NextSeven(every, now) ==
    LET start == now - (now % every)
    IN  IF now < start + SevenAM THEN start + SevenAM ELSE start + SevenAM + every

NextWake(now) == IF task = "health" THEN now + HealthEvery ELSE NextSeven(Period, now)

\* Faulty variant: the last 24 hours in place of the day.
DigestSince_Rolling(now) == now - Day

DigestSince(now) == now - (now % Day)
HealthSince(now) == now - HealthGuard
AuditSince(now) == now - AuditGuard

\* Faulty variant: the lock alone.
ReviewedSince_Never(h) == FALSE
ReviewedSince(h) == \E i \in DOMAIN reviews : reviews[i] >= h

SleepsAgain(r) == wake' = [wake EXCEPT ![r] = NextWake(hour)]

\* Each review's own part: its guard, then the context, the call, the row.
RunHealthCheck == task = "health" /\ ~ReviewedSince(HealthSince(hour))
RunDailyDigest == task = "digest" /\ ~ReviewedSince(DigestSince(hour))
RunWeeklyAudit == task = "audit" /\ ~ReviewedSince(AuditSince(hour))
Runs == RunHealthCheck \/ RunDailyDigest \/ RunWeeklyAudit

-----------------------------------------------------------------------------
\* The loop wakes; without the lock, or with the period reviewed, it sleeps on.
LoopSkips(r) ==
    /\ loop[r] = "asleep" /\ hour >= wake[r] - MaxSkew
    /\ superLock # NoSupervisor \/ ~Runs
    /\ SleepsAgain(r)
    /\ UNCHANGED <<task, hour, loop, began, superLock, reviews, downs, spoiled>>

LoopCalls(r) ==
    /\ loop[r] = "asleep" /\ hour >= wake[r] - MaxSkew
    /\ superLock = NoSupervisor /\ Runs
    /\ superLock' = r
    /\ loop' = [loop EXCEPT ![r] = "calling"] /\ began' = [began EXCEPT ![r] = hour]
    /\ UNCHANGED <<task, hour, wake, reviews, downs, spoiled>>

\* The review and the lock end with one commit.
LoopReviews(r) ==
    /\ loop[r] = "calling"
    /\ reviews' = Append(reviews, began[r])
    /\ loop' = [loop EXCEPT ![r] = "asleep"] /\ superLock' = NoSupervisor /\ SleepsAgain(r)
    /\ began' = [began EXCEPT ![r] = 0]
    /\ UNCHANGED <<task, hour, downs, spoiled>>

Spoils == spoiled' = spoiled \cup {PeriodOf(hour)}
OneDown == downs < MaxDowns /\ downs' = downs + 1

\* The LLM's failure is caught: no review, and no second try in the period.
LoopFails(r) ==
    /\ loop[r] = "calling" /\ OneDown /\ Spoils
    /\ loop' = [loop EXCEPT ![r] = "asleep"] /\ superLock' = NoSupervisor /\ SleepsAgain(r)
    /\ began' = [began EXCEPT ![r] = 0]
    /\ UNCHANGED <<task, hour, reviews>>

ReplicaLost(r) ==
    /\ loop[r] # "down" /\ OneDown /\ Spoils
    /\ loop' = [loop EXCEPT ![r] = "down"]
    /\ superLock' = IF superLock = r THEN NoSupervisor ELSE superLock
    /\ began' = [began EXCEPT ![r] = 0] /\ wake' = [wake EXCEPT ![r] = 0]
    /\ UNCHANGED <<task, hour, reviews>>

ReplicaBack(r) ==
    /\ loop[r] = "down"
    /\ loop' = [loop EXCEPT ![r] = "asleep"] /\ SleepsAgain(r)
    /\ UNCHANGED <<task, hour, began, superLock, reviews, downs, spoiled>>

\* No loop is later than the skew, and no call longer.
HourPasses ==
    /\ hour < MaxHour /\ hour' = hour + 1
    /\ \A r \in Supervisors :
          /\ loop[r] = "asleep" => hour < wake[r] + MaxSkew
          /\ loop[r] = "calling" => hour < began[r] + MaxSkew
    /\ spoiled' = IF \A r \in Supervisors : loop[r] = "down"
                  THEN spoiled \cup {PeriodOf(hour), PeriodOf(hour + 1)} ELSE spoiled
    /\ UNCHANGED <<task, wake, loop, began, superLock, reviews, downs>>

-----------------------------------------------------------------------------
SuperInit ==
    /\ task \in {"health", "digest", "audit"}
    /\ hour = 0
    /\ wake = [r \in Supervisors |-> NextWake(0)]
    /\ loop = [r \in Supervisors |-> "asleep"] /\ began = [r \in Supervisors |-> 0]
    /\ superLock = NoSupervisor /\ reviews = <<>> /\ downs = 0 /\ spoiled = {}

SuperNext ==
    \/ HourPasses
    \/ \E r \in Supervisors :
          LoopSkips(r) \/ LoopCalls(r) \/ LoopReviews(r) \/ LoopFails(r) \/ ReplicaLost(r) \/ ReplicaBack(r)

SuperSpec == SuperInit /\ [][SuperNext]_superVars

-----------------------------------------------------------------------------
SuperTypeOK ==
    /\ hour \in 0..MaxHour /\ superLock \in Supervisors \cup {NoSupervisor}
    /\ loop \in [Supervisors -> {"asleep", "calling", "down"}]
    /\ \A r \in Supervisors : loop[r] = "calling" <=> superLock = r
    /\ \A i \in DOMAIN reviews : reviews[i] \in 0..MaxHour

\* One health check in three hours, one digest a day, one audit in six days,
\* whichever replicas wake early, late, together or after another's commit
\* (_scheduled_review_exists_since).
OneReviewPerPeriod ==
    \A i, j \in DOMAIN reviews : i < j =>
        CASE task = "health" -> reviews[j] - reviews[i] > HealthGuard
          [] task = "digest" -> reviews[j] \div Day # reviews[i] \div Day
          [] task = "audit"  -> reviews[j] - reviews[i] > AuditGuard

\* A day has its digest and a week its audit once seven is past, unless a call
\* failed, a replica was lost or none was up in it: waking early or late, the
\* guards skip no period's first review.
NoPeriodSkipped ==
    task # "health" =>
        \A p \in 0..PeriodOf(MaxHour) :
            (hour > p * Period + SevenAM + 2 * MaxSkew /\ p \notin spoiled)
                => \E i \in DOMAIN reviews : PeriodOf(reviews[i]) = p
=============================================================================
