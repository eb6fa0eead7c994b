----------------------------- MODULE UsageLimits -----------------------------
(***************************************************************************)
(* What calls of the outside services leave behind: check_and_acquire_     *)
(* rate_limit inserts a row per admitted call, in the caller's             *)
(* transaction and under a lock it holds to its end; the LLM supervisor    *)
(* inserts a review per call; rollup_api_usage adds up the rows of every   *)
(* finished hour once and purges the old ones.                             *)
(***************************************************************************)
EXTENDS Integers, FiniteSets, Bags

CONSTANTS
    Clients,    \* transactions that call a rate-limited service
    Reviewers,  \* transactions that call the LLM
    NoClient,
    Rollups,    \* executions of rollup_api_usage
    Limit,      \* the service's calls per hour
    MaxHalf,    \* bound on the clock, in half hours
    MaxCalls    \* bound on the calls

ASSUME UsageAssumption ==
    /\ IsFiniteSet(Clients \cup Reviewers) /\ Clients \cap Reviewers = {} /\ NoClient \notin Clients
    /\ IsFiniteSet(Rollups) /\ Limit \in Nat /\ MaxHalf \in Nat /\ MaxCalls \in Nat

VARIABLES
    half,      \* the clock, in half hours
    limited,   \* the service has a limit configured
    txn,       \* each transaction: none, or its stage and its start, which is NOW()
    rateLock,  \* the holder of the service's advisory lock
    calls,     \* the committed rows of rate_limit_usage and llm_reviews, by id
    ledger,    \* the committed api_usage rows, a bag
    rollup,    \* each rollup: idle, or its start and its uncommitted inserts
    placed,
    total,     \* history: the rows ever committed, per kind and hour
    late,      \* history: hours a row of which was committed after their rollup
    overlapped,\* history: two rollups were open at once
    admitted   \* history: the service's rows ever committed, purged ones too, of the
               \* calls admitted within an hour of their transaction's start

usageVars == <<half, limited, txn, rateLock, calls, ledger, rollup, placed, total, late, overlapped, admitted>>

Callers == Clients \cup Reviewers
KindOf(c) == IF c \in Clients THEN "service" ELSE "llm"
Kinds == {"service", "llm"}
HourOf(h) == h \div 2
Hours == 0..HourOf(MaxHalf)
None == [at |-> "none"]

\* A kind's rows of an hour.
CallsOf(k, h) == {r \in calls : r.kind = k /\ HourOf(r.at) = h}

-----------------------------------------------------------------------------
HalfHour ==
    /\ half < MaxHalf /\ half' = half + 1
    /\ UNCHANGED <<limited, txn, rateLock, calls, ledger, rollup, placed, total, late, overlapped, admitted>>

TxnBegins(c) ==
    /\ txn[c] = None /\ placed < MaxCalls /\ placed' = placed + 1
    /\ txn' = [txn EXCEPT ![c] = [at |-> "begun", began |-> half, id |-> placed', soon |-> FALSE]]
    /\ UNCHANGED <<half, limited, rateLock, calls, ledger, rollup, total, late, overlapped, admitted>>

\* The calls of the sixty minutes before the transaction's start, and later ones.
Current(c) == {r \in calls : r.kind = "service" /\ r.at > txn[c].began - 2}
CurrentCount(c) == Cardinality(Current(c))

LockFree == rateLock = NoClient

\* No configured limit admits without a row.
RateAcquired(c) ==
    /\ txn[c].at = "begun" /\ c \in Clients /\ LockFree
    /\ ~limited \/ CurrentCount(c) < Limit
    /\ txn' = [txn EXCEPT ![c] = [@ EXCEPT !.at = "called", !.soon = half <= txn[c].began + 2]]
    /\ rateLock' = c
    /\ UNCHANGED <<half, limited, calls, ledger, rollup, placed, total, late, overlapped, admitted>>

\* Over the limit the handler raises and its transaction is rolled back.
RateRefused(c) ==
    /\ txn[c].at = "begun" /\ c \in Clients /\ LockFree
    /\ limited /\ CurrentCount(c) >= Limit
    /\ txn' = [txn EXCEPT ![c] = None]
    /\ UNCHANGED <<half, limited, rateLock, calls, ledger, rollup, placed, total, late, overlapped, admitted>>

ReviewCalled(c) ==
    /\ txn[c].at = "begun" /\ c \in Reviewers
    /\ txn' = [txn EXCEPT ![c] = [@ EXCEPT !.at = "called"]]
    /\ UNCHANGED <<half, limited, rateLock, calls, ledger, rollup, placed, total, late, overlapped, admitted>>

Unlock(c) == rateLock' = IF rateLock = c THEN NoClient ELSE rateLock

\* The hour is in the ledger, or about to be.
RolledUp(k, h) ==
    \/ \E e \in BagToSet(ledger) : e.kind = k /\ e.hour = h
    \/ \E j \in Rollups : rollup[j] # None /\ h < HourOf(rollup[j].began)

\* The row's time is the transaction's start, and the commit may be hours later.
TxnCommits(c) ==
    LET k == KindOf(c) h == HourOf(txn[c].began)
        row == [id |-> txn[c].id, kind |-> k, at |-> txn[c].began]
    IN
    /\ txn[c].at = "called"
    /\ txn' = [txn EXCEPT ![c] = None] /\ Unlock(c)
    /\ IF c \in Reviewers \/ limited
       THEN /\ calls' = calls \cup {row}
            /\ total' = [total EXCEPT ![k][h] = @ + 1]
            /\ late' = IF RolledUp(k, h) THEN late \cup {<<k, h>>} ELSE late
            /\ admitted' = IF c \in Clients /\ txn[c].soon THEN admitted \cup {row} ELSE admitted
       ELSE UNCHANGED <<calls, total, late, admitted>>
    /\ UNCHANGED <<half, limited, ledger, rollup, placed, overlapped>>

\* The call was made; the row that counts it is gone with the handler.
TxnRollsBack(c) ==
    /\ txn[c].at = "called"
    /\ txn' = [txn EXCEPT ![c] = None] /\ Unlock(c)
    /\ UNCHANGED <<half, limited, calls, ledger, rollup, placed, total, late, overlapped, admitted>>

-----------------------------------------------------------------------------
\* Faulty variant: the hour that is still open, too.
Finished_Open(h) == h <= HourOf(half)
Finished(h) == h < HourOf(half)

\* A finished hour with rows and no entry in the ledger.
Unrolled(k, h) ==
    /\ Finished(h) /\ CallsOf(k, h) # {}
    /\ ~\E e \in BagToSet(ledger) : e.kind = k /\ e.hour = h

Aggregated ==
    {[kind |-> p[1], hour |-> p[2], count |-> Cardinality(CallsOf(p[1], p[2]))] :
        p \in {q \in Kinds \X Hours : Unrolled(q[1], q[2])}}

RollupInserts(j) ==
    /\ rollup[j] = None
    /\ rollup' = [rollup EXCEPT ![j] = [at |-> "inserted", began |-> half, new |-> Aggregated]]
    /\ overlapped' = (overlapped \/ \E i \in Rollups : rollup[i] # None)
    /\ UNCHANGED <<half, limited, txn, rateLock, calls, ledger, placed, total, late, admitted>>

\* Faulty variant: the window is all that is kept.
Purged_Window(j) == {r \in calls : r.kind = "service" /\ r.at < rollup[j].began - 2}

\* The service's rows older than two hours; reviews are an audit trail.
Purged(j) == {r \in calls : r.kind = "service" /\ r.at < rollup[j].began - 4}

RollupCommits(j) ==
    /\ rollup[j] # None
    /\ ledger' = ledger (+) SetToBag(rollup[j].new)
    /\ calls' = calls \ Purged(j)
    /\ rollup' = [rollup EXCEPT ![j] = None]
    /\ UNCHANGED <<half, limited, txn, rateLock, placed, total, late, overlapped, admitted>>

RollupFails(j) ==
    /\ rollup[j] # None
    /\ rollup' = [rollup EXCEPT ![j] = None]
    /\ UNCHANGED <<half, limited, txn, rateLock, calls, ledger, placed, total, late, overlapped, admitted>>

-----------------------------------------------------------------------------
UsageInit ==
    /\ half = 0 /\ limited \in BOOLEAN /\ rateLock = NoClient
    /\ txn = [c \in Callers |-> None] /\ rollup = [j \in Rollups |-> None]
    /\ calls = {} /\ ledger = EmptyBag /\ placed = 0
    /\ total = [k \in Kinds |-> [h \in Hours |-> 0]]
    /\ late = {} /\ overlapped = FALSE /\ admitted = {}

UsageNext ==
    \/ HalfHour
    \/ \E c \in Callers :
          \/ TxnBegins(c) \/ RateAcquired(c) \/ RateRefused(c) \/ ReviewCalled(c)
          \/ TxnCommits(c) \/ TxnRollsBack(c)
    \/ \E j \in Rollups : RollupInserts(j) \/ RollupCommits(j) \/ RollupFails(j)

UsageSpec == UsageInit /\ [][UsageNext]_usageVars

-----------------------------------------------------------------------------
CallRows == [id : 1..MaxCalls, kind : Kinds, at : 0..MaxHalf]
Entries == [kind : Kinds, hour : Hours, count : Nat \ {0}]

UsageTypeOK ==
    /\ half \in 0..MaxHalf /\ limited \in BOOLEAN /\ rateLock \in Clients \cup {NoClient}
    /\ txn \in [Callers -> {None} \cup [at : {"begun", "called"}, began : 0..MaxHalf, id : 1..MaxCalls, soon : BOOLEAN]]
    /\ calls \subseteq CallRows /\ IsFiniteSet(calls)
    /\ IsABag(ledger) /\ BagToSet(ledger) \subseteq Entries
    /\ rollup \in [Rollups -> {None} \cup [at : {"inserted"}, began : 0..MaxHalf, new : SUBSET Entries]]
    /\ placed \in 0..MaxCalls /\ total \in [Kinds -> [Hours -> Nat]]
    /\ late \subseteq Kinds \X Hours /\ overlapped \in BOOLEAN
    /\ admitted \subseteq CallRows

\* The limiter admits to the transactions that began in any sixty minutes at
\* most the limit, however long their handlers then run and although the rollup
\* purges rows meanwhile: what it deletes, no admission within an hour of its
\* transaction's start would still count.  Outside it are calls that waited
\* longer, and those whose row is rolled back with their handler (rate_limiter.py:64).
WithinLimit ==
    limited => \A h \in 0..MaxHalf : Cardinality({r \in admitted : r.at \in (h - 1)..h}) <= Limit

\* An hour's rows are all in the table or all in the ledger, whose entry for
\* the hour is exact and, without overlapping rollups, single; only a row
\* committed after its hour was rolled up is in neither (rollup_api_usage.py:45).
EveryCallCounted ==
    \A k \in Kinds : \A h \in Hours : <<k, h>> \notin late =>
        LET entries == {e \in BagToSet(ledger) : e.kind = k /\ e.hour = h}
        IN  /\ entries = {} => Cardinality(CallsOf(k, h)) = total[k][h]
            /\ \A e \in entries : e.count = total[k][h] /\ (overlapped \/ ledger[e] = 1)
=============================================================================
