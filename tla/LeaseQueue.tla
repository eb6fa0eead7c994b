----------------------------- MODULE LeaseQueue -----------------------------
(***************************************************************************)
(* What the job queue promises, with no worker loop, semaphore, priority,  *)
(* retry count or kill switch in sight: a job is open, leased to a holder  *)
(* or closed.  Holders act on a lease until they settle it or vanish.  A   *)
(* lease may be revoked or a leased job withdrawn under its holder, and    *)
(* only from then on is the job tainted: it may have two holders, and a    *)
(* holder's late report may reopen it.                                     *)
(***************************************************************************)
CONSTANTS Jobs, Holders

VARIABLES
    phase,    \* "absent", "open", "leased" or "closed"
    holders,  \* who acts on a lease of the job
    tainted   \* jobs that lost their lease under a holder

lvars == <<phase, holders, tainted>>

LTypeOK ==
    /\ phase \in [Jobs -> {"absent", "open", "leased", "closed"}]
    /\ holders \in [Jobs -> SUBSET Holders]
    /\ tainted \subseteq Jobs

LInit ==
    /\ phase = [j \in Jobs |-> "absent"]
    /\ holders = [j \in Jobs |-> {}]
    /\ tainted = {}

Offer(j) ==
    /\ phase[j] = "absent"
    /\ phase' = [phase EXCEPT ![j] = "open"]
    /\ UNCHANGED <<holders, tainted>>

\* An open job is leased, by one holder or by one that is gone at once.
Lease(j) ==
    /\ phase[j] = "open"
    /\ phase' = [phase EXCEPT ![j] = "leased"]
    /\ holders' \in [Jobs -> SUBSET Holders]
    /\ \A k \in Jobs \ {j} : holders'[k] = holders[k]
    /\ holders[j] \subseteq holders'[j]
    /\ \A g, h \in holders'[j] \ holders[j] : g = h
    /\ UNCHANGED tainted

\* A holder ends and reports: the job is closed, or open for another attempt.
Settle(j, h, p) ==
    /\ h \in holders[j]
    /\ phase' = [phase EXCEPT ![j] = p]
    /\ holders' = [holders EXCEPT ![j] = @ \ {h}]
    /\ UNCHANGED tainted

\* Holders vanish without a report.
Vanish ==
    /\ holders' \in [Jobs -> SUBSET Holders]
    /\ \A j \in Jobs : holders'[j] \subseteq holders[j]
    /\ UNCHANGED <<phase, tainted>>

\* Leases are revoked, for another attempt or for good.
Revoke(S, closed) ==
    /\ \A j \in S : phase[j] = "leased"
    /\ phase' = [j \in Jobs |-> IF j \notin S THEN phase[j]
                                ELSE IF j \in closed THEN "closed" ELSE "open"]
    /\ tainted' = tainted \cup {j \in S : holders[j] # {}}
    /\ UNCHANGED holders

\* A job is withdrawn: cleanly while it is open, else it is tainted.
Withdraw(j) ==
    /\ phase[j] # "absent"
    /\ phase' = [phase EXCEPT ![j] = "closed"]
    /\ tainted' = IF phase[j] = "open" THEN tainted ELSE tainted \cup {j}
    /\ UNCHANGED holders

\* The holder of a tainted job takes its lease back.
Retake(j) ==
    /\ j \in tainted /\ holders[j] # {}
    /\ phase' = [phase EXCEPT ![j] = "leased"]
    /\ UNCHANGED <<holders, tainted>>

LNext ==
    \/ \E j \in Jobs : \/ Offer(j) \/ Withdraw(j) \/ Retake(j)
                       \/ Lease(j)
                       \/ \E h \in holders[j], p \in {"open", "closed"} : Settle(j, h, p)
    \/ Vanish
    \/ \E S, closed \in SUBSET Jobs : Revoke(S, closed)

\* A job that never lost its lease has one holder at most, and only while leased.
SingleHolder ==
    \A j \in Jobs \ tainted :
        /\ \A g, h \in holders[j] : g = h
        /\ holders[j] # {} => phase[j] = "leased"

LSpec == LInit /\ [][LNext]_lvars
=============================================================================
