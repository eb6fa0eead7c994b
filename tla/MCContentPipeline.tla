-------------------------- MODULE MCContentPipeline --------------------------
(* Instances of ContentPipeline for TLC. *)
EXTENDS ContentPipeline, TLC

CONSTANTS
    e, f,   \* episodes
    t, u,   \* thinkers
    scan,   \* a feed's scan, started before u was approved
    rescan  \* u's rescan

MCFinds == [p \in Promoters |-> [c \in Contents |->
    IF p = rescan THEN {u} ELSE IF c = e THEN {t} ELSE {}]]
MCDiscovered == [c \in Contents |-> IF c = e THEN 1 ELSE 2]
SweepSymmetry == Permutations(Sweeps)
=============================================================================
