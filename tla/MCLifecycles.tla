----------------------------- MODULE MCLifecycles -----------------------------
(* Three things that must reach an end: a candidate, an inquiry, an episode. *)
(* Their modules share no state; one of them, `focus`, moves in each         *)
(* behaviour.                                                                *)
EXTENDS CandidateReview, Inquiry

CONSTANTS
    Contents, EpisodeThinkers, Promoter, Sweeps, Threshold, EpisodeTries, EpisodeFaults

ASSUME LifecyclesAssumption ==
    /\ IsFiniteSet(Contents) /\ Promoter \notin Sweeps
    /\ Threshold \in Nat /\ EpisodeTries \in Nat \ {0} /\ EpisodeFaults \in Nat

VARIABLES
    focus,
    content, attrib, episodeJobs, look, pcs, budget, covered, picked, episodeFaults, made, raced

reviewVars == vars
episodeVars ==
    <<content, attrib, episodeJobs, look, pcs, budget, covered, picked, episodeFaults, made, raced>>

\* The promoter, a rescan, finds every thinker in every episode; episodes were
\* discovered in any order that the sweep may take.
Order == CHOOSE o \in [Contents -> 1..Cardinality(Contents)] : \A c, d \in Contents : c # d => o[c] # o[d]

Episodes == INSTANCE ContentPipeline WITH
    Thinkers <- EpisodeThinkers, Promoters <- {Promoter}, Rescans <- {Promoter}, Recent <- Contents,
    Finds <- [p \in {Promoter} |-> [c \in Contents |-> EpisodeThinkers]], Discovered <- Order,
    MaxTries <- EpisodeTries, MaxFaults <- EpisodeFaults, jobs <- episodeJobs, faults <- episodeFaults

MCInit ==
    /\ focus \in {"candidate", "inquiry", "episode"}
    /\ Init /\ InquiryInit /\ Episodes!Init
    /\ focus # "episode" => content = [c \in Contents |-> "cataloged"]

MCNext ==
    /\ UNCHANGED focus
    /\ \/ focus = "candidate" /\ Next /\ UNCHANGED <<inquiryVars, episodeVars>>
       \/ focus = "inquiry" /\ InquiryNext /\ UNCHANGED <<reviewVars, episodeVars>>
       \/ focus = "episode" /\ Episodes!Next /\ UNCHANGED <<reviewVars, inquiryVars>>

\* Each module's fairness while it moves.
MCSpec ==
    /\ MCInit /\ [][MCNext]_<<reviewVars, inquiryVars, episodeVars, focus>>
    /\ \A c \in Candidates : \A kind \in {"vet", "judge", "critic"} :
          WF_reviewVars(focus = "candidate" /\ \E j \in Rows : j.cand = c /\ j.kind = kind /\ Handle(j))
    /\ \A r \in InquiryRows : WF_inquiryVars(focus = "inquiry" /\ RunStep(r))
    /\ WF_episodeVars(focus = "episode" /\ Episodes!Promote(Promoter))
    /\ \A s \in Sweeps : WF_episodeVars(focus = "episode" /\ Episodes!Sweep(s))
    /\ \A c \in Contents : WF_episodeVars(
          focus = "episode" /\ \E i \in Episodes!Ids : episodeJobs[i].content = c /\ Episodes!Handle(i))

\* The type invariants of the three modules.
TypesOK == TypeOK /\ InquiryTypeOK /\ Episodes!TypeOK

\* ContentPipeline's liveness, of the instance.
EpisodesTranscribed == Episodes!TranscribedInTheEnd
=============================================================================
