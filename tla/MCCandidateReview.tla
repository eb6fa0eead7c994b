-------------------------- MODULE MCCandidateReview --------------------------
(* Instances of CandidateReview for TLC. *)
EXTENDS CandidateReview
=============================================================================
