----------------------------- MODULE MCJobQueue -----------------------------
(* Instances of JobQueue for TLC. *)
EXTENDS JobQueue, TLC

CONSTANTS a,      \* a feed fetch, which backpressure may demote
          b, c    \* transcriptions

\* A fetch is inserted with a row limit one below its type's (3 and 4 in the
\* code, one less of each here).
MCRowMax == [j \in Jobs |-> 2]
MCTypeMax == [j \in Jobs |-> IF j = a THEN 3 ELSE 2]
\* A transcription: both limits are get_max_attempts("process_content").
MCTranscriptionMax == [j \in Jobs |-> 2]
\* A transcription an operator started or retried: the row says 3, the type 2,
\* so that a reclaim at its first attempt returns it to the queue and it is
\* claimed again beside the slow execution.  The other gets one attempt.
MCOperatorsRow == [j \in Jobs |-> IF j = a THEN 3 ELSE 1]
MCAccepts == [w \in Workers |-> Jobs]
\* No worker takes transcriptions: they only make the queue deep.
MCFeedsOnly == [w \in Workers |-> {a}]
WorkerSymmetry == Permutations(Workers)
=============================================================================
