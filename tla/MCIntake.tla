-------------------------------- MODULE MCIntake --------------------------------
(* What brings texts in and what makes them a corpus: the feeds of the       *)
(* sources, and the ingestion and embedding of texts.  The two share no      *)
(* state; one of them, `focus`, moves in each behaviour.                     *)
EXTENDS FeedIngest, Corpus

CONSTANTS
    e1, e2, e3, \* entries
    x1, x2, \* experts
    i1, i2  \* their ingest rows

VARIABLE focus

MCInit ==
    /\ focus \in {"feeds", "texts"}
    /\ FeedInit /\ CorpusInit
    /\ focus # "feeds" => profile = [s \in FeedSources |-> [channel |-> FALSE, guested |-> FALSE, paced |-> TRUE]]

MCNext ==
    /\ UNCHANGED focus
    /\ \/ focus = "feeds" /\ FeedNext /\ UNCHANGED corpusVars
       \/ focus = "texts" /\ CorpusNext /\ UNCHANGED feedVars

\* Each module's fairness while it moves.
MCSpec ==
    /\ MCInit /\ [][MCNext]_<<feedVars, corpusVars, focus>>
    /\ WF_feedVars(focus = "feeds" /\ RefreshStep)
    /\ \A s \in FeedSources : WF_feedVars(focus = "feeds" /\ FetchStep(s))
    /\ \A d \in Texts : /\ WF_corpusVars(focus = "texts" /\ EmbedStarts(d))
                        /\ WF_corpusVars(focus = "texts" /\ EmbedCommits(d))
    /\ WF_corpusVars(focus = "texts" /\ SweepReads)
    /\ WF_corpusVars(focus = "texts" /\ SweepEnqueues)

MCDayOf == [e \in Entries |-> IF e = e3 THEN 2 ELSE 1]

\* A podcast and a channel, with a refresh interval.
MCProfiles == {[channel |-> c, guested |-> FALSE, paced |-> TRUE] : c \in BOOLEAN}

MCAbout == [v \in Works |-> [kind |-> "paper", title |-> v, authors |-> {x1, x2}]]
MCFor == [j \in Ingests |-> [kind |-> "paper", expert |-> IF j = i1 THEN x1 ELSE x2]]

\* The type invariants of the two modules.
TypesOK == FeedTypeOK /\ CorpusTypeOK

\* DueIsFetched, of a behaviour in which the feeds move.
DueFeedsFetched == focus = "feeds" => DueIsFetched
=============================================================================
