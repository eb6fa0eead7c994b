-------------------------------- MODULE Corpus --------------------------------
(***************************************************************************)
(* How texts enter the claims corpus: transcripts, an expert's papers and  *)
(* the posts of the sites he owns become done content, embed_content cuts  *)
(* each into embedded chunks, and the embed_pending_content sweep enqueues *)
(* what the direct enqueue missed.                                         *)
(***************************************************************************)
EXTENDS Integers, Sequences, FiniteSets

CONSTANTS
    Transcripts, \* content that process_content transcribes
    Blank,       \* those whose text yields no chunk
    Works,       \* papers and posts, by canonical URL
    About,       \* of each work: its kind, normalized title, authors
    Ingests,     \* ingest_expert_papers and ingest_owned_text_source rows
    For,         \* of each row: its kind and expert
    NoAuthor,
    SWEEP_BUDGET,
    MaxFails     \* bound on failures, reclamations and second transcriptions

ASSUME CorpusAssumption ==
    /\ Blank \subseteq Transcripts /\ Transcripts \cap Works = {}
    /\ \A j \in Ingests : For[j].expert # NoAuthor
    /\ SWEEP_BUDGET \in Nat /\ Cardinality(Blank) < SWEEP_BUDGET /\ MaxFails \in Nat

VARIABLES
    done,     \* transcripts in the order of processed_at
    author,   \* content rows of works: the expert attributed, committed
    ingest,   \* ingest rows: the transaction of the running execution
    papersOf, \* experts whose 'openalex' source is committed
    embed,    \* embed_content of each text: open rows, live executions, overtaken ones
    chunked,  \* texts with content_chunks
    sweep,    \* whether a sweep is running, and the texts it found covered
    fails

corpusVars == <<done, author, ingest, papersOf, embed, chunked, sweep, fails>>

Texts == Transcripts \cup Works
Done(d) == (\E i \in DOMAIN done : done[i] = d) \/ (d \in Works /\ author[d] # NoAuthor)
HasEmbedJob(d) == embed[d].open + embed[d].live > 0
Enqueued(S) == [d \in Texts |-> IF d \in S THEN [embed[d] EXCEPT !.open = @ + 1] ELSE embed[d]]
NoSweep == [on |-> FALSE, covered |-> {}]
Fault == fails < MaxFails /\ fails' = fails + 1

-----------------------------------------------------------------------------
\* process_content's store: the transcript, with the time, and its embed job in
\* one commit.  One transcribed again becomes the latest.
Transcribed(d) ==
    /\ d \in Transcripts
    /\ \/ ~Done(d) /\ done' = Append(done, d) /\ UNCHANGED fails
       \/ Fault /\ \E k \in DOMAIN done : done[k] = d /\ done' =
              [i \in 1..Len(done) |-> IF i < k THEN done[i] ELSE IF i < Len(done) THEN done[i + 1] ELSE d]
    /\ embed' = Enqueued({d})
    /\ UNCHANGED <<author, ingest, papersOf, chunked, sweep>>

IngestAt(j) == ingest[j].at
Expert(j) == For[j].expert
Uncommitted(v) == {j \in Ingests : IngestAt(j) = "inserting" /\ v \in ingest[j].rows}
Moves(j, at) == ingest' = [ingest EXCEPT ![j].at = at]

\* What a fetch may return: OpenAlex one version of each paper, the feed or Exa
\* any of the posts; any failure is an empty list.
CanFind(j) ==
    LET mine == {v \in Works : About[v].kind = For[j].kind /\ Expert(j) \in About[v].authors}
        titles == {About[v].title : v \in mine}
    IN {S \in SUBSET mine : /\ Cardinality({About[v].title : v \in S}) = Cardinality(S)
                            /\ For[j].kind = "paper" => S = {} \/ {About[v].title : v \in S} = titles}

IngestFetches(j) ==
    /\ IngestAt(j) = "pending"
    /\ \E S \in CanFind(j) :
         ingest' = [ingest EXCEPT ![j] = [at |-> IF S = {} THEN "done" ELSE "fetched", found |-> S,
                                          todo |-> S, titles |-> {}, rows |-> {}, source |-> FALSE]]
    /\ UNCHANGED <<done, author, papersOf, embed, chunked, sweep, fails>>

\* _get_or_create_papers_source, whose insert waits for one that has not
\* committed, and the titles this expert already has.
IngestOpens(j) ==
    /\ IngestAt(j) = "fetched"
    /\ For[j].kind = "paper" =>
         ~\E k \in Ingests : IngestAt(k) = "inserting" /\ ingest[k].source /\ Expert(k) = Expert(j)
    /\ ingest' = [ingest EXCEPT ![j].at = "inserting",
         ![j].source = For[j].kind = "paper" /\ Expert(j) \notin papersOf,
         ![j].titles = IF For[j].kind # "paper" THEN {}
                       ELSE {About[v].title : v \in {w \in Works : author[w] = Expert(j) /\ About[w].kind = "paper"}}]
    /\ UNCHANGED <<done, author, papersOf, embed, chunked, sweep, fails>>

Skips(j, v) == author[v] # NoAuthor \/ About[v].title \in ingest[j].titles

Takes(j, v) == ingest' = [ingest EXCEPT ![j].todo = @ \ {v}, ![j].rows = @ \cup {v},
                                        ![j].titles = @ \cup {About[v].title}]
Leaves(j, v) == ingest' = [ingest EXCEPT ![j].todo = @ \ {v}]

\* Faulty variant: a URL that another transaction has inserted counts as there.
IngestInserts_NoWait(j, v) ==
    /\ IngestAt(j) = "inserting" /\ v \in ingest[j].todo
    /\ IF Skips(j, v) \/ Uncommitted(v) # {} THEN Leaves(j, v) ELSE Takes(j, v)
    /\ UNCHANGED <<done, author, papersOf, embed, chunked, sweep, fails>>

\* create_author_content: ON CONFLICT (canonical_url) DO NOTHING waits for an
\* uncommitted row of the same URL, then inserts nothing if it was committed.
IngestInserts(j, v) ==
    /\ IngestAt(j) = "inserting" /\ v \in ingest[j].todo
    /\ \/ Skips(j, v) /\ Leaves(j, v)
       \/ ~Skips(j, v) /\ Uncommitted(v) = {} /\ Takes(j, v)
    /\ UNCHANGED <<done, author, papersOf, embed, chunked, sweep, fails>>

\* The transaction ends: rows, attributions and embed jobs together.
IngestCommits(j) ==
    /\ IngestAt(j) = "inserting" /\ ingest[j].todo = {}
    /\ author' = [v \in Works |-> IF v \in ingest[j].rows THEN Expert(j) ELSE author[v]]
    /\ embed' = Enqueued(ingest[j].rows)
    /\ papersOf' = IF ingest[j].source THEN papersOf \cup {Expert(j)} ELSE papersOf
    /\ Moves(j, "done")
    /\ UNCHANGED <<done, chunked, sweep, fails>>

\* Two transactions that wait for each other's rows: the database aborts one.
Waits(j, k) == \E v \in ingest[j].todo : ~Skips(j, v) /\ k \in Uncommitted(v)
IngestDeadlocks(j, k) ==
    /\ IngestAt(j) = "inserting" /\ j # k /\ Waits(j, k) /\ Waits(k, j)
    /\ Moves(j, "pending")
    /\ UNCHANGED <<done, author, papersOf, embed, chunked, sweep, fails>>

IngestFails(j) ==
    /\ IngestAt(j) \in {"fetched", "inserting"}
    /\ Fault /\ Moves(j, "pending")
    /\ UNCHANGED <<done, author, papersOf, embed, chunked, sweep>>

-----------------------------------------------------------------------------
\* Faulty variant: a text without chunks goes on.
EmbedStarts_Blank(d) ==
    /\ embed[d].open > 0
    /\ embed' = [embed EXCEPT ![d].open = @ - 1, ![d].live = IF d \in chunked THEN @ ELSE @ + 1]
    /\ UNCHANGED <<done, author, ingest, papersOf, chunked, sweep, fails>>

\* handle_embed_content up to the embedding request: a text with chunks, and
\* one that yields none, is finished.
EmbedStarts(d) ==
    /\ embed[d].open > 0
    /\ embed' = [embed EXCEPT ![d].open = @ - 1,
                              ![d].live = IF d \in chunked \cup Blank THEN @ ELSE @ + 1]
    /\ UNCHANGED <<done, author, ingest, papersOf, chunked, sweep, fails>>

\* The chunks in one commit.  Another execution's chunks make the unique
\* constraint (content_id, chunk_index) refuse them: the row is retried.
EmbedCommits(d) ==
    /\ embed[d].live > 0
    /\ embed' = [embed EXCEPT ![d].live = @ - 1, ![d].open = IF d \in chunked THEN @ + 1 ELSE @]
    /\ chunked' = chunked \cup {d}
    /\ UNCHANGED <<done, author, ingest, papersOf, sweep, fails>>

OvertakenCommits(d) ==
    /\ embed[d].overtaken > 0
    /\ embed' = [embed EXCEPT ![d].overtaken = @ - 1]
    /\ chunked' = chunked \cup {d}
    /\ UNCHANGED <<done, author, ingest, papersOf, sweep, fails>>

\* The embedding service fails: retried, or out of attempts.
EmbedFails(d) ==
    /\ embed[d].live > 0 /\ Fault
    /\ \/ embed' = [embed EXCEPT ![d].live = @ - 1, ![d].open = @ + 1]
       \/ embed' = [embed EXCEPT ![d].live = @ - 1]
    /\ UNCHANGED <<done, author, ingest, papersOf, chunked, sweep>>

\* A slow execution is reclaimed and goes on.
EmbedReclaimed(d) ==
    /\ embed[d].live > 0 /\ Fault
    /\ embed' = [embed EXCEPT ![d].live = @ - 1, ![d].open = @ + 1, ![d].overtaken = @ + 1]
    /\ UNCHANGED <<done, author, ingest, papersOf, chunked, sweep>>

-----------------------------------------------------------------------------
\* Faulty variant: texts with chunks keep their place in the sweep's order.
Unembedded_All(d) == Done(d)

Unembedded(d) == Done(d) /\ d \notin chunked

\* ORDER BY processed_at: authored texts have none and come last, in any order.
Precedes(d, e) == \E i \in DOMAIN done : done[i] = d /\ (e \in Works \/ \E k \in DOMAIN done : i < k /\ done[k] = e)

SweepReads ==
    /\ ~sweep.on
    /\ sweep' = [on |-> TRUE, covered |-> {d \in Texts : HasEmbedJob(d)}]
    /\ UNCHANGED <<done, author, ingest, papersOf, embed, chunked, fails>>

SweepEnqueues ==
    /\ sweep.on
    /\ LET list == {d \in Texts : Unembedded(d)} \ sweep.covered IN
       \E S \in SUBSET list :
         /\ Cardinality(S) <= SWEEP_BUDGET
         /\ S # list => Cardinality(S) = SWEEP_BUDGET
         /\ \A d \in S, e \in list \ S : ~Precedes(e, d)
         /\ embed' = Enqueued(S)
    /\ sweep' = NoSweep
    /\ UNCHANGED <<done, author, ingest, papersOf, chunked, fails>>

-----------------------------------------------------------------------------
CorpusInit ==
    /\ done = <<>> /\ author = [v \in Works |-> NoAuthor] /\ papersOf = {}
    /\ ingest = [j \in Ingests |-> [at |-> "pending", found |-> {}, todo |-> {}, titles |-> {},
                                    rows |-> {}, source |-> FALSE]]
    /\ embed = [d \in Texts |-> [open |-> 0, live |-> 0, overtaken |-> 0]]
    /\ chunked = {} /\ sweep = NoSweep /\ fails = 0

CorpusNext ==
    \/ \E d \in Transcripts : Transcribed(d)
    \/ \E j \in Ingests : \/ IngestFetches(j) \/ IngestOpens(j) \/ IngestCommits(j) \/ IngestFails(j)
                          \/ \E v \in Works : IngestInserts(j, v)
                          \/ \E k \in Ingests : IngestDeadlocks(j, k)
    \/ \E d \in Texts : EmbedStarts(d) \/ EmbedCommits(d) \/ OvertakenCommits(d) \/ EmbedFails(d) \/ EmbedReclaimed(d)
    \/ SweepReads \/ SweepEnqueues

\* The queue runs its rows and the scheduler its sweeps (JobQueue, RecurringScheduler).
CorpusFair ==
    /\ \A d \in Texts : WF_corpusVars(EmbedStarts(d)) /\ WF_corpusVars(EmbedCommits(d))
    /\ WF_corpusVars(SweepReads) /\ WF_corpusVars(SweepEnqueues)

CorpusSpec == CorpusInit /\ [][CorpusNext]_corpusVars /\ CorpusFair

-----------------------------------------------------------------------------
Titles == {About[v].title : v \in Works}

CorpusTypeOK ==
    /\ done \in Seq(Transcripts) /\ fails \in 0..MaxFails
    /\ \A v \in Works : author[v] = NoAuthor \/ author[v] \in About[v].authors
    /\ ingest \in [Ingests -> [at : {"pending", "fetched", "inserting", "done"}, found : SUBSET Works,
                               todo : SUBSET Works, titles : SUBSET Titles, rows : SUBSET Works, source : BOOLEAN]]
    /\ \A j \in Ingests : ingest[j].todo \cup ingest[j].rows \subseteq ingest[j].found
    /\ papersOf \subseteq {Expert(j) : j \in Ingests}
    /\ embed \in [Texts -> [open : Nat, live : Nat, overtaken : Nat]]
    /\ chunked \subseteq {d \in Texts \ Blank : Done(d)}
    /\ sweep \in [on : BOOLEAN, covered : SUBSET Texts]

\* What an execution that completed found is in the corpus: an overlapping
\* transaction's row that made it skip a URL was committed, and an abort of one
\* of two that wait for each other loses nothing (text_content.py:66-78).
FetchedIsKept ==
    \A j \in Ingests : IngestAt(j) = "done" =>
        \A v \in ingest[j].found : \/ author[v] # NoAuthor
                                   \/ \E w \in Works : About[w].title = About[v].title /\ author[w] = Expert(j)

\* Every text with something to embed is embedded, whatever its own embed job
\* met: the sweep is the net (embed_pending_content.py:4-7), as long as fewer
\* texts than its budget yield no chunk, which it enqueues again for ever.
EmbeddedInTheEnd == \A d \in Texts \ Blank : Done(d) ~> d \in chunked
=============================================================================
