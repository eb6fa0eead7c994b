------------------------------ MODULE FeedIngest ------------------------------
(***************************************************************************)
(* Approved sources and the jobs that fetch them: refresh_due_sources      *)
(* enqueues a fetch for every source that is due, discover_thinker and the *)
(* buttons enqueue others, and a fetch reads the source, downloads its     *)
(* entries, drops those the database has, and commits the rest with the    *)
(* source's new high-water mark.                                           *)
(*                                                                         *)
(* An entry has a publication date, which others may share, and appears in *)
(* the feed on that day or later, and in any order.  One without a date is *)
(* never cut off, and is left out.  Days are the unit of dates and of the  *)
(* refresh interval, which is one day or absent (NULL).                    *)
(***************************************************************************)
EXTENDS Integers, FiniteSets, Bags

CONSTANTS
    FeedSources,  \* the sources
    Entries,      \* the entries of a feed
    DayOf,        \* each entry's published_at
    MaxDay,       \* bound on days
    Profiles,     \* what a source can be: a channel, guested, paced
    Mentions,     \* the entries that mention that guest
    FetchTries,   \* get_max_attempts of the fetch jobs
    MaxForces,    \* bound on fetches that operators and discovery enqueue
    MaxTurns      \* bound on changes of a source's approval

ASSUME FeedAssumption ==
    /\ IsFiniteSet(FeedSources) /\ IsFiniteSet(Entries)
    /\ MaxDay \in Nat /\ DayOf \in [Entries -> 1..MaxDay]
    /\ Profiles \subseteq [channel : BOOLEAN, guested : BOOLEAN, paced : BOOLEAN]
    /\ Mentions \subseteq Entries
    /\ FetchTries \in Nat \ {0} /\ MaxForces \in Nat /\ MaxTurns \in Nat

VARIABLES
    profile,   \* each source: of type youtube_channel, known for a guest,
               \* with a refresh_interval_hours
    today,     \* the clock
    feed,      \* what each source's feed lists
    source,    \* the columns of sources
    catalog,   \* the content rows of each source
    fetches,   \* the queued and running fetch jobs, a bag
    refresh,   \* the refresh job: idle, or the sources it found due and its inserts
    forces,
    turns,
    overtaken, \* history: entries that appeared after a fetch had read one of their
               \* date or a younger one, or whose date a fetch that found nothing passed
    broken     \* history: sources a fetch of which failed for good

feedVars == <<profile, today, feed, source, catalog, fetches, refresh, forces, turns, overtaken, broken>>

Never == -1   \* NULL in last_fetched and latest_published_at
Idle == [at |-> "idle"]
FetchRows == BagToSet(fetches)
Open(s, k) == {j \in FetchRows : j.src = s /\ j.kind = k}

\* How many open jobs of the kind the source has.
InFlightOf(s, k) ==
    LET open == Open(s, k) IN BagCardinality([j \in open |-> fetches[j]])

Dates(E) == {DayOf[e] : e \in E}

FetchKind(s) == IF profile[s].channel THEN "channel" ELSE "podcast"

NewFetch(s, k, guest) ==
    [src |-> s, kind |-> k, guest |-> guest, state |-> "queued", tries |-> 0,
     stage |-> "none", seen |-> Idle, got |-> {}]

FetchBecomes(j, to) == (fetches (-) SetToBag({j})) (+) SetToBag({to})

-----------------------------------------------------------------------------
(* The world: days pass, entries appear, approvals change.                 *)

DayPasses ==
    /\ today < MaxDay /\ today' = today + 1
    /\ UNCHANGED <<profile, feed, source, catalog, fetches, refresh, forces, turns, overtaken, broken>>

\* The entries of the source that were inserted, or that a fetch holds.
Read(s) == catalog[s] \cup UNION {j.got : j \in {k \in FetchRows : k.src = s}}

Publish(s, e) ==
    /\ DayOf[e] <= today /\ e \notin feed[s]
    /\ feed' = [feed EXCEPT ![s] = @ \cup {e}]
    /\ overtaken' = IF \E y \in Read(s) : DayOf[y] >= DayOf[e] THEN overtaken \cup {<<s, e>>} ELSE overtaken
    /\ UNCHANGED <<profile, today, source, catalog, fetches, refresh, forces, turns, broken>>

\* An operator, or the gate, approves or rejects the source.
Turn(s) ==
    /\ turns < MaxTurns /\ turns' = turns + 1
    /\ source' = [source EXCEPT ![s].approved = ~@]
    /\ UNCHANGED <<profile, today, feed, catalog, fetches, refresh, forces, overtaken, broken>>

-----------------------------------------------------------------------------
(* refresh_due_sources: the due sources in one query, then one look at the *)
(* queue per source, and the inserts in one commit.                        *)

\* The sources to refresh; an interval that is NULL makes the comparison NULL.
DueForRefresh(s) ==
    /\ source[s].approved
    /\ \/ source[s].fetched = Never
       \/ profile[s].paced /\ source[s].fetched + 1 <= today

RefreshQuery ==
    /\ refresh = Idle
    /\ \E s \in FeedSources : DueForRefresh(s)
    /\ refresh' = [at |-> "look", due |-> {s \in FeedSources : DueForRefresh(s)}, new |-> {}]
    /\ UNCHANGED <<profile, today, feed, source, catalog, fetches, forces, turns, overtaken, broken>>

\* One source: skipped while a fetch of its kind is open.
RefreshLooks(s) ==
    /\ refresh.at = "look" /\ s \in refresh.due /\ InFlightOf(s, FetchKind(s)) <= 1
    /\ refresh' = [refresh EXCEPT !.due = @ \ {s},
                                  !.new = IF InFlightOf(s, FetchKind(s)) = 0 THEN @ \cup {s} ELSE @]
    /\ UNCHANGED <<profile, today, feed, source, catalog, fetches, forces, turns, overtaken, broken>>

\* Two open fetches of one source: scalar_one_or_none raises, the refresh of
\* every source is rolled back, and the job is retried or scheduled again.
RefreshAborts(s) ==
    /\ refresh.at = "look" /\ s \in refresh.due /\ InFlightOf(s, FetchKind(s)) > 1
    /\ refresh' = Idle
    /\ UNCHANGED <<profile, today, feed, source, catalog, fetches, forces, turns, overtaken, broken>>

RefreshCommits ==
    /\ refresh.at = "look" /\ refresh.due = {}
    /\ refresh' = Idle
    /\ fetches' = fetches (+) SetToBag({NewFetch(s, FetchKind(s), FALSE) : s \in refresh.new})
    /\ UNCHANGED <<profile, today, feed, source, catalog, forces, turns, overtaken, broken>>

-----------------------------------------------------------------------------
(* Other fetches of a source.                                              *)

EnqueuesFetch(s, k, guest) ==
    /\ forces < MaxForces /\ forces' = forces + 1
    /\ fetches' = fetches (+) SetToBag({NewFetch(s, k, guest)})
    /\ UNCHANGED <<profile, today, feed, source, catalog, refresh, turns, overtaken, broken>>

\* The button asks nothing of the source or of the queue.
ForceRefresh(s) == EnqueuesFetch(s, FetchKind(s), FALSE)

\* apply_source_decision: filtered by the guest, if there is one and the
\* source is not a channel.
GateEnqueues(s) == source[s].approved /\ EnqueuesFetch(s, FetchKind(s), profile[s].guested /\ ~profile[s].channel)

\* discover_thinker: every approved source of the thinker that was never
\* fetched is fetched as a podcast, a channel too.
DiscoverEnqueues(s) ==
    /\ source[s].approved /\ source[s].fetched = Never
    /\ InFlightOf(s, "podcast") = 0
    /\ EnqueuesFetch(s, "podcast", profile[s].guested)

-----------------------------------------------------------------------------
(* fetch_podcast_feed and fetch_youtube_channel.                           *)

\* The claim, and the source as the session sees it until the commit.  A
\* source that is not approved is left alone.
FetchStarts(j) ==
    /\ j.state = "queued"
    /\ fetches' = IF source[j.src].approved
                  THEN FetchBecomes(j, [j EXCEPT !.state = "running", !.tries = @ + 1,
                                                 !.stage = "download", !.seen = source[j.src]])
                  ELSE fetches (-) SetToBag({j})
    /\ UNCHANGED <<profile, today, feed, source, catalog, refresh, forces, turns, overtaken, broken>>

\* Read as a podcast, a channel's page has no entries.
Downloads(j) == IF (j.kind = "channel") = profile[j.src].channel THEN feed[j.src] ELSE {}

FetchDownloads(j) ==
    /\ j.stage = "download"
    /\ fetches' = FetchBecomes(j, [j EXCEPT !.stage = "dedupe", !.got = Downloads(j)])
    /\ UNCHANGED <<profile, today, feed, source, catalog, refresh, forces, turns, overtaken, broken>>

\* The mark, or the last fetch while there is none; none during a backfill.
Cutoff(seen) ==
    IF ~seen.backfilled THEN Never
    ELSE IF seen.mark # Never THEN seen.mark ELSE seen.fetched

\* A channel is compared with the database entry by entry.
Considered(j) ==
    IF j.kind = "channel" THEN j.got
    ELSE {e \in j.got : DayOf[e] > Cutoff(j.seen) /\ (j.guest => e \in Mentions)}

FetchDedupes(j) ==
    /\ j.stage = "dedupe"
    /\ fetches' = FetchBecomes(j, [j EXCEPT !.stage = "commit", !.got = Considered(j) \ catalog[j.src]])
    /\ UNCHANGED <<profile, today, feed, source, catalog, refresh, forces, turns, overtaken, broken>>

\* Faulty variant: the mark is of the newest entry there is, inserted or not.
MarkAfter_Newest(j) ==
    LET days == Dates(feed[j.src]) \cup {j.seen.mark} IN CHOOSE m \in days : \A d \in days : m >= d

\* The mark follows the entries inserted.
MarkAfter(j) ==
    IF j.kind = "channel" THEN j.seen.mark
    ELSE LET days == Dates(j.got) \cup {j.seen.mark} IN CHOOSE m \in days : \A d \in days : m >= d

\* The ORM writes what differs from the source it read.
Written(j, column, value, now) == IF value = j.seen[column] THEN now[column] ELSE value

\* Faulty variant: only a fetch that found something moves last_fetched.
SourceAfter_OnlyNews(j) ==
    [source[j.src] EXCEPT !.fetched = IF j.got = {} THEN @ ELSE today,
                          !.count = @ + Cardinality(j.got), !.mark = MarkAfter(j), !.backfilled = TRUE]

\* last_fetched, item_count and the mark, written when the entries are.
SourceAfter(j) ==
    LET now == source[j.src]
    IN  [now EXCEPT !.fetched = today,
                    !.count = Written(j, "count", j.seen.count + Cardinality(j.got), now),
                    !.mark = Written(j, "mark", MarkAfter(j), now),
                    !.backfilled = TRUE]

\* One transaction; canonical_url is unique.
FetchCommits(j) ==
    /\ j.stage = "commit" /\ j.got \cap catalog[j.src] = {}
    /\ source' = [source EXCEPT ![j.src] = SourceAfter(j)]
    /\ catalog' = [catalog EXCEPT ![j.src] = @ \cup j.got]
    /\ fetches' = fetches (-) SetToBag({j})
    /\ overtaken' = IF SourceAfter(j).mark # Never THEN overtaken
                    ELSE overtaken \cup {<<j.src, e>> : e \in {x \in Entries : DayOf[x] <= today}}
    /\ UNCHANGED <<profile, today, feed, refresh, forces, turns, broken>>

\* The feed or the service fails, another fetch inserted one of the entries
\* first, or the worker is lost; the queue retries up to the limit.
FetchFails(j) ==
    /\ \/ j.stage = "download"
       \/ j.stage = "commit" /\ j.got \cap catalog[j.src] # {}
    /\ IF j.tries < FetchTries
       THEN fetches' = FetchBecomes(j, [j EXCEPT !.state = "queued", !.stage = "none", !.seen = Idle, !.got = {}])
            /\ UNCHANGED broken
       ELSE fetches' = fetches (-) SetToBag({j}) /\ broken' = broken \cup {j.src}
    /\ UNCHANGED <<profile, today, feed, source, catalog, refresh, forces, turns, overtaken>>

-----------------------------------------------------------------------------
FeedInit ==
    /\ profile \in [FeedSources -> Profiles]
    /\ today = 0
    /\ feed = [s \in FeedSources |-> {}]
    /\ source = [s \in FeedSources |-> [approved |-> TRUE, fetched |-> Never, mark |-> Never,
                                        backfilled |-> FALSE, count |-> 0]]
    /\ catalog = [s \in FeedSources |-> {}]
    /\ fetches = EmptyBag /\ refresh = Idle
    /\ forces = 0 /\ turns = 0 /\ overtaken = {} /\ broken = {}

RefreshStep == RefreshQuery \/ (\E s \in FeedSources : RefreshLooks(s) \/ RefreshAborts(s)) \/ RefreshCommits

FetchStep(s) == \E j \in FetchRows :
    /\ j.src = s
    /\ FetchStarts(j) \/ FetchDownloads(j) \/ FetchDedupes(j) \/ FetchCommits(j) \/ FetchFails(j)

FeedNext ==
    \/ DayPasses
    \/ \E s \in FeedSources :
          \/ Turn(s) \/ ForceRefresh(s) \/ GateEnqueues(s) \/ DiscoverEnqueues(s)
          \/ \E e \in Entries : Publish(s, e)
          \/ FetchStep(s)
    \/ RefreshStep

\* The scheduler enqueues the refresh every hour and workers run what is queued.
FeedFair == WF_feedVars(RefreshStep) /\ \A s \in FeedSources : WF_feedVars(FetchStep(s))

FeedSpec == FeedInit /\ [][FeedNext]_feedVars /\ FeedFair

-----------------------------------------------------------------------------
SourceRows == [approved : BOOLEAN, fetched : {Never} \cup 0..MaxDay, mark : {Never} \cup 1..MaxDay,
               backfilled : BOOLEAN, count : Nat]

FetchJobs == [src : FeedSources, kind : {"channel", "podcast"}, guest : BOOLEAN,
              state : {"queued", "running"}, tries : 0..FetchTries,
              stage : {"none", "download", "dedupe", "commit"},
              seen : SourceRows \cup {Idle}, got : SUBSET Entries]

FeedTypeOK ==
    /\ profile \in [FeedSources -> Profiles] /\ today \in 0..MaxDay
    /\ feed \in [FeedSources -> SUBSET Entries] /\ catalog \in [FeedSources -> SUBSET Entries]
    /\ \A s \in FeedSources : catalog[s] \subseteq feed[s]
    /\ source \in [FeedSources -> SourceRows]
    /\ IsABag(fetches) /\ FetchRows \subseteq FetchJobs
    /\ refresh \in {Idle} \cup [at : {"look"}, due : SUBSET FeedSources, new : SUBSET FeedSources]
    /\ overtaken \subseteq FeedSources \X Entries /\ broken \subseteq FeedSources
    /\ forces \in 0..MaxForces /\ turns \in 0..MaxTurns

\* An entry the high-water mark has reached is in the catalog, over failed,
\* retried and overlapping fetches.  The filter of published_at <= the cutoff
\* does lose those of `overtaken` (fetch_podcast_feed.py:165): what appears
\* after a fetch has read an entry of the same date or a younger one, and what
\* is not younger than a fetch that found nothing, whose own date is then the
\* cutoff.  A source with a guest filter keeps what mentions the guest.
NoEntryLost ==
    \A s \in FeedSources : \A e \in feed[s] :
        (~profile[s].guested /\ DayOf[e] <= source[s].mark) => e \in catalog[s] \/ <<s, e>> \in overtaken

\* A source that is due is fetched, loses its approval or leaves a failed
\* job, however many fetches are forced meanwhile (refresh_due_sources).
DueIsFetched ==
    \A s \in FeedSources :
        DueForRefresh(s) ~> (source[s].fetched = today \/ ~source[s].approved
                             \/ s \in broken)

\* An approved source is fetched again on a later day, or a job of it failed:
\* the tiers' refresh of ThinkTank_Specification.md:188.
KeepsRefreshing ==
    \A s \in FeedSources :
        (source[s].approved /\ source[s].fetched < today)
            ~> (source[s].fetched = today \/ ~source[s].approved
                \/ s \in broken)
=============================================================================
