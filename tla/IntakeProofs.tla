------------------------------ MODULE IntakeProofs ------------------------------
(***************************************************************************)
(* Proofs about how texts come in: that no fetch of a feed makes its       *)
(* source's mark pass an entry that is not in the catalog, that what an    *)
(* ingest of papers or posts found is in the corpus once it has completed, *)
(* and the types of both.                                                  *)
(*                                                                         *)
(* Feeds: the columns that a fetch has read stay trustworthy while others  *)
(* commit, and what a fetch has got leaves out only entries that are kept. *)
(* Texts: open transactions have rows of different URLs, none of them      *)
(* committed, and a URL that one has left behind is there, or its title    *)
(* is, or will be when that transaction commits.                           *)
(***************************************************************************)
EXTENDS MCIntake, FiniteSetTheorems, TLAPS

-----------------------------------------------------------------------------
(* Feeds.                                                                  *)

\* The entry was inserted, or the fetches are not to blame for its loss.
Kept(s, e) == e \in catalog[s] \/ <<s, e>> \in overtaken

\* The columns c of a source, those of now or those that a fetch has read,
\* pass no entry over: those up to the mark, which is the date of an inserted
\* one, and while there is no mark those up to the last fetch.
Trusted(s, c) ==
    ~profile[s].guested =>
        /\ c.mark # Never => /\ \E y \in catalog[s] : DayOf[y] = c.mark
                             /\ \A e \in feed[s] : DayOf[e] <= c.mark => Kept(s, e)
        /\ c.backfilled /\ c.mark = Never =>
              \A e \in Entries : DayOf[e] <= c.fetched => <<s, e>> \in overtaken

\* An entry no younger than one the fetch has got is among them, or kept.
Covers(j) ==
    ~profile[j.src].guested =>
        \A e \in feed[j.src] : e \in j.got \/ Kept(j.src, e) \/ \A y \in j.got : DayOf[y] < DayOf[e]

Sound(j) ==
    /\ j.guest => profile[j.src].guested
    /\ j.state = "queued" => j.tries < FetchTries
    /\ j.stage # "none" => j.seen \in SourceRows /\ Trusted(j.src, j.seen)
    /\ j.stage \in {"dedupe", "commit"} => j.got \subseteq feed[j.src] /\ Covers(j)

SourcesTrusted == \A s \in FeedSources : Trusted(s, source[s])

FetchesSound == \A j \in FetchRows : Sound(j)

FeedInv == FeedTypeOK /\ SourcesTrusted /\ FetchesSound

\* A finite set of numbers has a largest one: among the sets of those from one
\* of them upwards, one is least.
LEMMA Largest == ASSUME NEW G \in SUBSET Int, IsFiniteSet(G), G # {} PROVE \E m \in G : \A e \in G : m >= e
<1> DEFINE Up(e) == {x \in G : x >= e}
           T == {Up(e) : e \in G}
<1>1. T \subseteq FiniteSubsetsOf(G) /\ T # {}
  <2>1. \A e \in G : IsFiniteSet(Up(e)) /\ Up(e) \subseteq G
    BY FS_Subset
  <2> QED BY <2>1 DEF FiniteSubsetsOf
<1>2. \E x \in T : \A y \in T : ~ (<<y, x>> \in StrictSubsetOrdering(G))
  <2> HIDE DEF T
  <2> QED BY <1>1, FS_StrictSubsetOrderingWellFounded, WFMin
<1>3. PICK m \in G : \A y \in T : ~ (<<y, Up(m)>> \in StrictSubsetOrdering(G))
  BY <1>2
<1>4. ASSUME NEW e \in G, e > m PROVE FALSE
  <2>0. e \in Int /\ m \in Int /\ ~(m >= e) /\ m >= m
    BY <1>4
  <2>1. Up(e) \in T
    OBVIOUS
  <2>2. Up(e) \subseteq Up(m)
    <3>1. ASSUME NEW x \in G, x >= e PROVE x >= m
      BY <1>4, <3>1
    <3> QED BY <3>1
  <2>3. m \in Up(m) /\ m \notin Up(e) /\ Up(m) \subseteq G /\ Up(e) \subseteq G
    BY <2>0
  <2> QED BY <1>3, <2>1, <2>2, <2>3 DEF StrictSubsetOrdering
<1> QED BY <1>4

\* A bag after one of its rows has gone, or has become another, or rows came.
LEMMA BagWithout ==
    ASSUME NEW B, IsABag(B), NEW e
    PROVE  IsABag(B (-) SetToBag({e})) /\ BagToSet(B (-) SetToBag({e})) \subseteq BagToSet(B)
<1> PICK C : C = B (-) SetToBag({e})
  OBVIOUS
<1>1. \A x \in DOMAIN B : B[x] \in Nat /\ B[x] > 0
  BY DEF IsABag
<1>2. /\ DOMAIN C \subseteq DOMAIN B /\ C = [x \in DOMAIN C |-> C[x]]
      /\ \A x \in DOMAIN C : C[x] \in Nat /\ C[x] > 0
  BY <1>1 DEF (-), SetToBag, BagToSet
<1> QED BY <1>2 DEF IsABag, BagToSet

LEMMA BagWith ==
    ASSUME NEW B, IsABag(B), NEW S
    PROVE  IsABag(B (+) SetToBag(S)) /\ BagToSet(B (+) SetToBag(S)) = BagToSet(B) \cup S
<1> PICK C : C = B (+) SetToBag(S)
  OBVIOUS
<1>1. \A x \in DOMAIN B : B[x] \in Nat /\ B[x] > 0
  BY DEF IsABag
<1>2. /\ DOMAIN C = DOMAIN B \cup S
      /\ \A x \in DOMAIN C : C[x] = (IF x \in DOMAIN B THEN B[x] ELSE 0) + (IF x \in S THEN 1 ELSE 0)
      /\ C = [x \in DOMAIN C |-> C[x]]
  BY DEF (+), SetToBag
<1>3. \A x \in DOMAIN C : C[x] \in Nat /\ C[x] > 0
  BY <1>1, <1>2
<1> QED BY <1>2, <1>3 DEF IsABag, BagToSet

LEMMA BagBecomes ==
    ASSUME IsABag(fetches), NEW j, NEW to
    PROVE  IsABag(FetchBecomes(j, to)) /\ BagToSet(FetchBecomes(j, to)) \subseteq BagToSet(fetches) \cup {to}
<1> PICK C : C = fetches (-) SetToBag({j})
  OBVIOUS
<1>1. IsABag(C) /\ BagToSet(C) \subseteq BagToSet(fetches)
  BY BagWithout
<1>2. IsABag(C (+) SetToBag({to})) /\ BagToSet(C (+) SetToBag({to})) = BagToSet(C) \cup {to}
  BY ONLY <1>1, BagWith
<1> QED BY <1>1, <1>2 DEF FetchBecomes

\* Nothing is taken from feeds and catalogs, and an entry that appears after a
\* younger one is noted.
WorldGrows ==
    /\ UNCHANGED profile /\ overtaken \subseteq overtaken'
    /\ \A s \in FeedSources :
          /\ feed[s] \subseteq feed'[s] /\ catalog[s] \subseteq catalog'[s]
          /\ \A e \in feed'[s] \ feed[s], y \in Read(s) : DayOf[y] >= DayOf[e] => <<s, e>> \in overtaken'

\* Dates are numbers.
LEMMA Dated == \A e \in Entries : DayOf[e] \in 1..MaxDay /\ DayOf[e] \in Int
BY FeedAssumption

LEMMA TrustStays ==
    ASSUME FeedTypeOK, FeedTypeOK', WorldGrows, NEW s \in FeedSources, NEW c \in SourceRows, Trusted(s, c)
    PROVE  Trusted(s, c)'
<1> SUFFICES ASSUME ~profile[s].guested
             PROVE  /\ c.mark # Never => /\ \E y \in catalog'[s] : DayOf[y] = c.mark
                                         /\ \A e \in feed'[s] : DayOf[e] <= c.mark => Kept(s, e)'
                    /\ c.backfilled /\ c.mark = Never =>
                          \A e \in Entries : DayOf[e] <= c.fetched => <<s, e>> \in overtaken'
  BY DEF Trusted, WorldGrows
<1>1. /\ c.mark # Never => /\ \E y \in catalog[s] : DayOf[y] = c.mark
                           /\ \A e \in feed[s] : DayOf[e] <= c.mark => Kept(s, e)
      /\ c.backfilled /\ c.mark = Never => \A e \in Entries : DayOf[e] <= c.fetched => <<s, e>> \in overtaken
  BY DEF Trusted
<1>2. ASSUME NEW e \in feed'[s], c.mark # Never, DayOf[e] <= c.mark PROVE Kept(s, e)'
  <2>1. PICK y \in catalog[s] : DayOf[y] = c.mark
    BY <1>1, <1>2
  <2>2. CASE e \in feed[s]
    BY <1>1, <1>2, <2>2 DEF Kept, WorldGrows
  <2>3. CASE e \notin feed[s]
    <3>1. DayOf[e] \in Int /\ DayOf[y] \in Int
      BY <2>1, Dated DEF FeedTypeOK
    <3>2. DayOf[y] >= DayOf[e] /\ y \in Read(s)
      BY <1>2, <2>1, <3>1 DEF Read
    <3> QED BY <1>2, <2>3, <3>2 DEF Kept, WorldGrows
  <2> QED BY <2>2, <2>3
<1>3. overtaken \subseteq overtaken' /\ catalog[s] \subseteq catalog'[s]
  BY DEF WorldGrows
<1> QED BY <1>1, <1>2, <1>3

LEMMA SoundStays ==
    ASSUME FeedTypeOK, FeedTypeOK', WorldGrows, NEW j \in FetchJobs, Sound(j),
           feed' = feed \/ j \in FetchRows
    PROVE  Sound(j)'
<1>1. j.src \in FeedSources /\ j.got \subseteq Entries
  BY DEF FetchJobs
<1>2. j.stage # "none" => j.seen \in SourceRows /\ Trusted(j.src, j.seen)'
  BY <1>1, TrustStays DEF Sound
<1>3. ASSUME Covers(j) PROVE Covers(j)'
  <2> SUFFICES ASSUME ~profile[j.src].guested, NEW e \in feed'[j.src]
               PROVE  e \in j.got \/ Kept(j.src, e)' \/ \A y \in j.got : DayOf[y] < DayOf[e]
    BY DEF Covers, WorldGrows
  <2>1. CASE e \in feed[j.src]
    <3>1. e \in j.got \/ Kept(j.src, e) \/ \A y \in j.got : DayOf[y] < DayOf[e]
      BY <1>3, <2>1 DEF Covers
    <3> QED BY <1>1, <3>1 DEF Kept, WorldGrows
  <2>2. CASE e \notin feed[j.src]
    <3>1. e \in Entries
      BY <1>1 DEF FeedTypeOK
    <3>2. j \in FetchRows
      BY <2>2
    <3>3. \A y \in j.got : y \in Read(j.src)
      BY <3>2 DEF Read
    <3>4. \A y \in j.got : DayOf[y] >= DayOf[e] => <<j.src, e>> \in overtaken'
      BY <1>1, <2>2, <3>3 DEF WorldGrows
    <3>5. DayOf[e] \in Int /\ \A y \in j.got : DayOf[y] \in Int
      BY <1>1, <3>1, Dated
    <3> QED BY <3>4, <3>5 DEF Kept
  <2> QED BY <2>1, <2>2
<1>4. feed[j.src] \subseteq feed'[j.src] /\ profile' = profile
  BY <1>1 DEF WorldGrows
<1> QED BY <1>2, <1>3, <1>4 DEF Sound

\* A step that keeps the types keeps the invariant when the source rows and
\* the fetch it writes are sound.
LEMMA FeedStep ==
    ASSUME FeedInv, FeedTypeOK', WorldGrows,
           \A s \in FeedSources : source'[s] = source[s] \/ Trusted(s, source[s])',
           \A j \in FetchRows' : j \in FetchRows \/ Sound(j)'
    PROVE  FeedInv'
<1>1. SourcesTrusted'
  <2> SUFFICES ASSUME NEW s \in FeedSources, source'[s] = source[s] PROVE Trusted(s, source[s])'
    BY DEF SourcesTrusted
  <2>1. PICK c \in SourceRows : c = source[s]
    BY DEF FeedInv, FeedTypeOK
  <2>2. Trusted(s, c)
    BY <2>1 DEF FeedInv, SourcesTrusted
  <2>3. Trusted(s, c)'
    BY <2>2, TrustStays DEF FeedInv
  <2> QED BY <2>1, <2>3 DEF Trusted
<1>2. FetchesSound'
  <2> SUFFICES ASSUME NEW j \in FetchRows' PROVE Sound(j)'
    BY DEF FetchesSound
  <2>1. CASE j \in FetchRows
    <3>1. j \in FetchJobs /\ Sound(j)
      BY <2>1 DEF FeedInv, FeedTypeOK, FetchesSound
    <3> QED BY <3>1, SoundStays DEF FeedInv
  <2> QED BY <2>1
<1> QED BY <1>1, <1>2 DEF FeedInv

-----------------------------------------------------------------------------
LEMMA FeedTypes ==
    ASSUME FeedInv
    PROVE  /\ FeedTypeOK /\ IsABag(fetches) /\ FetchRows = BagToSet(fetches)
           /\ \A j \in FetchRows : j \in FetchJobs /\ Sound(j)
           /\ \A s \in FeedSources : source[s] \in SourceRows /\ Trusted(s, source[s])
           /\ IsFiniteSet(Entries) /\ MaxDay \in Nat /\ FetchTries \in Nat \ {0} /\ MaxForces \in Nat /\ MaxTurns \in Nat
BY FeedAssumption DEF FeedInv, FeedTypeOK, FetchesSound, SourcesTrusted, FetchRows

LEMMA DayPassesKeeps == ASSUME FeedInv, DayPasses PROVE FeedInv'
<1>1. UNCHANGED <<profile, feed, source, catalog, fetches, refresh, forces, turns, overtaken, broken>>
  BY DEF DayPasses
<1>2. today' \in 0..MaxDay
  BY FeedTypes DEF DayPasses, FeedTypeOK
<1>3. FeedTypeOK'
  BY <1>1, <1>2, FeedTypes DEF FeedTypeOK, FetchRows
<1>4. WorldGrows
  BY <1>1 DEF WorldGrows
<1>5. (\A j \in FetchRows' : j \in FetchRows) /\ \A s \in FeedSources : source'[s] = source[s]
  BY <1>1 DEF FetchRows
<1> QED BY <1>3, <1>4, <1>5, FeedStep

LEMMA PublishKeeps == ASSUME FeedInv, NEW s \in FeedSources, NEW e \in Entries, Publish(s, e) PROVE FeedInv'
<1>1. UNCHANGED <<profile, today, source, catalog, fetches, refresh, forces, turns, broken>>
  BY DEF Publish
<1>2. /\ feed' \in [FeedSources -> SUBSET Entries]
      /\ \A t \in FeedSources : feed'[t] = IF t = s THEN feed[s] \cup {e} ELSE feed[t]
  BY FeedTypes DEF Publish, FeedTypeOK
<1>3. /\ overtaken \subseteq overtaken' /\ overtaken' \subseteq FeedSources \X Entries
      /\ \A y \in Read(s) : DayOf[y] >= DayOf[e] => <<s, e>> \in overtaken'
  <2>1. overtaken \subseteq FeedSources \X Entries /\ <<s, e>> \in FeedSources \X Entries
    BY FeedTypes DEF FeedTypeOK
  <2> QED BY <2>1 DEF Publish
<1>4. FeedTypeOK'
  BY <1>1, <1>2, <1>3, FeedTypes DEF FeedTypeOK, FetchRows
<1>5. WorldGrows
  <2>1. \A t \in FeedSources : feed[t] \subseteq feed'[t] /\ \A x \in feed'[t] \ feed[t] : t = s /\ x = e
    BY <1>2
  <2> QED BY <1>1, <1>3, <2>1 DEF WorldGrows
<1>6. (\A j \in FetchRows' : j \in FetchRows) /\ \A t \in FeedSources : source'[t] = source[t]
  BY <1>1 DEF FetchRows
<1> QED BY <1>4, <1>5, <1>6, FeedStep

LEMMA TurnKeeps == ASSUME FeedInv, NEW s \in FeedSources, Turn(s) PROVE FeedInv'
<1>1. UNCHANGED <<profile, today, feed, catalog, fetches, refresh, forces, overtaken, broken>>
  BY DEF Turn
<1> PICK c \in SourceRows : c = source[s] /\ Trusted(s, c)
  BY FeedTypes
<1> PICK new : new = [c EXCEPT !.approved = ~@]
  OBVIOUS
<1>2. new \in SourceRows /\ new.mark = c.mark /\ new.backfilled = c.backfilled /\ new.fetched = c.fetched
  BY DEF SourceRows
<1>3. source' = [source EXCEPT ![s] = new]
  BY DEF Turn
<1>4. /\ source' \in [FeedSources -> SourceRows] /\ source'[s] = new
      /\ \A t \in FeedSources : t # s => source'[t] = source[t]
  BY <1>2, <1>3, FeedTypes DEF FeedTypeOK
<1>5. turns' \in 0..MaxTurns
  <2>1. turns \in 0..MaxTurns
    BY FeedTypes DEF FeedTypeOK
  <2> QED BY <2>1, FeedTypes DEF Turn
<1>6. FeedTypeOK'
  BY <1>1, <1>4, <1>5, FeedTypes DEF FeedTypeOK, FetchRows
<1>7. WorldGrows
  BY <1>1 DEF WorldGrows
<1>8. Trusted(s, source[s])'
  <2>1. Trusted(s, c)'
    BY <1>6, <1>7, TrustStays, FeedTypes
  <2> QED BY <1>2, <1>4, <2>1 DEF Trusted, Kept
<1>9. \A j \in FetchRows' : j \in FetchRows
  BY <1>1 DEF FetchRows
<1> QED BY <1>4, <1>6, <1>7, <1>8, <1>9, FeedStep


\* A fetch that is enqueued has read nothing yet.
LEMMA NewFetchSound ==
    ASSUME NEW s \in FeedSources, NEW k \in {"channel", "podcast"}, NEW guest \in BOOLEAN
    PROVE  /\ NewFetch(s, k, guest) \in FetchJobs
           /\ UNCHANGED profile /\ (guest => profile[s].guested) => Sound(NewFetch(s, k, guest))'
<1> PICK j : j = NewFetch(s, k, guest)
  OBVIOUS
<1>1. j = [src |-> s, kind |-> k, guest |-> guest, state |-> "queued", tries |-> 0,
           stage |-> "none", seen |-> Idle, got |-> {}]
  BY DEF NewFetch
<1>2. FetchTries \in Nat \ {0}
  BY FeedAssumption
<1>3. j \in FetchJobs
  BY <1>1, <1>2 DEF FetchJobs
<1>4. UNCHANGED profile /\ (guest => profile[s].guested) => Sound(j)'
  BY <1>1, <1>2 DEF Sound
<1> QED BY <1>3, <1>4


LEMMA ForceKeeps ==
    ASSUME FeedInv, NEW s \in FeedSources, ForceRefresh(s) \/ GateEnqueues(s) \/ DiscoverEnqueues(s)
    PROVE  FeedInv'
<1>1. profile[s].guested \in BOOLEAN /\ profile[s].channel \in BOOLEAN
  <2>1. profile[s] \in [channel : BOOLEAN, guested : BOOLEAN, paced : BOOLEAN]
    BY FeedTypes, FeedAssumption DEF FeedTypeOK
  <2> QED BY <2>1
<1>2. PICK k \in {"channel", "podcast"}, guest \in BOOLEAN : (guest => profile[s].guested) /\ EnqueuesFetch(s, k, guest)
  <2>1. CASE ForceRefresh(s)
    BY <2>1 DEF ForceRefresh, FetchKind
  <2>2. CASE GateEnqueues(s)
    <3>1. (profile[s].guested /\ ~profile[s].channel) \in BOOLEAN
      BY <1>1
    <3> QED BY <2>2, <3>1 DEF GateEnqueues, FetchKind
  <2>3. CASE DiscoverEnqueues(s)
    BY <1>1, <2>3 DEF DiscoverEnqueues
  <2> QED BY <2>1, <2>2, <2>3
<1>3. /\ UNCHANGED <<profile, today, feed, source, catalog, refresh, turns, overtaken, broken>>
      /\ fetches' = fetches (+) SetToBag({NewFetch(s, k, guest)}) /\ forces < MaxForces /\ forces' = forces + 1
  BY <1>2 DEF EnqueuesFetch
<1>4. NewFetch(s, k, guest) \in FetchJobs /\ Sound(NewFetch(s, k, guest))'
  BY <1>2, <1>3, NewFetchSound
<1>5. IsABag(fetches') /\ FetchRows' = FetchRows \cup {NewFetch(s, k, guest)}
  <2>1. IsABag(fetches)
    BY FeedTypes
  <2> QED BY <1>3, <2>1, BagWith DEF FetchRows
<1>6. forces' \in 0..MaxForces
  <2>1. forces \in 0..MaxForces
    BY FeedTypes DEF FeedTypeOK
  <2> QED BY <1>3, <2>1, FeedTypes
<1>7. FeedTypeOK'
  BY <1>3, <1>4, <1>5, <1>6, FeedTypes DEF FeedTypeOK
<1>8. WorldGrows
  BY <1>3 DEF WorldGrows
<1> QED BY <1>3, <1>4, <1>5, <1>7, <1>8, FeedStep

LEMMA RefreshKeeps == ASSUME FeedInv, RefreshStep PROVE FeedInv'
<1>1. UNCHANGED <<profile, today, feed, source, catalog, forces, turns, overtaken, broken>>
  BY DEF RefreshStep, RefreshQuery, RefreshLooks, RefreshAborts, RefreshCommits
<1>2. refresh \in {Idle} \cup [at : {"look"}, due : SUBSET FeedSources, new : SUBSET FeedSources]
  BY FeedTypes DEF FeedTypeOK
<1>3. WorldGrows
  BY <1>1 DEF WorldGrows
<1>4. IsABag(fetches') /\ \A j \in FetchRows' : j \in FetchRows \/ (j \in FetchJobs /\ Sound(j)')
  <2>1. CASE RefreshCommits
    <3> DEFINE N == {NewFetch(s, FetchKind(s), FALSE) : s \in refresh.new}
    <3>1. fetches' = fetches (+) SetToBag(N) /\ refresh.at = "look"
      BY <2>1 DEF RefreshCommits
    <3>2. refresh.new \subseteq FeedSources
      BY <1>2, <3>1 DEF Idle
    <3>3. \A j \in N : j \in FetchJobs /\ Sound(j)'
      <4> SUFFICES ASSUME NEW j \in N PROVE j \in FetchJobs /\ Sound(j)'
        OBVIOUS
      <4>1. PICK s \in refresh.new : j = NewFetch(s, FetchKind(s), FALSE)
        OBVIOUS
      <4>2. PICK k \in {"channel", "podcast"} : k = FetchKind(s)
        BY DEF FetchKind
      <4>3. j = NewFetch(s, k, FALSE) /\ s \in FeedSources
        BY <3>2, <4>1, <4>2
      <4> QED BY <1>1, <4>3, NewFetchSound
    <3> HIDE DEF N
    <3>4. IsABag(fetches') /\ FetchRows' = FetchRows \cup N
      <4>1. IsABag(fetches)
        BY FeedTypes
      <4> QED BY <3>1, <4>1, BagWith DEF FetchRows
    <3> QED BY <3>3, <3>4
  <2>2. CASE ~RefreshCommits
    <3>1. fetches' = fetches
      BY <2>2 DEF RefreshStep, RefreshQuery, RefreshLooks, RefreshAborts
    <3> QED BY <3>1, FeedTypes DEF FetchRows
  <2> QED BY <2>1, <2>2
<1>5. refresh' \in {Idle} \cup [at : {"look"}, due : SUBSET FeedSources, new : SUBSET FeedSources]
  <2>1. CASE RefreshQuery
    BY <2>1 DEF RefreshQuery
  <2>2. ASSUME NEW s \in FeedSources, RefreshLooks(s)
        PROVE  refresh' \in [at : {"look"}, due : SUBSET FeedSources, new : SUBSET FeedSources]
    <3>1. refresh \in [at : {"look"}, due : SUBSET FeedSources, new : SUBSET FeedSources]
      BY <1>2, <2>2 DEF RefreshLooks, Idle
    <3> QED BY <2>2, <3>1 DEF RefreshLooks
  <2>3. CASE (\E s \in FeedSources : RefreshAborts(s)) \/ RefreshCommits
    BY <2>3 DEF RefreshAborts, RefreshCommits
  <2> QED BY <2>1, <2>2, <2>3 DEF RefreshStep
<1>6. FeedTypeOK'
  <2>1. FetchRows' \subseteq FetchJobs /\ IsABag(fetches')
    BY <1>4, FeedTypes
  <2> QED BY <1>1, <1>5, <2>1, FeedTypes DEF FeedTypeOK
<1> QED BY <1>1, <1>3, <1>4, <1>6, FeedStep

\* A fetch goes one step on, or ends; nothing else moves.
LEMMA FetchMoves ==
    ASSUME FeedInv, NEW j, NEW to \in FetchJobs, Sound(to), fetches' = FetchBecomes(j, to),
           UNCHANGED <<profile, today, feed, source, catalog, refresh, forces, turns, overtaken, broken>>
    PROVE  FeedInv'
<1>1. IsABag(fetches') /\ FetchRows' \subseteq FetchRows \cup {to}
  <2>1. IsABag(fetches)
    BY FeedTypes
  <2> QED BY <2>1, BagBecomes DEF FetchRows
<1>2. FeedTypeOK'
  BY <1>1, FeedTypes DEF FeedTypeOK
<1>3. WorldGrows
  BY DEF WorldGrows
<1>4. Sound(to)'
  BY <1>2, <1>3, SoundStays, FeedTypes
<1> QED BY <1>1, <1>2, <1>3, <1>4, FeedStep

LEMMA FetchGone ==
    ASSUME FeedInv, NEW j, fetches' = fetches (-) SetToBag({j}), broken' \subseteq FeedSources,
           UNCHANGED <<profile, today, feed, source, catalog, refresh, forces, turns, overtaken>>
    PROVE  FeedInv'
<1>1. IsABag(fetches') /\ FetchRows' \subseteq FetchRows
  <2>1. IsABag(fetches)
    BY FeedTypes
  <2> QED BY <2>1, BagWithout DEF FetchRows
<1>2. FeedTypeOK'
  BY <1>1, FeedTypes DEF FeedTypeOK
<1>3. WorldGrows
  BY DEF WorldGrows
<1> QED BY <1>1, <1>2, <1>3, FeedStep

LEMMA FetchStartsKeeps == ASSUME FeedInv, NEW j \in FetchRows, FetchStarts(j) PROVE FeedInv'
<1>1. /\ j \in FetchJobs /\ Sound(j) /\ j.src \in FeedSources /\ j.state = "queued"
      /\ j.tries \in 0..FetchTries /\ FetchTries \in Nat /\ j.tries < FetchTries
      /\ UNCHANGED <<profile, today, feed, source, catalog, refresh, forces, turns, overtaken, broken>>
  BY FeedTypes DEF FetchStarts, FetchJobs, Sound
<1>2. CASE source[j.src].approved
  <2> PICK t \in 0..FetchTries : t = j.tries + 1
    BY <1>1
  <2> PICK c \in SourceRows : c = source[j.src] /\ Trusted(j.src, c)
    BY <1>1, FeedTypes
  <2> PICK to : to = [j EXCEPT !.state = "running", !.tries = t, !.stage = "download", !.seen = c]
    OBVIOUS
  <2>1. /\ to \in FetchJobs /\ to.state = "running" /\ to.stage = "download" /\ to.seen = c
        /\ to.src = j.src /\ to.guest = j.guest
    BY <1>1 DEF FetchJobs
  <2>2. fetches' = FetchBecomes(j, to)
    BY <1>2 DEF FetchStarts
  <2>3. Sound(to)
    BY <1>1, <2>1 DEF Sound
  <2> QED BY <1>1, <2>1, <2>2, <2>3, FetchMoves
<1>3. CASE ~source[j.src].approved
  <2>1. fetches' = fetches (-) SetToBag({j})
    BY <1>3 DEF FetchStarts
  <2>2. broken' \subseteq FeedSources
    BY <1>1, FeedTypes DEF FeedTypeOK
  <2> QED BY <1>1, <2>1, <2>2, FetchGone
<1> QED BY <1>2, <1>3

LEMMA FetchDownloadsKeeps == ASSUME FeedInv, NEW j \in FetchRows, FetchDownloads(j) PROVE FeedInv'
<1>1. /\ j \in FetchJobs /\ Sound(j) /\ j.src \in FeedSources /\ j.stage = "download"
      /\ feed[j.src] \subseteq Entries
      /\ UNCHANGED <<profile, today, feed, source, catalog, refresh, forces, turns, overtaken, broken>>
  BY FeedTypes DEF FetchDownloads, FetchJobs, FeedTypeOK
<1> PICK G \in SUBSET Entries : G = Downloads(j)
  BY <1>1 DEF Downloads
<1> PICK to : to = [j EXCEPT !.stage = "dedupe", !.got = G]
  OBVIOUS
<1>2. /\ to \in FetchJobs /\ to.state = j.state /\ to.stage = "dedupe" /\ to.seen = j.seen
      /\ to.src = j.src /\ to.guest = j.guest /\ to.tries = j.tries /\ to.got = G
  BY <1>1 DEF FetchJobs
<1>3. fetches' = FetchBecomes(j, to)
  BY DEF FetchDownloads
<1>4. G \subseteq feed[j.src] /\ (G = feed[j.src] \/ G = {})
  BY DEF Downloads
<1>5. Sound(to)
  BY <1>1, <1>2, <1>4 DEF Sound, Covers
<1> QED BY <1>1, <1>2, <1>3, <1>5, FetchMoves

\* What the cutoff and the catalog drop is kept.
LEMMA DroppedIsKept ==
    ASSUME FeedInv, NEW j \in FetchRows, j.stage = "dedupe", NEW e \in j.got, e \notin Considered(j),
           ~profile[j.src].guested
    PROVE  Kept(j.src, e)
<1>1. /\ j \in FetchJobs /\ j.seen \in SourceRows /\ Trusted(j.src, j.seen) /\ ~j.guest
      /\ j.got \subseteq feed[j.src]
  BY FeedTypes DEF Sound
<1>2. e \in Entries /\ DayOf[e] \in 1..MaxDay /\ MaxDay \in Nat /\ DayOf[e] \in Int
  BY <1>1, FeedTypes, Dated DEF FetchJobs
<1>3. ~(DayOf[e] > Cutoff(j.seen)) /\ j.seen.backfilled
  BY <1>1, <1>2 DEF Considered, Cutoff, Never
<1>4. CASE j.seen.mark # Never
  <2>1. Cutoff(j.seen) = j.seen.mark /\ j.seen.mark \in Int
    BY <1>1, <1>2, <1>3, <1>4, FeedTypes DEF Cutoff, SourceRows
  <2>2. DayOf[e] <= j.seen.mark
    BY <1>2, <1>3, <2>1
  <2> QED BY <1>1, <1>4, <2>2 DEF Trusted
<1>5. CASE j.seen.mark = Never
  <2>1. Cutoff(j.seen) = j.seen.fetched /\ j.seen.fetched \in Int
    BY <1>1, <1>2, <1>3, <1>5 DEF Cutoff, SourceRows, Never
  <2>2. DayOf[e] <= j.seen.fetched
    BY <1>2, <1>3, <2>1
  <2> QED BY <1>1, <1>2, <1>3, <1>5, <2>2 DEF Trusted, Kept
<1> QED BY <1>4, <1>5

LEMMA FetchDedupesKeeps == ASSUME FeedInv, NEW j \in FetchRows, FetchDedupes(j) PROVE FeedInv'
<1>1. /\ j \in FetchJobs /\ Sound(j) /\ j.src \in FeedSources /\ j.stage = "dedupe"
      /\ j.got \subseteq feed[j.src] /\ Covers(j) /\ j.got \subseteq Entries
      /\ UNCHANGED <<profile, today, feed, source, catalog, refresh, forces, turns, overtaken, broken>>
  BY FeedTypes DEF FetchDedupes, FetchJobs, Sound
<1>2. Considered(j) \subseteq j.got
  BY DEF Considered
<1> PICK G \in SUBSET Entries : G = Considered(j) \ catalog[j.src]
  BY <1>1, <1>2
<1> PICK to : to = [j EXCEPT !.stage = "commit", !.got = G]
  OBVIOUS
<1>3. /\ to \in FetchJobs /\ to.state = j.state /\ to.stage = "commit" /\ to.seen = j.seen
      /\ to.src = j.src /\ to.guest = j.guest /\ to.tries = j.tries /\ to.got = G
  BY <1>1 DEF FetchJobs
<1>4. fetches' = FetchBecomes(j, to)
  BY DEF FetchDedupes
<1>5. Covers(to)
  <2> SUFFICES ASSUME ~profile[j.src].guested, NEW e \in feed[j.src]
               PROVE  e \in G \/ Kept(j.src, e) \/ \A y \in G : DayOf[y] < DayOf[e]
    BY <1>3 DEF Covers
  <2>1. e \in j.got \/ Kept(j.src, e) \/ \A y \in j.got : DayOf[y] < DayOf[e]
    BY <1>1 DEF Covers
  <2>2. CASE e \in j.got
    <3>1. CASE e \in Considered(j)
      BY <3>1 DEF Kept
    <3>2. CASE e \notin Considered(j)
      BY <1>1, <2>2, <3>2, DroppedIsKept
    <3> QED BY <3>1, <3>2
  <2> QED BY <1>2, <2>1, <2>2
<1>6. Sound(to)
  BY <1>1, <1>2, <1>3, <1>5 DEF Sound
<1> QED BY <1>1, <1>3, <1>4, <1>6, FetchMoves

LEMMA FetchFailsKeeps == ASSUME FeedInv, NEW j \in FetchRows, FetchFails(j) PROVE FeedInv'
<1>1. /\ j \in FetchJobs /\ Sound(j) /\ j.src \in FeedSources
      /\ j.tries \in 0..FetchTries /\ FetchTries \in Nat
      /\ UNCHANGED <<profile, today, feed, source, catalog, refresh, forces, turns, overtaken>>
      /\ broken \subseteq FeedSources
  BY FeedTypes DEF FetchFails, FetchJobs, FeedTypeOK
<1>2. CASE j.tries < FetchTries
  <2> PICK to : to = [j EXCEPT !.state = "queued", !.stage = "none", !.seen = Idle, !.got = {}]
    OBVIOUS
  <2>1. /\ to \in FetchJobs /\ to.stage = "none" /\ to.tries = j.tries
        /\ to.src = j.src /\ to.guest = j.guest
    BY <1>1 DEF FetchJobs
  <2>2. fetches' = FetchBecomes(j, to) /\ UNCHANGED broken
    BY <1>2 DEF FetchFails
  <2>3. Sound(to)
    BY <1>1, <1>2, <2>1 DEF Sound
  <2> QED BY <1>1, <2>1, <2>2, <2>3, FetchMoves
<1>3. CASE ~(j.tries < FetchTries)
  <2>1. fetches' = fetches (-) SetToBag({j}) /\ broken' \subseteq FeedSources
    BY <1>1, <1>3 DEF FetchFails
  <2> QED BY <1>1, <2>1, FetchGone
<1> QED BY <1>2, <1>3

\* The columns after a commit: the mark is the source's own one, or one the
\* fetch has read and raised to the youngest of the entries it inserts.
LEMMA MarkOfCommit ==
    ASSUME FeedInv, NEW j \in FetchRows, FetchCommits(j)
    PROVE  LET new == SourceAfter(j) IN
           /\ new \in SourceRows /\ new.fetched = today /\ new.backfilled
           /\ \/ new.mark = source[j.src].mark
              \/ new.mark \in Dates(j.got) /\ \A d \in Dates(j.got) : d <= new.mark
<1>1. /\ j \in FetchJobs /\ Sound(j) /\ j.src \in FeedSources /\ j.stage = "commit"
      /\ j.got \subseteq Entries /\ j.seen \in SourceRows
  BY FeedTypes DEF FetchCommits, FetchJobs, Sound
<1> PICK c \in SourceRows : c = source[j.src]
  BY <1>1, FeedTypes
<1> PICK seen \in SourceRows : seen = j.seen
  BY <1>1
<1> PICK days : days = Dates(j.got)
  OBVIOUS
<1>2. days \subseteq 1..MaxDay /\ days \subseteq Int /\ IsFiniteSet(days) /\ Cardinality(j.got) \in Nat
  <2>1. IsFiniteSet(1..MaxDay)
    <3>1. 1 \in Int /\ MaxDay \in Int
      BY FeedTypes
    <3> QED BY ONLY <3>1, FS_Interval
  <2>2. IsFiniteSet(j.got)
    BY <1>1, FeedTypes, FS_Subset
  <2>3. days \subseteq 1..MaxDay /\ days \subseteq Int
    BY <1>1, Dated DEF Dates
  <2> QED BY <2>1, <2>2, <2>3, FS_Subset, FS_CardinalityType
<1>3. MarkAfter(j) = seen.mark \/ (MarkAfter(j) \in days /\ \A d \in days : d <= MarkAfter(j))
  <2>1. CASE j.kind = "channel"
    BY <2>1 DEF MarkAfter
  <2>2. CASE j.kind # "channel"
    <3> PICK G : G = days \cup {seen.mark}
      OBVIOUS
    <3>1. seen.mark \in Int
      BY FeedTypes DEF SourceRows, Never
    <3>2. G \in SUBSET Int /\ IsFiniteSet(G) /\ G # {}
      <4>1. IsFiniteSet(days \cup {seen.mark})
        BY <1>2, FS_AddElement
      <4> QED BY <1>2, <3>1, <4>1
    <3>3. \E m \in G : \A e \in G : m >= e
      BY <3>2, Largest
    <3>4. MarkAfter(j) = CHOOSE m \in G : \A e \in G : m >= e
      BY <2>2 DEF MarkAfter
    <3>5. MarkAfter(j) \in G /\ \A e \in G : MarkAfter(j) >= e
      BY <3>3, <3>4
    <3> QED BY <1>2, <3>2, <3>5
  <2> QED BY <2>1, <2>2
<1> PICK m : m = Written(j, "mark", MarkAfter(j), c)
  OBVIOUS
<1>4. m \in {Never} \cup 1..MaxDay /\ (m = c.mark \/ (m \in days /\ \A d \in days : d <= m))
  <2>1. c.mark \in {Never} \cup 1..MaxDay
    BY DEF SourceRows
  <2>2. m = IF MarkAfter(j) = seen.mark THEN c.mark ELSE MarkAfter(j)
    BY DEF Written
  <2> QED BY <1>1, <1>2, <1>3, <2>1, <2>2
<1> PICK n : n = Written(j, "count", j.seen.count + Cardinality(j.got), c)
  OBVIOUS
<1>5. n \in Nat
  <2>1. c.count \in Nat /\ j.seen.count \in Nat
    BY <1>1 DEF SourceRows
  <2>2. n = c.count \/ n = j.seen.count + Cardinality(j.got)
    BY DEF Written
  <2> QED BY <1>2, <2>1, <2>2
<1> PICK new : new = [c EXCEPT !.fetched = today, !.count = n, !.mark = m, !.backfilled = TRUE]
  OBVIOUS
<1>6. new = SourceAfter(j)
  BY DEF SourceAfter
<1>7. today \in 0..MaxDay
  BY FeedTypes DEF FeedTypeOK
<1>8. new \in SourceRows /\ new.fetched = today /\ new.backfilled /\ new.mark = m
  BY <1>4, <1>5, <1>7 DEF SourceRows
<1> QED BY <1>4, <1>6, <1>8

LEMMA FetchCommitsKeeps == ASSUME FeedInv, NEW j \in FetchRows, FetchCommits(j) PROVE FeedInv'
<1>1. /\ j \in FetchJobs /\ Sound(j) /\ j.src \in FeedSources /\ j.stage = "commit"
      /\ j.got \subseteq feed[j.src] /\ Covers(j) /\ j.got \subseteq Entries
      /\ UNCHANGED <<profile, today, feed, refresh, forces, turns, broken>>
      /\ fetches' = fetches (-) SetToBag({j})
  BY FeedTypes DEF FetchCommits, FetchJobs, Sound
<1> PICK s \in FeedSources : s = j.src
  BY <1>1
<1> PICK c \in SourceRows : c = source[s] /\ Trusted(s, c)
  BY FeedTypes
<1> PICK new : new = SourceAfter(j)
  OBVIOUS
<1>2. /\ new \in SourceRows /\ new.fetched = today /\ new.backfilled
      /\ \/ new.mark = c.mark
         \/ new.mark \in Dates(j.got) /\ \A d \in Dates(j.got) : d <= new.mark
  BY MarkOfCommit
<1>3. /\ source' = [source EXCEPT ![s] = new] /\ catalog' = [catalog EXCEPT ![s] = @ \cup j.got]
      /\ overtaken' = IF new.mark # Never THEN overtaken ELSE overtaken \cup {<<s, e>> : e \in {x \in Entries : DayOf[x] <= today}}
  BY DEF FetchCommits
<1>4. /\ source' \in [FeedSources -> SourceRows] /\ source'[s] = new
      /\ \A t \in FeedSources : t # s => source'[t] = source[t]
  BY <1>2, <1>3, FeedTypes DEF FeedTypeOK
<1>5. /\ catalog' \in [FeedSources -> SUBSET Entries] /\ catalog'[s] = catalog[s] \cup j.got
      /\ \A t \in FeedSources : t # s => catalog'[t] = catalog[t]
      /\ \A t \in FeedSources : catalog'[t] \subseteq feed[t]
  BY <1>1, <1>3, FeedTypes DEF FeedTypeOK
<1>6. overtaken \subseteq overtaken' /\ overtaken' \subseteq FeedSources \X Entries
  <2>1. overtaken \subseteq FeedSources \X Entries
    BY FeedTypes DEF FeedTypeOK
  <2>2. {<<s, e>> : e \in {x \in Entries : DayOf[x] <= today}} \subseteq FeedSources \X Entries
    OBVIOUS
  <2> QED BY <1>3, <2>1, <2>2
<1>7. IsABag(fetches') /\ FetchRows' \subseteq FetchRows
  <2>1. IsABag(fetches)
    BY FeedTypes
  <2> QED BY <1>1, <2>1, BagWithout DEF FetchRows
<1>8. FeedTypeOK'
  BY <1>1, <1>4, <1>5, <1>6, <1>7, FeedTypes DEF FeedTypeOK
<1>9. WorldGrows
  BY <1>1, <1>5, <1>6 DEF WorldGrows
<1>10. Trusted(s, c)'
  BY <1>8, <1>9, TrustStays, FeedTypes
<1>11. Trusted(s, new)'
  <2> SUFFICES ASSUME ~profile[s].guested
               PROVE  /\ new.mark # Never =>
                            /\ \E y \in catalog'[s] : DayOf[y] = new.mark
                            /\ \A e \in feed[s] : DayOf[e] <= new.mark => Kept(s, e)'
                      /\ new.mark = Never =>
                            \A e \in Entries : DayOf[e] <= new.fetched => <<s, e>> \in overtaken'
    BY <1>1 DEF Trusted
  <2>1. CASE new.mark = Never
    BY <1>2, <1>3, <2>1
  <2>2. CASE new.mark # Never /\ new.mark = c.mark
    BY <1>1, <1>10, <2>2 DEF Trusted
  <2>3. CASE new.mark \in Dates(j.got)
    <3>1. PICK y \in j.got : DayOf[y] = new.mark
      BY <2>3 DEF Dates
    <3>2. ASSUME NEW e \in feed[s], DayOf[e] <= new.mark PROVE Kept(s, e)'
      <4>1. e \in j.got \/ Kept(s, e) \/ \A x \in j.got : DayOf[x] < DayOf[e]
        BY <1>1 DEF Covers
      <4>2. DayOf[e] \in Int /\ DayOf[y] \in Int
        BY <1>1, Dated, FeedTypes DEF FeedTypeOK
      <4>3. ~(DayOf[y] < DayOf[e])
        BY <3>1, <3>2, <4>2
      <4> QED BY <1>5, <1>6, <4>1, <4>3 DEF Kept
    <3>3. new.mark # Never
      <4>1. new.mark \in 1..MaxDay
        BY <1>1, <3>1, Dated
      <4> QED BY <4>1 DEF Never
    <3> QED BY <1>5, <3>1, <3>2, <3>3
  <2> QED BY <1>2, <2>1, <2>2, <2>3
<1>12. Trusted(s, source[s])'
  BY <1>4, <1>11 DEF Trusted
<1>13. \A t \in FeedSources : source'[t] = source[t] \/ Trusted(t, source[t])'
  BY <1>4, <1>12
<1> QED BY <1>7, <1>8, <1>9, <1>13, FeedStep

LEMMA FeedInitially == FeedInit => FeedInv
<1> SUFFICES ASSUME FeedInit PROVE FeedInv
  OBVIOUS
<1>1. FetchRows = {} /\ IsABag(fetches)
  BY DEF FeedInit, FetchRows, EmptyBag, SetToBag, BagToSet, IsABag
<1>2. \A s \in FeedSources : /\ source[s] = [approved |-> TRUE, fetched |-> Never, mark |-> Never,
                                             backfilled |-> FALSE, count |-> 0]
                             /\ feed[s] = {} /\ catalog[s] = {}
  BY DEF FeedInit
<1>3. FeedTypeOK
  BY <1>1, FeedAssumption DEF FeedInit, FeedTypeOK, SourceRows
<1>4. SourcesTrusted
  BY <1>2 DEF SourcesTrusted, Trusted
<1> QED BY <1>1, <1>3, <1>4 DEF FeedInv, FetchesSound

LEMMA FeedStepKeeps == FeedInv /\ [FeedNext]_feedVars => FeedInv'
<1> SUFFICES ASSUME FeedInv, [FeedNext]_feedVars PROVE FeedInv'
  OBVIOUS
<1>1. CASE DayPasses
  BY <1>1, DayPassesKeeps
<1>2. ASSUME NEW s \in FeedSources, Turn(s) PROVE FeedInv'
  BY <1>2, TurnKeeps
<1>3. ASSUME NEW s \in FeedSources, ForceRefresh(s) \/ GateEnqueues(s) \/ DiscoverEnqueues(s) PROVE FeedInv'
  BY <1>3, ForceKeeps
<1>4. ASSUME NEW s \in FeedSources, NEW e \in Entries, Publish(s, e) PROVE FeedInv'
  BY <1>4, PublishKeeps
<1>5. ASSUME NEW s \in FeedSources, FetchStep(s) PROVE FeedInv'
  <2>1. PICK j \in FetchRows :
           FetchStarts(j) \/ FetchDownloads(j) \/ FetchDedupes(j) \/ FetchCommits(j) \/ FetchFails(j)
    BY <1>5 DEF FetchStep
  <2> QED BY <2>1, FetchStartsKeeps, FetchDownloadsKeeps, FetchDedupesKeeps, FetchCommitsKeeps, FetchFailsKeeps
<1>6. CASE RefreshStep
  BY <1>6, RefreshKeeps
<1>7. CASE UNCHANGED feedVars
  <2>1. FeedTypeOK' /\ WorldGrows /\ FetchRows' = FetchRows /\ source' = source
    BY <1>7, FeedTypes DEF feedVars, FeedTypeOK, FetchRows, WorldGrows
  <2> QED BY <2>1, FeedStep
<1> QED BY <1>1, <1>2, <1>3, <1>4, <1>5, <1>6, <1>7 DEF FeedNext

LEMMA FeedInvImplies == FeedInv => NoEntryLost
<1> SUFFICES ASSUME FeedInv, NEW s \in FeedSources, NEW e \in feed[s], ~profile[s].guested, DayOf[e] <= source[s].mark
             PROVE  e \in catalog[s] \/ <<s, e>> \in overtaken
  BY DEF NoEntryLost
<1>1. Trusted(s, source[s]) /\ e \in Entries /\ MaxDay \in Nat
  BY FeedTypes DEF FeedTypeOK
<1>2. source[s].mark # Never
  <2>1. DayOf[e] \in 1..MaxDay
    BY <1>1, Dated
  <2> QED BY <2>1 DEF Never
<1> QED BY <1>1, <1>2 DEF Trusted, Kept

LEMMA FeedInvariant == FeedInit /\ [][FeedNext]_feedVars => []FeedInv
BY FeedInitially, FeedStepKeeps, PTL

\* NoEntryLost, for any entries, sources and fetches: what the published_at
\* filter of fetch_podcast_feed drops has been inserted, or came after a fetch had
\* read an entry of its date or a younger one, or had found nothing.
THEOREM NothingPassedOver == FeedSpec => []NoEntryLost
BY FeedInvariant, FeedInvImplies, PTL DEF FeedSpec

THEOREM FeedTypesHold == FeedSpec => []FeedTypeOK
<1>1. FeedInv => FeedTypeOK
  BY DEF FeedInv
<1> QED BY <1>1, FeedInvariant, PTL DEF FeedSpec

-----------------------------------------------------------------------------
(* Corpus.                                                                 *)

\* An embed job is of a text that is there, and an execution of one with
\* something to embed.
EmbedsWanted ==
    \A d \in Texts : /\ embed[d].open + embed[d].live + embed[d].overtaken > 0 => Done(d)
                     /\ embed[d].live + embed[d].overtaken > 0 => d \notin Blank

Inserting(j) == IngestAt(j) = "inserting"

\* The rows of open transactions are of URLs that nobody has committed, and no
\* two transactions have a row of one URL.
RowsApart ==
    \A j \in Ingests : Inserting(j) =>
        \A v \in ingest[j].rows :
            /\ author[v] = NoAuthor
            /\ \A k \in Ingests : Inserting(k) /\ v \in ingest[k].rows => k = j

\* The expert has a work of the title, or will when the transaction commits.
HasTitle(j, t) == \E w \in Works : About[w].title = t /\ (author[w] = Expert(j) \/ w \in ingest[j].rows)

\* What an open transaction has left behind needs no row of it; what it will
\* leave out it knows from rows that are or will be there.
LeftIsKept ==
    \A j \in Ingests :
        /\ IngestAt(j) = "fetched" => ingest[j].todo = ingest[j].found /\ ingest[j].rows = {}
        /\ Inserting(j) =>
              /\ \A t \in ingest[j].titles : HasTitle(j, t)
              /\ \A v \in ingest[j].found \ ingest[j].todo :
                    v \in ingest[j].rows \/ author[v] # NoAuthor \/ HasTitle(j, About[v].title)

\* A fetch finds the expert's own works.
FoundOwn == \A j \in Ingests : \A v \in ingest[j].found : Expert(j) \in About[v].authors

CorpusInv == CorpusTypeOK /\ FoundOwn /\ EmbedsWanted /\ RowsApart /\ LeftIsKept /\ FetchedIsKept

IngestJobs == [at : {"pending", "fetched", "inserting", "done"}, found : SUBSET Works,
               todo : SUBSET Works, titles : SUBSET Titles, rows : SUBSET Works, source : BOOLEAN]
EmbedJobs == [open : Nat, live : Nat, overtaken : Nat]

\* A sequence in which the k-th element has gone to the end.
Last(s, k) == [i \in 1..Len(s) |-> IF i < k THEN s[i] ELSE IF i < Len(s) THEN s[i + 1] ELSE s[k]]

LEMMA GoesLast ==
    ASSUME NEW S, NEW s \in Seq(S), NEW k \in DOMAIN s
    PROVE  /\ Last(s, k) \in Seq(S)
           /\ \A i \in DOMAIN s : \E l \in DOMAIN Last(s, k) : Last(s, k)[l] = s[i]
<1> PICK t : t = Last(s, k)
  OBVIOUS
<1>0. t = [i \in 1..Len(s) |-> IF i < k THEN s[i] ELSE IF i < Len(s) THEN s[i + 1] ELSE s[k]]
  BY DEF Last
<1>1. Len(s) \in Nat /\ DOMAIN s = 1..Len(s) /\ k \in 1..Len(s) /\ \A i \in 1..Len(s) : s[i] \in S
  OBVIOUS
<1>2. DOMAIN t = 1..Len(s)
  BY <1>0
<1>3. t \in [1..Len(s) -> S]
  <2>1. \A i \in 1..Len(s) : t[i] \in S
    <3> SUFFICES ASSUME NEW i \in 1..Len(s) PROVE t[i] \in S
      OBVIOUS
    <3>1. CASE i < k
      BY <1>0, <1>1, <3>1
    <3>2. CASE ~(i < k) /\ i < Len(s)
      <4>1. i + 1 \in 1..Len(s)
        BY <1>1, <3>2
      <4> QED BY <1>0, <1>1, <3>2, <4>1
    <3>3. CASE ~(i < k) /\ ~(i < Len(s))
      BY <1>0, <1>1, <3>3
    <3> QED BY <3>1, <3>2, <3>3
  <2> QED BY <1>0, <1>2, <2>1
<1>4. t \in Seq(S)
  BY <1>1, <1>3
<1>5. ASSUME NEW i \in DOMAIN s PROVE \E l \in DOMAIN t : t[l] = s[i]
  <2>1. CASE i < k
    BY <1>0, <1>1, <1>2, <1>5, <2>1
  <2>2. CASE i > k
    <3>1. i - 1 \in 1..Len(s) /\ ~(i - 1 < k) /\ i - 1 < Len(s) /\ (i - 1) + 1 = i
      BY <1>1, <2>2
    <3> QED BY <1>0, <1>2, <1>5, <3>1
  <2>3. CASE i = k
    <3>1. Len(s) \in 1..Len(s) /\ ~(Len(s) < k)
      BY <1>1
    <3> QED BY <1>0, <1>2, <1>5, <2>3, <3>1
  <2> QED BY <1>1, <2>1, <2>2, <2>3
<1> QED BY <1>4, <1>5

\* The types that the proofs below take one by one.
LEMMA CorpusTypes ==
    ASSUME CorpusInv
    PROVE  /\ done \in Seq(Transcripts) /\ fails \in 0..MaxFails
           /\ ingest \in [Ingests -> IngestJobs] /\ embed \in [Texts -> EmbedJobs]
           /\ papersOf \subseteq {Expert(j) : j \in Ingests}
           /\ chunked \subseteq {d \in Texts \ Blank : Done(d)}
           /\ sweep \in [on : BOOLEAN, covered : SUBSET Texts]
           /\ \A j \in Ingests : ingest[j].todo \cup ingest[j].rows \subseteq ingest[j].found
           /\ \A v \in Works : author[v] = NoAuthor \/ author[v] \in About[v].authors
BY DEF CorpusInv, CorpusTypeOK, IngestJobs, EmbedJobs

\* Steps that leave works, authors and ingest rows alone.
LEMMA IngestsKept ==
    ASSUME CorpusInv, UNCHANGED <<author, ingest, papersOf>>
    PROVE  /\ ingest' \in [Ingests -> IngestJobs] /\ papersOf' \subseteq {Expert(j) : j \in Ingests}
           /\ \A j \in Ingests : ingest'[j].todo \cup ingest'[j].rows \subseteq ingest'[j].found
           /\ \A v \in Works : author'[v] = NoAuthor \/ author'[v] \in About[v].authors
           /\ FoundOwn' /\ RowsApart' /\ LeftIsKept' /\ FetchedIsKept'
<1>0. FoundOwn'
  BY DEF CorpusInv, FoundOwn, Expert
<1>1. RowsApart'
  BY DEF CorpusInv, RowsApart, Inserting, IngestAt
<1>2. LeftIsKept'
  BY DEF CorpusInv, LeftIsKept, Inserting, IngestAt, HasTitle, Expert
<1>3. FetchedIsKept'
  BY DEF CorpusInv, FetchedIsKept, IngestAt, Expert
<1> QED BY <1>0, <1>1, <1>2, <1>3, CorpusTypes

\* Texts that are there stay.
LEMMA DoneStays ==
    ASSUME \A d \in Transcripts : (\E i \in DOMAIN done : done[i] = d) => \E i \in DOMAIN done' : done'[i] = d,
           \A v \in Works : author[v] # NoAuthor => author'[v] # NoAuthor,
           done \in Seq(Transcripts)
    PROVE  \A d \in Texts : Done(d) => Done(d)'
<1> SUFFICES ASSUME NEW d \in Texts, Done(d) PROVE Done(d)'
  OBVIOUS
<1>1. CASE \E i \in DOMAIN done : done[i] = d
  <2>1. d \in Transcripts
    BY <1>1
  <2> QED BY <1>1, <2>1 DEF Done
<1>2. CASE d \in Works /\ author[d] # NoAuthor
  BY <1>2 DEF Done
<1> QED BY <1>1, <1>2 DEF Done

\* What the steps that enqueue embed jobs do.
LEMMA Enqueues ==
    ASSUME CorpusInv, NEW S \in SUBSET Texts, embed' = Enqueued(S),
           \A d \in Texts : Done(d) => Done(d)', \A d \in S : Done(d)'
    PROVE  embed' \in [Texts -> EmbedJobs] /\ EmbedsWanted'
<1>1. \A d \in Texts : /\ embed'[d] = IF d \in S THEN [embed[d] EXCEPT !.open = @ + 1] ELSE embed[d]
                       /\ embed[d] \in EmbedJobs
  BY CorpusTypes DEF Enqueued
<1>2. \A d \in Texts : /\ embed'[d] \in EmbedJobs /\ embed'[d].live = embed[d].live
                       /\ embed'[d].overtaken = embed[d].overtaken
                       /\ embed'[d].open = IF d \in S THEN embed[d].open + 1 ELSE embed[d].open
  <2> SUFFICES ASSUME NEW d \in Texts
               PROVE  /\ embed'[d] \in EmbedJobs /\ embed'[d].live = embed[d].live
                      /\ embed'[d].overtaken = embed[d].overtaken
                      /\ embed'[d].open = IF d \in S THEN embed[d].open + 1 ELSE embed[d].open
    OBVIOUS
  <2>1. CASE d \in S
    <3>1. embed'[d] = [embed[d] EXCEPT !.open = @ + 1] /\ embed[d] \in EmbedJobs
      BY <1>1, <2>1
    <3> QED BY <2>1, <3>1 DEF EmbedJobs
  <2>2. CASE d \notin S
    BY <1>1, <2>2
  <2> QED BY <2>1, <2>2
<1>3. embed' \in [Texts -> EmbedJobs]
  BY <1>2 DEF Enqueued
<1>4. ASSUME NEW d \in Texts
      PROVE  /\ embed'[d].open + embed'[d].live + embed'[d].overtaken > 0 => Done(d)'
             /\ embed'[d].live + embed'[d].overtaken > 0 => d \notin Blank
  BY <1>1, <1>2 DEF CorpusInv, EmbedsWanted, EmbedJobs
<1> QED BY <1>3, <1>4 DEF EmbedsWanted

LEMMA TranscribedKeeps == ASSUME CorpusInv, NEW d \in Transcripts, Transcribed(d) PROVE CorpusInv'
<1>1. UNCHANGED <<author, ingest, papersOf, chunked, sweep>> /\ embed' = Enqueued({d})
  BY DEF Transcribed
<1>2. /\ done' \in Seq(Transcripts)
      /\ \A e \in Transcripts : (\E i \in DOMAIN done : done[i] = e) => \E i \in DOMAIN done' : done'[i] = e
      /\ \E i \in DOMAIN done' : done'[i] = d
  <2>1. done \in Seq(Transcripts)
    BY CorpusTypes
  <2>2. CASE done' = Append(done, d)
    <3>1. /\ done' \in Seq(Transcripts) /\ DOMAIN done = 1..Len(done) /\ DOMAIN done' = 1..(Len(done) + 1)
          /\ Len(done) \in Nat /\ done'[Len(done) + 1] = d /\ \A i \in DOMAIN done : done'[i] = done[i]
      BY <2>1, <2>2
    <3> QED BY <3>1
  <2>3. CASE \E k \in DOMAIN done : done[k] = d /\ done' =
              [i \in 1..Len(done) |-> IF i < k THEN done[i] ELSE IF i < Len(done) THEN done[i + 1] ELSE d]
    <3>1. PICK k \in DOMAIN done : done[k] = d /\ done' =
              [i \in 1..Len(done) |-> IF i < k THEN done[i] ELSE IF i < Len(done) THEN done[i + 1] ELSE done[k]]
      BY <2>3
    <3>2. k \in DOMAIN done /\ done' = Last(done, k)
      BY <3>1 DEF Last
    <3>3. /\ done' \in Seq(Transcripts)
          /\ \A e : (\E i \in DOMAIN done : done[i] = e) => \E i \in DOMAIN done' : done'[i] = e
      <4>1. /\ Last(done, k) \in Seq(Transcripts)
            /\ \A i \in DOMAIN done : \E l \in DOMAIN Last(done, k) : Last(done, k)[l] = done[i]
        BY ONLY <2>1, <3>2, GoesLast
      <4> QED BY <3>2, <4>1
    <3> QED BY <3>1, <3>3
  <2> QED BY <2>2, <2>3 DEF Transcribed
<1>3. fails' \in 0..MaxFails
  BY CorpusTypes, CorpusAssumption DEF Transcribed, Fault
<1>4. \A e \in Texts : Done(e) => Done(e)'
  BY <1>1, <1>2, CorpusTypes, DoneStays
<1>5. Done(d)' /\ {d} \in SUBSET Texts
  BY <1>2 DEF Done, Texts
<1>6. embed' \in [Texts -> EmbedJobs] /\ EmbedsWanted'
  BY <1>1, <1>4, <1>5, Enqueues
<1>7. chunked' \subseteq {e \in Texts \ Blank : Done(e)'}
  BY <1>1, <1>4, CorpusTypes
<1>8. CorpusTypeOK'
  BY <1>1, <1>2, <1>3, <1>6, <1>7, CorpusTypes, IngestsKept DEF CorpusTypeOK, IngestJobs, EmbedJobs, Expert
<1> QED BY <1>1, <1>6, <1>8, IngestsKept DEF CorpusInv

\* A row of the ingest jobs is written.
LEMMA IngestMoves ==
    ASSUME CorpusInv, NEW j \in Ingests, NEW new \in IngestJobs, ingest' = [ingest EXCEPT ![j] = new]
    PROVE  /\ ingest' \in [Ingests -> IngestJobs] /\ ingest'[j] = new
           /\ \A k \in Ingests : k # j => ingest'[k] = ingest[k]
BY CorpusTypes

\* Steps of an ingest that commit nothing keep the invariant when they keep it
\* of their row.
LEMMA IngestStep ==
    ASSUME CorpusInv, NEW j \in Ingests, NEW new \in IngestJobs, ingest' = [ingest EXCEPT ![j] = new],
           UNCHANGED <<done, author, papersOf, embed, chunked, sweep>>, fails' \in 0..MaxFails,
           new.todo \cup new.rows \subseteq new.found, \A v \in new.found : Expert(j) \in About[v].authors,
           new.at = "fetched" => new.todo = new.found /\ new.rows = {},
           new.at = "done" => new.found = {},
           new.at = "inserting" =>
              /\ \A v \in new.rows : /\ author[v] = NoAuthor
                                     /\ \A k \in Ingests : k # j /\ Inserting(k) => v \notin ingest[k].rows
              /\ \A t \in new.titles : HasTitle(j, t)'
              /\ \A v \in new.found \ new.todo :
                    v \in new.rows \/ author[v] # NoAuthor \/ HasTitle(j, About[v].title)'
    PROVE  CorpusInv'
<1>1. /\ ingest' \in [Ingests -> IngestJobs] /\ ingest'[j] = new
      /\ \A k \in Ingests : k # j => ingest'[k] = ingest[k]
  BY IngestMoves
<1>2. \A k \in Ingests : k # j => \A t : HasTitle(k, t) => HasTitle(k, t)'
  BY <1>1 DEF HasTitle, Expert
<1>3. \A k \in Ingests : k # j => (IngestAt(k)' = IngestAt(k) /\ (Inserting(k)' <=> Inserting(k)))
  BY <1>1 DEF IngestAt, Inserting
<1>4. IngestAt(j)' = new.at /\ (Inserting(j)' <=> new.at = "inserting")
  BY <1>1 DEF IngestAt, Inserting
<1>5. CorpusTypeOK'
  <2>1. \A k \in Ingests : ingest'[k].todo \cup ingest'[k].rows \subseteq ingest'[k].found
    BY <1>1, CorpusTypes
  <2>2. \A d \in Texts : Done(d)' <=> Done(d)
    BY DEF Done
  <2> QED BY <1>1, <2>1, <2>2, CorpusTypes DEF CorpusTypeOK, IngestJobs, EmbedJobs, Expert
<1>10. FoundOwn'
  BY <1>1 DEF CorpusInv, FoundOwn, Expert
<1>6. EmbedsWanted'
  BY DEF CorpusInv, EmbedsWanted, Done
<1>7. RowsApart'
  <2> SUFFICES ASSUME NEW i \in Ingests, Inserting(i)', NEW v \in ingest'[i].rows
               PROVE  /\ author[v] = NoAuthor
                      /\ \A k \in Ingests : Inserting(k)' /\ v \in ingest'[k].rows => k = i
    BY DEF RowsApart
  <2>1. CASE i = j
    BY <1>1, <1>3, <1>4, <2>1
  <2>2. CASE i # j
    <3>1. Inserting(i) /\ v \in ingest[i].rows
      BY <1>1, <1>3, <2>2
    <3>2. /\ author[v] = NoAuthor
          /\ \A k \in Ingests : Inserting(k) /\ v \in ingest[k].rows => k = i
      BY <3>1 DEF CorpusInv, RowsApart
    <3>3. Inserting(j)' => v \notin ingest'[j].rows
      BY <1>1, <1>4, <2>2, <3>1
    <3> QED BY <1>1, <1>3, <3>2, <3>3
  <2> QED BY <2>1, <2>2
<1>8. LeftIsKept'
  <2> SUFFICES ASSUME NEW i \in Ingests
               PROVE  /\ IngestAt(i)' = "fetched" => ingest'[i].todo = ingest'[i].found /\ ingest'[i].rows = {}
                      /\ Inserting(i)' =>
                            /\ \A t \in ingest'[i].titles : HasTitle(i, t)'
                            /\ \A v \in ingest'[i].found \ ingest'[i].todo :
                                 v \in ingest'[i].rows \/ author'[v] # NoAuthor \/ HasTitle(i, About[v].title)'
    BY DEF LeftIsKept
  <2>1. CASE i = j
    BY <1>1, <1>4, <2>1
  <2>2. CASE i # j
    BY <1>1, <1>2, <1>3, <2>2 DEF CorpusInv, LeftIsKept
  <2> QED BY <2>1, <2>2
<1>9. FetchedIsKept'
  <2> SUFFICES ASSUME NEW i \in Ingests, IngestAt(i)' = "done", NEW v \in ingest'[i].found
               PROVE  \/ author[v] # NoAuthor
                      \/ \E w \in Works : About[w].title = About[v].title /\ author[w] = Expert(i)
    BY DEF FetchedIsKept, Expert
  <2>1. i # j
    BY <1>1, <1>4
  <2> QED BY <1>1, <1>3, <2>1 DEF CorpusInv, FetchedIsKept
<1> QED BY <1>5, <1>6, <1>7, <1>8, <1>9, <1>10 DEF CorpusInv

LEMMA IngestFetchesKeeps == ASSUME CorpusInv, NEW j \in Ingests, IngestFetches(j) PROVE CorpusInv'
<1>1. PICK S \in CanFind(j) :
         ingest' = [ingest EXCEPT ![j] = [at |-> IF S = {} THEN "done" ELSE "fetched", found |-> S,
                                          todo |-> S, titles |-> {}, rows |-> {}, source |-> FALSE]]
  BY DEF IngestFetches
<1>2. S \in SUBSET Works /\ \A v \in S : Expert(j) \in About[v].authors
  BY DEF CanFind
<1> DEFINE new == [at |-> IF S = {} THEN "done" ELSE "fetched", found |-> S,
                   todo |-> S, titles |-> {}, rows |-> {}, source |-> FALSE]
<1>3. new \in IngestJobs
  BY <1>2 DEF IngestJobs
<1>4. fails' \in 0..MaxFails
  BY CorpusTypes DEF IngestFetches
<1> QED BY <1>1, <1>2, <1>3, <1>4, IngestStep DEF IngestFetches

\* The transaction is given up, and the row waits for another try.
LEMMA IngestRetried ==
    ASSUME CorpusInv, NEW j \in Ingests, (\E k \in Ingests : IngestDeadlocks(j, k)) \/ IngestFails(j)
    PROVE  CorpusInv'
<1> DEFINE new == [ingest[j] EXCEPT !.at = "pending"]
<1>1. /\ ingest[j] \in IngestJobs /\ ingest[j].todo \cup ingest[j].rows \subseteq ingest[j].found
      /\ \A v \in ingest[j].found : Expert(j) \in About[v].authors
  BY CorpusTypes DEF CorpusInv, FoundOwn
<1>2. /\ new \in IngestJobs /\ new.at = "pending" /\ new.todo \cup new.rows \subseteq new.found
      /\ new.found = ingest[j].found
  BY <1>1 DEF IngestJobs
<1>3. ingest' = [ingest EXCEPT ![j] = new] /\ UNCHANGED <<done, author, papersOf, embed, chunked, sweep>>
  BY DEF IngestDeadlocks, IngestFails, Moves
<1>4. fails' \in 0..MaxFails
  <2>1. fails \in 0..MaxFails /\ MaxFails \in Nat
    BY CorpusTypes, CorpusAssumption
  <2>2. fails' = fails \/ (fails < MaxFails /\ fails' = fails + 1)
    BY DEF IngestDeadlocks, IngestFails, Fault
  <2> QED BY <2>1, <2>2
<1> HIDE DEF new
<1> QED BY <1>1, <1>2, <1>3, <1>4, IngestStep

LEMMA IngestOpensKeeps == ASSUME CorpusInv, NEW j \in Ingests, IngestOpens(j) PROVE CorpusInv'
<1> PICK src \in BOOLEAN : src <=> (For[j].kind = "paper" /\ Expert(j) \notin papersOf)
  OBVIOUS
<1> PICK T : T = IF For[j].kind # "paper" THEN {}
                 ELSE {About[v].title : v \in {w \in Works : author[w] = Expert(j) /\ About[w].kind = "paper"}}
  OBVIOUS
<1> DEFINE new == [ingest[j] EXCEPT !.at = "inserting", !.source = src, !.titles = T]
<1>1. /\ ingest[j] \in IngestJobs /\ IngestAt(j) = "fetched"
      /\ ingest[j].todo = ingest[j].found /\ ingest[j].rows = {}
      /\ \A v \in ingest[j].found : Expert(j) \in About[v].authors
  BY CorpusTypes DEF IngestOpens, CorpusInv, LeftIsKept, FoundOwn
<1>2. T \in SUBSET Titles /\ \A t \in T : \E w \in Works : About[w].title = t /\ author[w] = Expert(j)
  BY DEF Titles
<1>3. /\ new \in IngestJobs /\ new.at = "inserting" /\ new.titles = T
      /\ new.todo = new.found /\ new.rows = {} /\ new.found = ingest[j].found
  BY <1>1, <1>2 DEF IngestJobs
<1>4. ingest' = [ingest EXCEPT ![j] = new] /\ UNCHANGED <<done, author, papersOf, embed, chunked, sweep, fails>>
  BY DEF IngestOpens
<1>5. fails' \in 0..MaxFails
  BY <1>4, CorpusTypes
<1> HIDE DEF new
<1>6. \A t \in T : HasTitle(j, t)'
  BY <1>2, <1>4 DEF HasTitle, Expert
<1> QED BY <1>1, <1>3, <1>4, <1>5, <1>6, IngestStep

LEMMA IngestInsertsKeeps ==
    ASSUME CorpusInv, NEW j \in Ingests, NEW v \in Works, IngestInserts(j, v)
    PROVE  CorpusInv'
<1>1. /\ ingest[j] \in IngestJobs /\ Inserting(j) /\ v \in ingest[j].todo
      /\ ingest[j].todo \cup ingest[j].rows \subseteq ingest[j].found
      /\ \A w \in ingest[j].found : Expert(j) \in About[w].authors
      /\ UNCHANGED <<done, author, papersOf, embed, chunked, sweep, fails>> /\ fails' \in 0..MaxFails
  BY CorpusTypes DEF IngestInserts, Inserting, CorpusInv, FoundOwn
<1>2. /\ \A w \in ingest[j].rows : /\ author[w] = NoAuthor
                                   /\ \A k \in Ingests : Inserting(k) /\ w \in ingest[k].rows => k = j
      /\ \A t \in ingest[j].titles : HasTitle(j, t)
      /\ \A w \in ingest[j].found \ ingest[j].todo :
            w \in ingest[j].rows \/ author[w] # NoAuthor \/ HasTitle(j, About[w].title)
  BY <1>1 DEF CorpusInv, RowsApart, LeftIsKept
<1>3. CASE Skips(j, v) /\ Leaves(j, v)
  <2> DEFINE new == [ingest[j] EXCEPT !.todo = @ \ {v}]
  <2>1. /\ new \in IngestJobs /\ new.at = "inserting" /\ new.titles = ingest[j].titles
        /\ new.found = ingest[j].found /\ new.todo = ingest[j].todo \ {v} /\ new.rows = ingest[j].rows
    BY <1>1 DEF IngestJobs, Inserting, IngestAt
  <2>2. ingest' = [ingest EXCEPT ![j] = new]
    BY <1>3 DEF Leaves
  <2> HIDE DEF new
  <2>3. ingest'[j] = new
    BY <2>1, <2>2, IngestMoves
  <2>4. \A t : HasTitle(j, t) => HasTitle(j, t)'
    BY <1>1, <2>1, <2>3 DEF HasTitle, Expert
  <2>5. author[v] # NoAuthor \/ HasTitle(j, About[v].title)
    BY <1>2, <1>3 DEF Skips
  <2>6. new.todo \cup new.rows \subseteq new.found
    BY <1>1, <2>1
  <2>7. \A w \in new.found \ new.todo : w \in new.rows \/ author[w] # NoAuthor \/ HasTitle(j, About[w].title)'
    BY <1>2, <2>1, <2>4, <2>5
  <2> QED BY <1>1, <1>2, <2>1, <2>2, <2>4, <2>6, <2>7, IngestStep
<1>4. CASE ~Skips(j, v) /\ Uncommitted(v) = {} /\ Takes(j, v)
  <2> DEFINE new == [ingest[j] EXCEPT !.todo = @ \ {v}, !.rows = @ \cup {v}, !.titles = @ \cup {About[v].title}]
  <2>1. /\ new \in IngestJobs /\ new.at = "inserting" /\ new.titles = ingest[j].titles \cup {About[v].title}
        /\ new.found = ingest[j].found /\ new.todo = ingest[j].todo \ {v} /\ new.rows = ingest[j].rows \cup {v}
    <3>1. About[v].title \in Titles
      BY DEF Titles
    <3> QED BY <1>1, <3>1 DEF IngestJobs, Inserting, IngestAt
  <2>2. ingest' = [ingest EXCEPT ![j] = new]
    BY <1>4 DEF Takes
  <2> HIDE DEF new
  <2>3. ingest'[j] = new
    BY <2>1, <2>2, IngestMoves
  <2>4. \A t : HasTitle(j, t) => HasTitle(j, t)'
    BY <1>1, <2>1, <2>3 DEF HasTitle, Expert
  <2>5. HasTitle(j, About[v].title)'
    BY <2>1, <2>3 DEF HasTitle
  <2>6. author[v] = NoAuthor /\ \A k \in Ingests : Inserting(k) => v \notin ingest[k].rows
    BY <1>4 DEF Skips, Uncommitted, Inserting
  <2>7. new.todo \cup new.rows \subseteq new.found
    BY <1>1, <2>1
  <2>8. \A w \in new.found \ new.todo : w \in new.rows \/ author[w] # NoAuthor \/ HasTitle(j, About[w].title)'
    BY <1>2, <2>1, <2>4
  <2>9. \A w \in new.rows : /\ author[w] = NoAuthor
                            /\ \A k \in Ingests : k # j /\ Inserting(k) => w \notin ingest[k].rows
    BY <1>2, <2>1, <2>6
  <2>10. \A t \in new.titles : HasTitle(j, t)'
    BY <1>2, <2>1, <2>4, <2>5
  <2> QED BY <1>1, <2>1, <2>2, <2>7, <2>8, <2>9, <2>10, IngestStep
<1> QED BY <1>3, <1>4 DEF IngestInserts

\* Every text of the rows is attributed, and no attribution is changed.
LEMMA IngestCommitsKeeps == ASSUME CorpusInv, NEW j \in Ingests, IngestCommits(j) PROVE CorpusInv'
<1>1. /\ ingest[j] \in IngestJobs /\ Inserting(j) /\ ingest[j].todo = {} /\ ingest[j].rows \subseteq ingest[j].found
      /\ ingest[j].rows \subseteq Works
      /\ \A v \in ingest[j].found : Expert(j) \in About[v].authors
      /\ \A v \in Works : author'[v] = IF v \in ingest[j].rows THEN Expert(j) ELSE author[v]
      /\ embed' = Enqueued(ingest[j].rows) /\ UNCHANGED <<done, chunked, sweep, fails>>
      /\ \A k \in Ingests : Expert(k) # NoAuthor
  BY CorpusTypes, CorpusAssumption DEF IngestCommits, Inserting, CorpusInv, FoundOwn, IngestJobs, Expert
<1>2. /\ \A v \in ingest[j].rows : /\ author[v] = NoAuthor
                                   /\ \A k \in Ingests : Inserting(k) /\ v \in ingest[k].rows => k = j
      /\ \A v \in ingest[j].found :
            v \in ingest[j].rows \/ author[v] # NoAuthor \/ HasTitle(j, About[v].title)
  BY <1>1 DEF CorpusInv, RowsApart, LeftIsKept
<1> PICK new \in IngestJobs : new = [ingest[j] EXCEPT !.at = "done"]
  BY <1>1 DEF IngestJobs
<1>3. /\ new.at = "done" /\ new.found = ingest[j].found /\ new.todo = ingest[j].todo
      /\ new.rows = ingest[j].rows
  BY <1>1 DEF IngestJobs
<1>4. /\ ingest' \in [Ingests -> IngestJobs] /\ ingest'[j] = new
      /\ \A k \in Ingests : k # j => ingest'[k] = ingest[k]
  <2>1. ingest' = [ingest EXCEPT ![j] = new]
    BY DEF IngestCommits, Moves
  <2> QED BY <2>1, IngestMoves
<1>5. \A v \in Works : author[v] # NoAuthor => author'[v] = author[v]
  BY <1>1, <1>2
<1>6. \A d \in Texts : Done(d) => Done(d)'
  <2>1. \A v \in Works : author[v] # NoAuthor => author'[v] # NoAuthor
    BY <1>5
  <2>2. \A d \in Transcripts : (\E i \in DOMAIN done : done[i] = d) => \E i \in DOMAIN done' : done'[i] = d
    BY <1>1
  <2> QED BY <2>1, <2>2, CorpusTypes, DoneStays
<1>7. embed' \in [Texts -> EmbedJobs] /\ EmbedsWanted'
  <2>1. ingest[j].rows \in SUBSET Texts
    BY <1>1 DEF Texts
  <2>2. \A d \in ingest[j].rows : Done(d)'
    BY <1>1 DEF Done
  <2> QED BY <1>1, <1>6, <2>1, <2>2, Enqueues
<1>8. CorpusTypeOK'
  <2>1. papersOf' \subseteq {Expert(k) : k \in Ingests}
    BY CorpusTypes DEF IngestCommits
  <2>2. \A v \in Works : author'[v] = NoAuthor \/ author'[v] \in About[v].authors
    BY <1>1, CorpusTypes
  <2>3. \A k \in Ingests : ingest'[k].todo \cup ingest'[k].rows \subseteq ingest'[k].found
    BY <1>3, <1>4, CorpusTypes
  <2>4. chunked' \subseteq {d \in Texts \ Blank : Done(d)'}
    BY <1>1, <1>6, CorpusTypes
  <2>5. done' \in Seq(Transcripts) /\ fails' \in 0..MaxFails /\ sweep' \in [on : BOOLEAN, covered : SUBSET Texts]
    BY <1>1, CorpusTypes
  <2> QED BY <1>4, <1>7, <2>1, <2>2, <2>3, <2>4, <2>5 DEF CorpusTypeOK, IngestJobs, EmbedJobs, Expert
<1>9. FoundOwn'
  BY <1>3, <1>4 DEF CorpusInv, FoundOwn, Expert
<1>10. \A k \in Ingests : k # j => \A t : HasTitle(k, t) => HasTitle(k, t)'
  BY <1>1, <1>4, <1>5 DEF HasTitle, Expert
<1>11. /\ \A k \in Ingests : k # j => (IngestAt(k)' = IngestAt(k) /\ (Inserting(k)' <=> Inserting(k)))
       /\ IngestAt(j)' = "done" /\ ~Inserting(j)'
  BY <1>3, <1>4 DEF IngestAt, Inserting
<1>12. RowsApart'
  <2> SUFFICES ASSUME NEW i \in Ingests, Inserting(i)', NEW v \in ingest'[i].rows
               PROVE  /\ author'[v] = NoAuthor
                      /\ \A k \in Ingests : Inserting(k)' /\ v \in ingest'[k].rows => k = i
    BY DEF RowsApart
  <2>1. i # j /\ Inserting(i) /\ v \in ingest[i].rows /\ v \in Works
    BY <1>4, <1>11, CorpusTypes DEF IngestJobs
  <2>2. /\ author[v] = NoAuthor
        /\ \A k \in Ingests : Inserting(k) /\ v \in ingest[k].rows => k = i
    BY <2>1 DEF CorpusInv, RowsApart
  <2> QED BY <1>1, <1>4, <1>11, <2>1, <2>2
<1>13. LeftIsKept'
  <2> SUFFICES ASSUME NEW i \in Ingests
               PROVE  /\ IngestAt(i)' = "fetched" => ingest'[i].todo = ingest'[i].found /\ ingest'[i].rows = {}
                      /\ Inserting(i)' =>
                            /\ \A t \in ingest'[i].titles : HasTitle(i, t)'
                            /\ \A v \in ingest'[i].found \ ingest'[i].todo :
                                 v \in ingest'[i].rows \/ author'[v] # NoAuthor \/ HasTitle(i, About[v].title)'
    BY DEF LeftIsKept
  <2>1. CASE i = j
    BY <1>11, <2>1
  <2>2. CASE i # j
    <3>1. /\ ingest[i].found \subseteq Works /\ ingest'[i] = ingest[i]
          /\ IngestAt(i)' = IngestAt(i) /\ (Inserting(i)' <=> Inserting(i))
      BY <1>4, <1>11, <2>2, CorpusTypes DEF IngestJobs
    <3>2. \A v \in Works : author[v] # NoAuthor => author'[v] # NoAuthor
      BY <1>5
    <3> QED BY <1>10, <2>2, <3>1, <3>2 DEF CorpusInv, LeftIsKept
  <2> QED BY <2>1, <2>2
<1>14. FetchedIsKept'
  <2> SUFFICES ASSUME NEW i \in Ingests, IngestAt(i)' = "done", NEW v \in ingest'[i].found
               PROVE  \/ author'[v] # NoAuthor
                      \/ \E w \in Works : About[w].title = About[v].title /\ author'[w] = Expert(i)
    BY DEF FetchedIsKept, Expert
  <2>0. ingest'[i].found = ingest[i].found /\ v \in Works
    BY <1>3, <1>4, CorpusTypes DEF IngestJobs
  <2>1. CASE i = j
    <3>1. CASE v \in ingest[j].rows
      BY <1>1, <2>0, <3>1
    <3>2. CASE author[v] # NoAuthor
      BY <1>5, <2>0, <3>2
    <3>3. CASE HasTitle(j, About[v].title)
      <4>1. PICK w \in Works : About[w].title = About[v].title /\ (author[w] = Expert(j) \/ w \in ingest[j].rows)
        BY <3>3 DEF HasTitle
      <4> QED BY <1>1, <2>1, <4>1
    <3> QED BY <1>2, <2>0, <2>1, <3>1, <3>2, <3>3
  <2>2. CASE i # j
    <3>1. \/ author[v] # NoAuthor
          \/ \E w \in Works : About[w].title = About[v].title /\ author[w] = Expert(i)
      BY <1>11, <2>0, <2>2 DEF CorpusInv, FetchedIsKept
    <3> QED BY <1>1, <1>5, <2>0, <3>1
  <2> QED BY <2>1, <2>2
<1> QED BY <1>7, <1>8, <1>9, <1>12, <1>13, <1>14 DEF CorpusInv

\* Steps of the embed jobs: the counts stay natural, no count grows of a text
\* that is not there or has nothing to embed.
LEMMA EmbedStep ==
    ASSUME CorpusInv, NEW d \in Texts, NEW new \in EmbedJobs, embed' = [embed EXCEPT ![d] = new],
           UNCHANGED <<done, author, ingest, papersOf, sweep>>, fails' \in 0..MaxFails,
           chunked' = chunked \/ (chunked' = chunked \cup {d} /\ Done(d) /\ d \notin Blank),
           Done(d), d \notin Blank \/ (new.live = 0 /\ new.overtaken = 0)
    PROVE  CorpusInv'
<1>1. embed' \in [Texts -> EmbedJobs] /\ embed'[d] = new /\ \A e \in Texts : e # d => embed'[e] = embed[e]
  BY CorpusTypes
<1>2. \A e \in Texts : Done(e)' <=> Done(e)
  BY DEF Done
<1>4. EmbedsWanted'
  BY <1>1, <1>2 DEF CorpusInv, EmbedsWanted
<1>5. chunked' \subseteq {e \in Texts \ Blank : Done(e)'}
  BY <1>2, CorpusTypes
<1>6. CorpusTypeOK'
  BY <1>1, <1>5, CorpusTypes, IngestsKept DEF CorpusTypeOK, IngestJobs, EmbedJobs, Expert
<1> QED BY <1>4, <1>6, IngestsKept DEF CorpusInv

LEMMA EmbedsKeep ==
    ASSUME CorpusInv, NEW d \in Texts,
           EmbedStarts(d) \/ EmbedCommits(d) \/ OvertakenCommits(d) \/ EmbedFails(d) \/ EmbedReclaimed(d)
    PROVE  CorpusInv'
<1> PICK old \in EmbedJobs : old = embed[d]
  BY CorpusTypes
<1>0. /\ old.open \in Nat /\ old.live \in Nat /\ old.overtaken \in Nat
      /\ (old.open + old.live + old.overtaken > 0 => Done(d))
      /\ (old.live + old.overtaken > 0 => d \notin Blank)
      /\ fails \in 0..MaxFails /\ MaxFails \in Nat
  BY CorpusTypes, CorpusAssumption DEF CorpusInv, EmbedsWanted, EmbedJobs
<1>1. CASE EmbedStarts(d)
  <2> PICK l \in Nat : l = IF d \in chunked \cup Blank THEN old.live ELSE old.live + 1
    BY <1>0
  <2>1. old.open - 1 \in Nat /\ old.open > 0
    BY <1>0, <1>1 DEF EmbedStarts
  <2> DEFINE new == [old EXCEPT !.open = old.open - 1, !.live = l]
  <2>2. new \in EmbedJobs /\ new.live = l /\ new.overtaken = old.overtaken
    BY <2>1 DEF EmbedJobs
  <2>3. embed' = [embed EXCEPT ![d] = new]
    BY <1>1 DEF EmbedStarts
  <2> HIDE DEF new
  <2>4. Done(d)
    BY <1>0, <2>1
  <2>5. d \notin Blank \/ (new.live = 0 /\ new.overtaken = 0)
    BY <1>0, <2>2
  <2>6. UNCHANGED <<done, author, ingest, papersOf, chunked, sweep>> /\ fails' \in 0..MaxFails
    BY <1>0, <1>1 DEF EmbedStarts
  <2> QED BY <2>2, <2>3, <2>4, <2>5, <2>6, EmbedStep
<1>2. CASE EmbedCommits(d)
  <2> PICK o \in Nat : o = IF d \in chunked THEN old.open + 1 ELSE old.open
    BY <1>0
  <2>1. old.live - 1 \in Nat /\ old.live > 0
    BY <1>0, <1>2 DEF EmbedCommits
  <2> DEFINE new == [old EXCEPT !.live = old.live - 1, !.open = o]
  <2>2. new \in EmbedJobs
    BY <2>1 DEF EmbedJobs
  <2>3. embed' = [embed EXCEPT ![d] = new]
    BY <1>2 DEF EmbedCommits
  <2> HIDE DEF new
  <2>4. Done(d) /\ d \notin Blank
    BY <1>0, <2>1
  <2>5. /\ UNCHANGED <<done, author, ingest, papersOf, sweep>> /\ fails' \in 0..MaxFails
        /\ chunked' = chunked \cup {d}
    BY <1>0, <1>2 DEF EmbedCommits
  <2> QED BY <2>2, <2>3, <2>4, <2>5, EmbedStep
<1>3. CASE OvertakenCommits(d)
  <2>1. old.overtaken - 1 \in Nat /\ old.overtaken > 0
    BY <1>0, <1>3 DEF OvertakenCommits
  <2> DEFINE new == [old EXCEPT !.overtaken = old.overtaken - 1]
  <2>2. new \in EmbedJobs
    BY <2>1 DEF EmbedJobs
  <2>3. embed' = [embed EXCEPT ![d] = new]
    BY <1>3 DEF OvertakenCommits
  <2> HIDE DEF new
  <2>4. Done(d) /\ d \notin Blank
    BY <1>0, <2>1
  <2>5. /\ UNCHANGED <<done, author, ingest, papersOf, sweep>> /\ fails' \in 0..MaxFails
        /\ chunked' = chunked \cup {d}
    BY <1>0, <1>3 DEF OvertakenCommits
  <2> QED BY <2>2, <2>3, <2>4, <2>5, EmbedStep
<1>4. CASE EmbedFails(d)
  <2> PICK o \in Nat : /\ o = old.open + 1 \/ o = old.open
                       /\ embed' = [embed EXCEPT ![d] = [old EXCEPT !.live = old.live - 1, !.open = o]]
    <3>1. CASE embed' = [embed EXCEPT ![d].live = @ - 1, ![d].open = @ + 1]
      <4> PICK o \in Nat : o = old.open + 1
        BY <1>0
      <4>1. embed' = [embed EXCEPT ![d] = [old EXCEPT !.live = old.live - 1, !.open = o]]
        BY <3>1
      <4> QED BY <4>1
    <3>2. CASE embed' = [embed EXCEPT ![d].live = @ - 1]
      <4>1. [old EXCEPT !.live = old.live - 1, !.open = old.open] = [old EXCEPT !.live = old.live - 1]
        BY DEF EmbedJobs
      <4> QED BY <1>0, <3>2, <4>1
    <3> QED BY <1>4, <3>1, <3>2 DEF EmbedFails
  <2>1. old.live - 1 \in Nat /\ old.live > 0 /\ fails' \in 0..MaxFails
    BY <1>0, <1>4 DEF EmbedFails, Fault
  <2> DEFINE new == [old EXCEPT !.live = old.live - 1, !.open = o]
  <2>2. new \in EmbedJobs
    BY <2>1 DEF EmbedJobs
  <2>3. embed' = [embed EXCEPT ![d] = new]
    OBVIOUS
  <2> HIDE DEF new
  <2>4. Done(d) /\ d \notin Blank
    BY <1>0, <2>1
  <2>5. /\ UNCHANGED <<done, author, ingest, papersOf, sweep>> /\ fails' \in 0..MaxFails
        /\ chunked' = chunked
    BY <1>0, <1>4, <2>1 DEF EmbedFails
  <2> QED BY <2>2, <2>3, <2>4, <2>5, EmbedStep
<1>5. CASE EmbedReclaimed(d)
  <2>1. old.live - 1 \in Nat /\ old.live > 0 /\ fails' \in 0..MaxFails
    BY <1>0, <1>5 DEF EmbedReclaimed, Fault
  <2> PICK l \in Nat : l = old.live - 1
    BY <2>1
  <2> PICK o \in Nat : o = old.open + 1
    BY <1>0
  <2> PICK t \in Nat : t = old.overtaken + 1
    BY <1>0
  <2> DEFINE new == [old EXCEPT !.live = l, !.open = o, !.overtaken = t]
  <2>2. new \in EmbedJobs
    BY DEF EmbedJobs
  <2>3. embed' = [embed EXCEPT ![d] = new]
    BY <1>5 DEF EmbedReclaimed
  <2> HIDE DEF new
  <2>4. Done(d) /\ d \notin Blank
    BY <1>0, <2>1
  <2>5. /\ UNCHANGED <<done, author, ingest, papersOf, sweep>> /\ fails' \in 0..MaxFails
        /\ chunked' = chunked
    BY <1>0, <1>5, <2>1 DEF EmbedReclaimed
  <2> QED BY <2>2, <2>3, <2>4, <2>5, EmbedStep
<1> QED BY <1>1, <1>2, <1>3, <1>4, <1>5

LEMMA SweepsKeep == ASSUME CorpusInv, SweepReads \/ SweepEnqueues PROVE CorpusInv'
<1>1. UNCHANGED <<done, author, ingest, papersOf, chunked, fails>>
  BY DEF SweepReads, SweepEnqueues
<1>2. \A e \in Texts : Done(e)' <=> Done(e)
  BY <1>1 DEF Done
<1>3. embed' \in [Texts -> EmbedJobs] /\ EmbedsWanted' /\ sweep' \in [on : BOOLEAN, covered : SUBSET Texts]
  <2>1. CASE SweepReads
    <3>1. embed' = embed /\ sweep' \in [on : BOOLEAN, covered : SUBSET Texts]
      BY <2>1 DEF SweepReads
    <3> QED BY <1>2, <3>1, CorpusTypes DEF CorpusInv, EmbedsWanted
  <2>2. CASE SweepEnqueues
    <3>1. PICK S \in SUBSET {d \in Texts : Unembedded(d)} : embed' = Enqueued(S)
      BY <2>2 DEF SweepEnqueues
    <3>2. S \in SUBSET Texts /\ \A d \in S : Done(d)'
      BY <1>2 DEF Unembedded
    <3>3. sweep' \in [on : BOOLEAN, covered : SUBSET Texts]
      BY <2>2 DEF SweepEnqueues, NoSweep
    <3> QED BY <1>2, <3>1, <3>2, <3>3, Enqueues
  <2> QED BY <2>1, <2>2
<1>4. chunked' \subseteq {e \in Texts \ Blank : Done(e)'}
  BY <1>1, <1>2, CorpusTypes
<1>5. CorpusTypeOK'
  BY <1>1, <1>3, <1>4, CorpusTypes, IngestsKept DEF CorpusTypeOK, IngestJobs, EmbedJobs, Expert
<1> QED BY <1>1, <1>3, <1>5, IngestsKept DEF CorpusInv

LEMMA CorpusInitially == CorpusInit => CorpusInv
<1> SUFFICES ASSUME CorpusInit PROVE CorpusInv
  OBVIOUS
<1>1. /\ \A j \in Ingests : ingest[j] = [at |-> "pending", found |-> {}, todo |-> {}, titles |-> {},
                                         rows |-> {}, source |-> FALSE]
      /\ \A d \in Texts : embed[d] = [open |-> 0, live |-> 0, overtaken |-> 0]
  BY DEF CorpusInit
<1>2. CorpusTypeOK
  BY <1>1, CorpusAssumption DEF CorpusInit, CorpusTypeOK, NoSweep
<1>3. FoundOwn /\ RowsApart /\ LeftIsKept /\ FetchedIsKept
  BY <1>1 DEF FoundOwn, RowsApart, LeftIsKept, FetchedIsKept, Inserting, IngestAt
<1>4. EmbedsWanted
  BY <1>1 DEF EmbedsWanted
<1> QED BY <1>2, <1>3, <1>4 DEF CorpusInv

LEMMA CorpusStepKeeps == CorpusInv /\ [CorpusNext]_corpusVars => CorpusInv'
<1> SUFFICES ASSUME CorpusInv, [CorpusNext]_corpusVars PROVE CorpusInv'
  OBVIOUS
<1>1. ASSUME NEW d \in Transcripts, Transcribed(d) PROVE CorpusInv'
  BY <1>1, TranscribedKeeps
<1>2. ASSUME NEW j \in Ingests, IngestFetches(j) PROVE CorpusInv'
  BY <1>2, IngestFetchesKeeps
<1>3. ASSUME NEW j \in Ingests, IngestOpens(j) PROVE CorpusInv'
  BY <1>3, IngestOpensKeeps
<1>4. ASSUME NEW j \in Ingests, IngestCommits(j) PROVE CorpusInv'
  BY <1>4, IngestCommitsKeeps
<1>5. ASSUME NEW j \in Ingests, IngestFails(j) \/ \E k \in Ingests : IngestDeadlocks(j, k) PROVE CorpusInv'
  BY <1>5, IngestRetried
<1>6. ASSUME NEW j \in Ingests, NEW v \in Works, IngestInserts(j, v) PROVE CorpusInv'
  BY <1>6, IngestInsertsKeeps
<1>7. ASSUME NEW d \in Texts,
             EmbedStarts(d) \/ EmbedCommits(d) \/ OvertakenCommits(d) \/ EmbedFails(d) \/ EmbedReclaimed(d)
      PROVE  CorpusInv'
  BY <1>7, EmbedsKeep
<1>8. CASE SweepReads \/ SweepEnqueues
  BY <1>8, SweepsKeep
<1>9. CASE UNCHANGED corpusVars
  <2>1. \A d \in Texts : Done(d)' <=> Done(d)
    BY <1>9 DEF corpusVars, Done
  <2>2. EmbedsWanted'
    BY <1>9, <2>1 DEF corpusVars, CorpusInv, EmbedsWanted
  <2>3. UNCHANGED <<author, ingest, papersOf>>
    BY <1>9 DEF corpusVars
  <2>4. /\ RowsApart' /\ LeftIsKept' /\ FetchedIsKept' /\ FoundOwn'
    BY <2>3, IngestsKept
  <2>5. CorpusTypeOK'
    BY <1>9, <2>1, CorpusTypes DEF corpusVars, CorpusTypeOK, IngestJobs, EmbedJobs, Expert
  <2> QED BY <2>2, <2>4, <2>5 DEF CorpusInv
<1> QED BY <1>1, <1>2, <1>3, <1>4, <1>5, <1>6, <1>7, <1>8, <1>9 DEF CorpusNext

LEMMA CorpusInvariant == CorpusInit /\ [][CorpusNext]_corpusVars => []CorpusInv
BY CorpusInitially, CorpusStepKeeps, PTL

\* What an ingest that completed has found is in the corpus, whichever
\* transactions it met (text_content.py:66-78).
THEOREM FoundIsKept == CorpusSpec => []FetchedIsKept
<1>1. CorpusInv => FetchedIsKept
  BY DEF CorpusInv
<1> QED BY <1>1, CorpusInvariant, PTL DEF CorpusSpec

THEOREM CorpusTypesHold == CorpusSpec => []CorpusTypeOK
<1>1. CorpusInv => CorpusTypeOK
  BY DEF CorpusInv
<1> QED BY <1>1, CorpusInvariant, PTL DEF CorpusSpec

-----------------------------------------------------------------------------
(* The two together.                                                       *)

LEMMA IntakeInvariant == MCSpec => [](FeedInv /\ CorpusInv)
<1>1. MCInit => FeedInv /\ CorpusInv
  BY FeedInitially, CorpusInitially DEF MCInit
<1>2. FeedInv /\ CorpusInv /\ [MCNext]_<<feedVars, corpusVars, focus>> => (FeedInv /\ CorpusInv)'
  <2> SUFFICES ASSUME FeedInv, CorpusInv, [MCNext]_<<feedVars, corpusVars, focus>> PROVE FeedInv' /\ CorpusInv'
    OBVIOUS
  <2>1. [FeedNext]_feedVars /\ [CorpusNext]_corpusVars
    BY DEF MCNext
  <2> QED BY <2>1, FeedStepKeeps, CorpusStepKeeps
<1> QED BY <1>1, <1>2, PTL DEF MCSpec

\* Every variable of both modules keeps its type, whichever moves.
THEOREM IntakeTypes == MCSpec => []TypesOK
<1>1. FeedInv /\ CorpusInv => TypesOK
  BY DEF FeedInv, CorpusInv, TypesOK
<1> QED BY <1>1, IntakeInvariant, PTL
=============================================================================
