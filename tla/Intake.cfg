\* Feeds: one source over three days with three entries, two of one date; one
\* forced fetch, one change of its approval.
CONSTANTS
    FeedSources = {p1}
    MaxDay = 2
    e1 = e1
    e2 = e2
    e3 = e3
    Entries = {e1, e2, e3}
    DayOf <- MCDayOf
    Profiles <- MCProfiles
    Mentions = {}
    FetchTries = 2
    MaxForces = 1
    MaxTurns = 1
\* Texts: a transcript without chunks, two papers of both experts, one fault.
CONSTANTS
    x1 = x1
    x2 = x2
    i1 = i1
    i2 = i2
    Transcripts = {b1}
    Blank = {b1}
    Works = {w1, w2}
    About <- MCAbout
    Ingests = {i1, i2}
    For <- MCFor
    NoAuthor = NoAuthor
    SWEEP_BUDGET = 2
    MaxFails = 1
SPECIFICATION MCSpec
INVARIANTS
    TypesOK
    NoEntryLost
    FetchedIsKept
PROPERTIES
    DueFeedsFetched
    EmbeddedInTheEnd
CHECK_DEADLOCK FALSE
