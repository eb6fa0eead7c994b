\* One source without a refresh interval, over three days.
CONSTANTS
    FeedSources = {p1}
    MaxDay = 2
    e1 = e1
    e2 = e2
    Entries = {e1, e2}
    DayOf <- MCDayOf
    Profiles <- MCUnpaced
    Mentions = {}
    FetchTries = 2
    MaxForces = 0
    MaxTurns = 0
SPECIFICATION FeedSpec
PROPERTIES
    KeepsRefreshing
CHECK_DEADLOCK FALSE
