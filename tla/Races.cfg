\* Nominees: a seed and a nominee of the critic, which an operator launches once.
CONSTANTS
    Seeds = {s1}
    Nominees = {n1}
    NoCand = NoCand
    MaxTries = 1
    MaxFaults = 0
    MaxClicks = 0
    MaxLaunches = 1
\* Approval: two thinkers, a source, two acts of operators or the agent.
CONSTANTS
    Thinkers = {t1, t2}
    Sources = {p1}
    GateTries = 2
    MaxActs = 2
\* Passes: a row with three tries, so that it is reclaimed and claimed again
\* beside its slow execution; one worker lost, partial file or failed unlink.
CONSTANTS
    a1 = a1
    TextJobs = {a1}
    Segments = 2
    TextTries <- MCTextTries
    Episodes <- MCEpisodes
    MaxMishaps = 1
\* Usage: two clients of a service with a limit of one and a reviewer, two
\* rollups, five half hours.
CONSTANTS
    Clients = {c1, c2}
    Reviewers = {v1}
    NoClient = NoClient
    Rollups = {j1, j2}
    Limit = 1
    MaxHalf = 5
    MaxCalls = 2
\* Chat: two messages, of which one asks the LLM twice, two confirmations, a restart.
CONSTANTS
    q1 = q1
    q2 = q2
    Sends = {q1, q2}
    Confirms = {y1, y2}
    MaxTools = 1
    MaxLoops <- MCMaxLoops
    MaxRestarts = 1
SPECIFICATION MCSpec
INVARIANTS
    TypesOK
    NomineesDoNotTrigger
    WaitingHasCheck
    AudioGone
    WithinLimit
    EveryCallCounted
    ExecutedOnce
CHECK_DEADLOCK FALSE
