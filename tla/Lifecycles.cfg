\* Candidate: one, with one fault and two decisions of operators.
CONSTANTS
    Seeds = {s1}
    Nominees = {}
    NoCand = NoCand
    MaxTries = 3
    MaxFaults = 1
    MaxClicks = 2
    MaxLaunches = 0
\* Inquiry: one expert, a row and a retry's copy, one crash or reclamation.
CONSTANTS
    Experts = {e1}
    InquiryRows = {q1, q2}
    NoHolder = NoHolder
    InquiryTries = 2
    MaxCrashes = 1
\* Episodes: two that compete for the sweep's budget of one, a rescan, one fault.
CONSTANTS
    Contents = {c1, c2}
    EpisodeThinkers = {u1}
    Promoter = p1
    Sweeps = {w1}
    Threshold = 1
    EpisodeTries = 2
    EpisodeFaults = 1
SPECIFICATION MCSpec
INVARIANTS
    TypesOK
    RosterConsistent
    AwaitingHasJudge
PROPERTIES
    Decided
    InquiryCompletes
    ImplementsMatrix
    EpisodesTranscribed
CHECK_DEADLOCK FALSE
