\* Two jobs (one without a handler) compete for one worker and its permit, one
\* fault: a slow execution holds the permit while its row, reclaimed with an
\* attempt left, is claimed again.  No symmetry: liveness is checked.
CONSTANTS
    a = a
    b = b
    c = c
    Jobs = {a, b}
    Workers = {w1}
    NoWorker = NoWorker
    NoExec = NoExec
    MaxConcurrency = 1
    RowMax <- MCOperatorsRow
    TypeMax <- MCTranscriptionMax
    Accepts <- MCAccepts
    NoHandler = {b}
    Demotable = {}
    Transcriptions = {a}
    Threshold = 0
    Priorities = {5}
    MaxFaults = 1
SPECIFICATION FairSpec
PROPERTIES
    RunningEnds
    Settles
    ImplementsLeases
