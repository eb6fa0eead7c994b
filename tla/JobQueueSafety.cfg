\* Two replicas, a demotable job whose row and type limits differ, a transcription
\* that waits and makes the queue deep, two faults.
CONSTANTS
    a = a
    b = b
    c = c
    Jobs = {a, b}
    Workers = {w1, w2}
    NoWorker = NoWorker
    NoExec = NoExec
    MaxConcurrency = 1
    RowMax <- MCRowMax
    TypeMax <- MCTypeMax
    Accepts <- MCFeedsOnly
    NoHandler = {}
    Demotable = {a}
    Transcriptions = {b}
    Threshold = 0
    Priorities = {5}
    MaxFaults = 2
SPECIFICATION Spec
SYMMETRY WorkerSymmetry
INVARIANTS
    TypeOK
    ExclusiveExecution
    PermitsAccounted
    AttemptsBounded
    OneLateClaim
PROPERTIES
    TerminalIsFinal
