\* One transcription, limited to two attempts, and one worker that crashes.
CONSTANTS
    a = a
    b = b
    c = c
    Jobs = {b}
    Workers = {w1}
    NoWorker = NoWorker
    NoExec = NoExec
    MaxConcurrency = 1
    RowMax <- MCTranscriptionMax
    TypeMax <- MCTranscriptionMax
    Accepts <- MCAccepts
    NoHandler = {}
    Demotable = {}
    Transcriptions = {b}
    Threshold = 1
    Priorities = {5}
    MaxFaults = 1
SPECIFICATION Spec
PROPERTIES
    FailsWhenSpent
CHECK_DEADLOCK FALSE
