\* Tasks: two replicas, two tasks, an admin who sends two requests, one fault.
CONSTANTS
    Tasks = {k1, k2}
    Replicas = {r1, r2}
    Admins = {a1}
    NoRow = NoRow
    NoReplica = NoReplica
    MaxRunning = 1
    MaxRequests = 2
    MaxFaults = 1
\* GPU: two replicas, a queue below, at and above the threshold, one failed call.
CONSTANTS
    Scalers = {r1, r2}
    NoScaler = NoScaler
    Threshold = 1
    IdleLimit = 1
    MaxDepth = 2
    MaxApiFails = 1
\* Reviews: two replicas; a day of four steps and a week of two days.
CONSTANTS
    Supervisors = {v1, v2}
    NoSupervisor = NoSupervisor
    Day = 4
    Week = 8
    SevenAM = 1
    HealthEvery = 2
    HealthGuard = 1
    AuditGuard = 6
    MaxSkew = 1
    MaxHour = 12
    MaxDowns = 1
SPECIFICATION MCSpec
INVARIANTS
    TypesOK
    OncePerPeriod
    NoPileUp
    OneReviewPerPeriod
    NoPeriodSkipped
PROPERTIES
    DueTasksServed
    ShutDownIdle
    BacklogGetsGpu
CHECK_DEADLOCK FALSE
