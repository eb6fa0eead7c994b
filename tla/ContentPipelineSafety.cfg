\* An episode that names two thinkers, both promoters, two overlapping sweeps, one fault.
CONSTANTS
    e = e
    f = f
    t = t
    u = u
    scan = scan
    rescan = rescan
    Contents = {e}
    Thinkers = {t, u}
    Promoters = {scan, rescan}
    Rescans = {rescan}
    Finds <- MCFinds
    Recent = {e}
    Discovered <- MCDiscovered
    Sweeps = {s1, s2}
    Threshold = 1
    MaxTries = 2
    MaxFaults = 1
SPECIFICATION Spec
SYMMETRY SweepSymmetry
INVARIANTS
    TypeOK
    SingleFlight
    TranscribedOnce
PROPERTIES
    DoneIsFinal
