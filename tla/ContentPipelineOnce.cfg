\* One episode that names both thinkers, no sweep, no fault.
CONSTANTS
    e = e
    f = f
    t = t
    u = u
    scan = scan
    rescan = rescan
    Contents = {e}
    Thinkers = {t, u}
    Promoters = {scan, rescan}
    Rescans = {rescan}
    Finds <- MCFinds
    Recent = {e}
    Discovered <- MCDiscovered
    Sweeps = {}
    Threshold = 1
    MaxTries = 2
    MaxFaults = 0
SPECIFICATION Spec
INVARIANTS
    EnqueuedByPromotionOnce
CHECK_DEADLOCK FALSE
