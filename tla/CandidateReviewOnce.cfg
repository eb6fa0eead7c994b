\* Two seeds, no fault, no operator.
CONSTANTS
    Seeds = {s1, s2}
    Nominees = {n1}
    NoCand = NoCand
    MaxTries = 3
    MaxFaults = 0
    MaxClicks = 0
    MaxLaunches = 0
SPECIFICATION Spec
INVARIANTS
    FiresOnce
CHECK_DEADLOCK FALSE
