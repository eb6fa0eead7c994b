\* Two seeds, no fault, no operator.
CONSTANTS
    Seeds = {s1, s2}
    Nominees = {}
    NoCand = NoCand
    MaxTries = 3
    MaxFaults = 0
    MaxClicks = 0
    MaxLaunches = 0
SPECIFICATION FairSpec
PROPERTIES
    SettledIsCritiqued
CHECK_DEADLOCK FALSE
