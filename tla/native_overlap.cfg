CONSTANTS
    Setups = {s1, s2}
    Builds = {}
    Forced = {}
    NoVerify = {}
    Parts = 2
    Overlap = TRUE
    NoFile = NoFile
    InitCalls = {c1}
SPECIFICATION Spec
CHECK_DEADLOCK FALSE
INVARIANT NoPartialSeen
