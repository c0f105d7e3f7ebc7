CONSTANTS
    Setups = {s1}
    Builds = {}
    Forced = {}
    NoVerify = {}
    Parts = 1
    Overlap = FALSE
    NoFile = NoFile
    InitCalls = {c1, c2}
SPECIFICATION Spec
CHECK_DEADLOCK FALSE
INVARIANT RepeatedInitSucceeds
