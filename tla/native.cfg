CONSTANTS
    Setups = {s1, s2}
    Builds = {b1}
    Forced = {s2}
    NoVerify = {s2}
    Parts = 2
    Overlap = FALSE
    NoFile = NoFile
    InitCalls = {c1, c2}
SPECIFICATION Spec
CHECK_DEADLOCK FALSE
INVARIANTS LoaderTypeOK SetupInstallsWhole InitialisedIsChecked
PROPERTIES SetupKeepsMapped InstalledIsThere
