CONSTANTS
    Attempts = {a1, a2}
    Calls = {c1, c2}
    Deciders = {d1, d2}
    Alpns = {echo}
    AlpnOf <- OneAlpn
    NoAttempt = NoAttempt
    NoCall = NoCall
SPECIFICATION FairSpec
CHECK_DEADLOCK FALSE
INVARIANTS TypeOK HeldOnce ConnectedHasOwner OneVerdict
PROPERTIES CloseReleases TakenIsAnswered
