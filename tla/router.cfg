CONSTANTS
    upper = upper
    Attempts = {a1}
    Calls = {c1}
    Deciders = {}
    Alpns = {upper}
    AlpnOf <- PeerAlpns
    Regs = {r1, r2}
    RegAlpn <- SameRegs
    Spawns = {w1, w2}
    Shutdowns = {h1, h2}
    NoReg = NoReg
    NoAttempt = NoAttempt
    NoCall = NoCall
SPECIFICATION RouterFairSpec
CHECK_DEADLOCK FALSE
INVARIANTS RegisteredIsServed HeldOnceOverall QuietAfterShutdown
PROPERTIES ShutdownCompletes
