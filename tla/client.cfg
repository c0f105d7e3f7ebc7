CONSTANTS
    Engines = {e1, e2}
    Dials = {d1}
    Followed = d1
    Peers = {p, q}
    p = p
    Wanted <- ToP
    BadIp = BadIp
    Reads = {r1, r2}
    Limit <- Small
    MaxCount = 2
    Buffer = 2
SPECIFICATION FairSpec
CHECK_DEADLOCK FALSE
INVARIANTS AttachedCanBind LostOnlyToTimeouts FreshReads
PROPERTY CloseReleasesAll
