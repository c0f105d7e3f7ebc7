CONSTANTS
    s1 = s1
    s2 = s2
    i1 = i1
    NoSub = NoSub
    Subs = {s1, s2}
    Isolates = {i1}
    IsolateOf <- Together
    KindOf <- PathAndWatch
    MaxToken = 1
    MaxVersion = 4
    Backlog = 1
    MaxRestarts = 0
SPECIFICATION FairSpec
CHECK_DEADLOCK FALSE
INVARIANTS EveryEventCounted DoneMeansComplete
PROPERTIES AbortStops ImplementsPromise WatchConverges
