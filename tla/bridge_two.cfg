CONSTANTS
    s1 = s1
    s2 = s2
    i1 = i1
    NoSub = NoSub
    Subs = {s1, s2}
    Isolates = {i1}
    IsolateOf <- Together
    KindOf <- PathAndWatch
    MaxToken = 2
    MaxVersion = 1
    Backlog = 2
    MaxRestarts = 1
SPECIFICATION FairSpec
CHECK_DEADLOCK FALSE
INVARIANTS TypeOK LiveNeverAborted LeakIsRegistered
PROPERTY TasksEndWithSource
