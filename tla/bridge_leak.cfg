CONSTANTS
    s1 = s1
    s2 = s2
    i1 = i1
    NoSub = NoSub
    Subs = {s1}
    Isolates = {i1}
    IsolateOf <- Alone
    KindOf <- OnePath
    MaxToken = 1
    MaxVersion = 2
    Backlog = 1
    MaxRestarts = 0
SPECIFICATION Spec
CHECK_DEADLOCK FALSE
INVARIANT CancelStopsTask
