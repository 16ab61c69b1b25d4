CONSTANTS
    Nil = Nil p1 = p1 p2 = p2 r1 = r1 r2 = r2 s1 = s1 s2 = s2
    Pods = {p1, p2}
    Slots = {r1, r2}
    Sources = {s1, s2}
    Mode <- MCMode
    Require <- MCOptional
    MaxRequests = 3
    MaxFaults = 2
SPECIFICATION DeploymentsSpec
INVARIANTS AvailableIsFound ResponseMatchesImport FirstWorkOnce
PROPERTIES AloneAnswered
CHECK_DEADLOCK FALSE
