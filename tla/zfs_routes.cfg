\* Every route on a project and a second one that it is cloned to or from, two requests
\* at once, commands failing, and a crash.
SPECIFICATION Spec
CONSTANTS
    p1 = p1
    p2 = p2
    Projects <- TwoProjects
    Rank <- NameOrder
    Requests = {r1, r2}
    Named <- AllRoutes
    Trees = {t1, t2}
    Asides = {a1, a2}
    Snaps = {s1}
    Faults <- RouteFaults
    Exclusive = TRUE
    MaxCrashes = 1
    Empty = Empty
    Wiped = Wiped
    Nothing = Nothing
    NoDs = NoDs
    NoSnap = NoSnap
    NoName = NoName
    NoJob = NoJob
    Off = Off
    Free = Free
INVARIANTS
    Kept
    RestorePutsBack
    AsidesAccounted
    NoCircle
SYMMETRY Symmetric
