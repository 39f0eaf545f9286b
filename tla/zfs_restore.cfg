\* A restore beside the first command after a restart; nothing fails by itself.
SPECIFICATION Spec
CONSTANTS
    p1 = p1
    p2 = p2
    Projects <- OneProject
    Rank <- NameOrder
    Requests = {r1, r2}
    Named <- RestoreAndExec
    Trees = {t1, t2}
    Asides = {a1, a2}
    Snaps = {s1}
    Faults <- NoFaults
    Exclusive = TRUE
    MaxCrashes = 0
    Empty = Empty
    Wiped = Wiped
    Nothing = Nothing
    NoDs = NoDs
    NoSnap = NoSnap
    NoName = NoName
    NoJob = NoJob
    Off = Off
    Free = Free
INVARIANTS
    FailedRestoreHarmless
