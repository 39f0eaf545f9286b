\* One client that waits for each answer, on one project; calls fail, state
\* files are not saved, and the service dies and comes back.
SPECIFICATION Spec
CONSTANTS
    Projects = {p1}
    Named = {p1}
    Requests = {r1}
    Sweepers = {}
    w1 = w1
    w2 = w2
    l1 = l1
    Writes = {w1, w2, l1}
    Links = {l1}
    Seed <- SeedTree
    Ops <- SerialOps
    Faults <- SerialFaults
    ArchiveRetention = 2
    BackupRetention = 1
    MaxNames = 3
    MaxCrashes = 2
    NoDir = NoDir
    Torn = {torn}
    NoProc = NoProc
INVARIANTS
    ArchiveComplete
    Recoverable
    Attached
