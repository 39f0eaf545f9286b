\* Every route beside the sweeper, on two projects: torn tarballs, and uploads,
\* deletes, downloads, renames and copies that fail.
SPECIFICATION Spec
CONSTANTS
    Projects = {p1, p2}
    Named = {p1}
    Requests = {r1}
    Sweepers = {s1}
    w1 = w1
    w2 = w2
    l1 = l1
    Writes = {w1}
    Links = {}
    Seed <- SeedFile
    Ops <- RouteOps
    Faults <- WideFaults
    ArchiveRetention = 1
    BackupRetention = 1
    MaxNames = 2
    MaxCrashes = 0
    NoDir = NoDir
    Torn = {torn}
    NoProc = NoProc
INVARIANTS
    TypeOK
    ArchiveStored
