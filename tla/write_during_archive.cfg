\* An exec that passed ensureProjectLocal runs between the upload and the delete.
SPECIFICATION Spec
CONSTANTS
    Projects = {p1}
    Named = {p1}
    Requests = {r1, r2}
    Sweepers = {}
    w1 = w1
    w2 = w2
    l1 = l1
    Writes = {w1, w2}
    Links = {}
    Seed <- SeedFile
    Ops <- ExecOps
    Faults <- NoFaults
    ArchiveRetention = 1
    BackupRetention = 1
    MaxNames = 1
    MaxCrashes = 0
    NoDir = NoDir
    Torn = {torn}
    NoProc = NoProc
INVARIANTS
    ArchiveComplete
