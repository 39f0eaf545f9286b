\* One import at a time, a client of the legacy workspace and two workflows that
\* contend for its lease; calls fail and the service dies.
SPECIFICATION FairSpec
CONSTANTS
    Keys = {k1}
    Projects = {p1}
    Owners = {o1, o2}
    Imports = {r1}
    Mutators = {m1}
    d = d
    e = e
    f1 = f1
    f2 = f2
    f3 = f3
    Entries <- Tops
    Folders <- OneFolder
    Files = {f1, f3}
    EntryOf <- FileEntry
    Versions = {v1}
    LeaseIds = {l1, l2}
    Stamps = {s1, s2}
    Workers = 1
    Faults <- AllFaults
    MaxCrashes = 1
    None = None
    NoLease = NoLease
    NoKey = NoKey
INVARIANTS
    TypeOK
    LeaseHonoured
    ImportReplaces
    Snapshot
PROPERTIES
    Answered
