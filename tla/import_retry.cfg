\* An import is asked for again while the first one still runs.
SPECIFICATION Spec
CONSTANTS
    Keys = {k1}
    Projects = {p1}
    Owners = {o1}
    Imports = {r1, r2}
    Mutators = {}
    d = d
    e = e
    f1 = f1
    f2 = f2
    f3 = f3
    Entries <- Tops
    Folders <- OneFolder
    Files = {f1, f2}
    EntryOf <- FileEntry
    Versions = {v1}
    LeaseIds = {l1}
    Stamps = {s1, s2}
    Workers = 2
    Faults <- NoFaults
    MaxCrashes = 0
    None = None
    NoLease = NoLease
    NoKey = NoKey
INVARIANTS
    ImportWhole
