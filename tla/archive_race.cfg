\* Two requests and the sweeper contend for one project; its handlers fail at
\* any call, but no state file is lost and the service does not die.
SPECIFICATION FairSpec
CONSTANTS
    Projects = {p1}
    Named = {p1}
    Requests = {r1, r2}
    Sweepers = {s1}
    w1 = w1
    w2 = w2
    l1 = l1
    Writes = {w1, l1}
    Links = {l1}
    Seed <- SeedTree
    Ops <- RaceOps
    Faults <- RaceFaults
    ArchiveRetention = 1
    BackupRetention = 1
    MaxNames = 3
    MaxCrashes = 0
    NoDir = NoDir
    Torn = {torn}
    NoProc = NoProc
INVARIANTS
    ArchiveComplete
    Recoverable
    OneHome
    TransitionDriven
PROPERTIES
    LegalTransition
    Answered
    TransitionsEnd
