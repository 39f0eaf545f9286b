\* One name, every route: flights, credentials, idle timers.
SPECIFICATION FairSpec
CONSTANTS
    Names = {n1}
    Requests = {r1, r2}
    Janitors = {j1}
    IPs = {i1}
    Ops <- IdleOps
    Faults <- IdleFaults
    MaxRestarts = 0
    NoName = NoName
    NoProc = NoProc
    NoIP = NoIP
INVARIANTS
    NameFree
    CredentialsOwned
    Watched
PROPERTIES
    Answered
    IdleEnds
