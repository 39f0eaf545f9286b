\* Two names, two addresses, every failure, and a restart of the service with
\* another image: records and index entries as containers end and addresses are
\* taken again, callers that are looked up meanwhile, and requests in flight.
SPECIFICATION Spec
CONSTANTS
    Names = {n1, n2}
    Requests = {r1, r2}
    Janitors = {}
    IPs = {i1, i2}
    Ops <- RestartOps
    Faults <- RestartFaults
    MaxRestarts = 1
    NoName = NoName
    NoProc = NoProc
    NoIP = NoIP
SYMMETRY Alike
INVARIANTS
    TypeOK
    InFlightBacked
    IndexSound
