\* Two tabs, of one browser or of two; four things their users do.
SPECIFICATION FairSpec
CONSTANTS
    t1 = t1
    t2 = t2
    b1 = b1
    b2 = b2
    Tabs = {t1, t2}
    Browsers = {b1, b2}
    Profiles <- OneOrTwo
    Owners = {o1, o2}
    Sessions = {c1, c2}
    MaxMsgs = 2
    MaxClicks = 4
    MaxActs = 2
    Nobody = Nobody
    New = New
    Idle = Idle
    Closed = Closed
CHECK_DEADLOCK FALSE
INVARIANTS
    TypeOK
    Removed
PROPERTIES
    TitleEarned
    Conversation
    Settles
