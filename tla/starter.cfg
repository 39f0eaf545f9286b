\* Two runs of the tools on one name, or on the template's own, then the app they
\* made and its calls.
SPECIFICATION FairSpec
CONSTANTS
    Names = {"site", "starter"}
    Files = {"a.md", "b.md"}
    Procs = {p1, p2}
    CreateLines <- CreateArgLists
    PublishLines <- PublishArgLists
    MaxRuns = 2
    MaxEdits = 1
    None = None
    DefaultMax = 2
    RawLimits <- Raws
    MaxBody = 2
CHECK_DEADLOCK FALSE
INVARIANTS
    TypeOK
    AppWhole
    PublishedWhole
    AnswerSound
    FirstShown
PROPERTIES
    SqlAnswered
