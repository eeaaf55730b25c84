SPECIFICATION FairSpec
CONSTANTS
    r1 = r1
    r2 = r2
    r3 = r3
    None = None
    Reqs = {r1, r2, r3}
    SemCap = 2
INVARIANTS
    TypeOK
    CloseAnswerIsLast
    ClosedIsQuiet
    ClosedStatsAddUp
    CleanExitLosesNothing
    StatsAreFinal
PROPERTIES
    Terminates
    ImplementsUploads
