\* All kinds of card; one, three or no sectors; every waiting loop can go on and can end.
SPECIFICATION FairSpec
CONSTANTS
    Kinds = {"MMC", "SD1", "SD2", "SDHC"}
    Sector = {1, 2}
    Counts = {0, 1, 3}
    ReadyTries = 2
    TokenTries = 2
    InitTries = 3
    None = None
INVARIANTS
    Deselected
    InOrder
    OkIsComplete
    StatIsTrue
PROPERTIES
    ProtectedKept
    UsableWasReady
    CallEnds
