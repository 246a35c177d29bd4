SPECIFICATION FatSpec
CONSTANTS
    a = a
    b = b
    Names = {a, b}
    Modes = {"r", "w", "ru"}
    NFatEnt = 6
    PerSect = 2
    SS = 2
    CSize = 2
    Reads = {5}
    Writes = {1, 5}
    Offsets = {0, 7}
    HeldLen = 5
    MaxCalls = 3
    MaxFaults = 1
    MaxCrashes = 1
SYMMETRY Symmetry
INVARIANTS
    ChainsSound
    CrashSound
    ReadBack
    SyncedKept
    Accounts
    BootKept
