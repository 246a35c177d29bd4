\* Two cards, two files at once in any mode, three objects.
SPECIFICATION Spec
CONSTANTS
    ALT_MAX_FD = 5
    MMCFS_FD_MAXNUM = 3
    Cards = {c1, c2}
    NoCard = none
    OpenFlags = {0, 1, 2}
    MaxOpen = 2
    MaxMounts = 3
VIEW LiveState
INVARIANTS
    ObjectsKept
    OwnCard
