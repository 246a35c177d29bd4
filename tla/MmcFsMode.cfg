\* As main.c uses it: one file at a time, for reading.
SPECIFICATION Spec
CONSTANTS
    ALT_MAX_FD = 5
    MMCFS_FD_MAXNUM = 4
    Cards = {c1}
    NoCard = none
    OpenFlags = {0}
    MaxOpen = 1
    MaxMounts = 3
INVARIANTS
    ModeKept
