\* The refinement and the device's invariants, with a firmware that writes and with
\* one that reads (main.c:316-327 compiled in).
SPECIFICATION MCSpec
CONSTANTS
    Zero = zero
    Byte = {zero, ir, load}
    IrBytes = {ir}
    RxeBytes = {load}
    FileBytes = {load}
    Strobes = {"write", "read"}
    BusClocks = 6
    StrobeGap = 3
INVARIANTS
    ModeIsOff
PROPERTIES
    Transactions
    ReadyByteKept
