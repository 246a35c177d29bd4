\* The comment on the mode byte against what the two edge detectors do.
SPECIFICATION MCSpec
CONSTANTS
    Zero = zero
    Byte = {zero, ir, load}
    IrBytes = {ir}
    RxeBytes = {load}
    FileBytes = {load}
    Strobes = {"write"}
    BusClocks = 6
    StrobeGap = 3
PROPERTIES
    ModeByteIsNotCommand
