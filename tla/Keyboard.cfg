\* A, DOWN (sent with E0, and with a shift of its own), and SHIFT.
SPECIFICATION MCSpec
CONSTANTS
    Keys = {28, 114, 18}
    Extended = {114}
    KeyMap <- MCKeyMap
    Scan <- MCScan
    BusClocks = 5
    None = None
INVARIANTS
    ModifiersKept
    Presented
    RowRead
    KeyGoes
PROPERTIES
    KeySeen
