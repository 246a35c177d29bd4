\* Two dividers that differ, a wait shorter than a byte and longer than a bit.
SPECIFICATION FairSpec
CONSTANTS
    Byte <- MCByte
    None = None
    IdentDiv = 1
    TransDiv = 0
    Wait = 2
INVARIANTS
    ClockAsAsked
PROPERTIES
    BytesExchanged
    WaitsInFull
    CallsReturn
