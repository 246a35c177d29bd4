\* Three bytes: a key, the break prefix, and one of ones only.
SPECIFICATION FairSpec
CONSTANTS
    Code = {28, 240, 255}
    None = None
    MinPhase = 2
INVARIANTS
    InStep
PROPERTIES
    HandsOver
    Arrives
