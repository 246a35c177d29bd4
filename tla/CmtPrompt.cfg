\* A Z80 program that reads every byte before the 75 ms are over and stops before
\* the 13 s are; the STOP key and the reset button at any time;
\* a card that may fail to open the file or stop anywhere in it.
SPECIFICATION Spec
CONSTANTS
    File <- MCFile
    MsPerTick = 40
    ReadWithin = 1
    StopWithin = 325
    Hands = {"stop", "reset"}
    SdMayFail = TRUE
INVARIANTS
    Paced
    HeardInOrder
    HeardFromStart
PROPERTIES
    SendOkWaits
    PlayedOnce
