\* The STOP key may cut a load short at any time; the card works.
SPECIFICATION FairSpec
CONSTANTS
    File <- MCFile
    MsPerTick = 75
    ReadWithin = 0
    StopWithin = 100
    Hands = {"stop"}
    SdMayFail = FALSE
PROPERTIES
    LoadCompletes
    PlayEnds
