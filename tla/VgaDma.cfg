\* A line at its real length; three rows of eight lines of dots, in a frame that ends
\* amid a row, as 525 lines do.  The Z80's longest instruction takes six machine cycles
\* of 18 clocks.
SPECIFICATION Spec
CONSTANTS
    HMAX = 800
    HDISP = 640
    VMAX = 53
    VDISP = 24
    Text = 80
    Pairs = 20
    Rows = 3
    LPC = 7
    Latency = 108
    Slack = 77
    None = None
INVARIANTS
    TextInTime
    AttributesInTime
    RowsInTurn
