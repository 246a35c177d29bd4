------------------------------- MODULE VgaDma -------------------------------
(***************************************************************************)
(* The text display's DMA (vga.v, with the counters of hvgen.v and the     *)
(* memory multiplexer of pc.v), clock by clock.                            *)
(*                                                                         *)
(* Before a row of characters is displayed, the display asks the Z80 for   *)
(* its bus and copies the row's text and attribute pairs into two buffers, *)
(* which it reads while the beam crosses the lines of the row.  The bytes  *)
(* pass the memory's and the display's registers on their way.             *)
(*                                                                         *)
(* A byte stands for the place it was read from, counted from 7300h; one   *)
(* that came while the Z80 had the bus is None.  The Z80 is external but   *)
(* for the time it takes: it lets the bus go at the end of an instruction. *)
(* What the pixels look like, the cursor and the CRTC registers are left   *)
(* out: r_lpc and the size switch keep their values.  The reset button     *)
(* leads to a state of Init, whose buffers hold nothing known.             *)
(***************************************************************************)
EXTENDS Naturals, Sequences

CONSTANTS
    HMAX, HDISP,         \* clocks of a line, and of its displayed part: 800, 640
    VMAX, VDISP,         \* lines of a frame, and displayed ones at 8 dots: 525, 200
    Text, Pairs,         \* bytes of text and attribute pairs of a row: 80, 20
    Rows,                \* rows in the memory, 25
    LPC,                 \* r_lpc: lines of a character, less one
    Latency,             \* clocks the Z80 takes at most: its longest instruction
    Slack,               \* clocks it may take before the attributes come late
    None

Bytes  == Text + 2 * Pairs
RamEnd == Rows * Bytes                         \* 7EB8h

ASSUME LineAssumption  == {HMAX, HDISP, VMAX, VDISP} \subseteq Nat /\ HDISP = 8 * Text /\ HDISP < HMAX
ASSUME RowAssumption   == {Text, Pairs, Rows} \subseteq Nat \ {0} /\ LPC \in {1, 3, 5, 7, 9}
ASSUME PairAssumption  == Text % 2 = 0         \* a pair begins at an even count
ASSUME FrameAssumption == VDISP <= Rows * (LPC + 1) /\ 2 * VDISP < VMAX
ASSUME BusAssumption   == Latency \in Nat \ {0} /\ Slack \in Nat /\ None \notin Nat

\* A row's bytes pass within one line: a frame may end a line after a row has begun.
ASSUME TimeAssumption  == Latency + Bytes + 5 < HMAX

VARIABLES
    hcnt, vcnt, r_charactor_size, r_charactor_vcnt,
    \* the transfer
    r_dma_state, r_dma_trans_count, O_RAM_ADR, r_dma_dst_adr, r_dma_att_adr,
    \* the bus: request, the Z80's acknowledge, its copy, and how long the Z80 has been asked
    O_BUSREQ, busack, r_busack, waited,
    \* the memory's output and its copy; write addresses on their way, newest first
    w_ram_data, r_ram_data, r_rowbuf, r_attbuf, r_att_1st_data, r_attbuf_indata,
    \* the buffers, their read addresses and outputs
    ROWBUF, ATTRIBUTE, r_text_adr, r_attbuf_adr, w_rowbuf_outdata, w_attbuf_outdata,
    \* history: has a frame been begun; did the Z80 take longer than Slack for this row
    frame, late

beam    == <<hcnt, vcnt, r_charactor_size, r_charactor_vcnt>>
dma     == <<r_dma_state, r_dma_trans_count, O_RAM_ADR, r_dma_dst_adr, r_dma_att_adr>>
bus     == <<O_BUSREQ, busack, r_busack, waited>>
pipe    == <<w_ram_data, r_ram_data, r_rowbuf, r_attbuf, r_att_1st_data, r_attbuf_indata>>
buffers == <<ROWBUF, ATTRIBUTE, r_text_adr, r_attbuf_adr, w_rowbuf_outdata, w_attbuf_outdata>>
vars    == <<beam, dma, bus, pipe, buffers, frame, late>>

Byte == 0 .. RamEnd \cup {None}

TypeOK ==
    /\ hcnt \in 0 .. HMAX - 1 /\ vcnt \in 0 .. VMAX - 1
    /\ r_charactor_size \in {0, 1} /\ r_charactor_vcnt \in 0 .. LPC
    /\ r_dma_state \in {0, 1} /\ r_dma_trans_count \in 0 .. Bytes - 1 /\ O_RAM_ADR \in 0 .. RamEnd
    /\ r_dma_dst_adr \in 0 .. Text /\ r_dma_att_adr \in 0 .. Pairs
    /\ {O_BUSREQ, busack, r_busack, frame, late} \subseteq BOOLEAN /\ waited \in 0 .. Latency - 1
    /\ {w_ram_data, r_ram_data, r_att_1st_data} \subseteq Byte /\ r_attbuf_indata \in Byte \X Byte
    /\ r_rowbuf \in [1 .. 2 -> 0 .. Text - 1 \cup {None}]
    /\ r_attbuf \in [1 .. 4 -> 0 .. Pairs - 1 \cup {None}]
    /\ ROWBUF \in [0 .. Text - 1 -> Byte] /\ ATTRIBUTE \in [0 .. Pairs - 1 -> Byte \X Byte]
    /\ r_text_adr \in 0 .. Text - 1 /\ r_attbuf_adr \in 0 .. Pairs
    /\ w_rowbuf_outdata \in Byte /\ w_attbuf_outdata \in Byte \X Byte

Init ==
    /\ hcnt = 0 /\ vcnt = 0 /\ r_charactor_size \in {0, 1} /\ r_charactor_vcnt = 0
    /\ r_dma_state = 0 /\ r_dma_trans_count = 0 /\ O_RAM_ADR = 0
    /\ r_dma_dst_adr = 0 /\ r_dma_att_adr = 0
    /\ O_BUSREQ = FALSE /\ busack = FALSE /\ r_busack = FALSE /\ waited = 0
    /\ w_ram_data = None /\ r_ram_data = None /\ r_att_1st_data = None
    /\ r_attbuf_indata = <<None, None>>
    /\ r_rowbuf = [i \in 1 .. 2 |-> None] /\ r_attbuf = [i \in 1 .. 4 |-> None]
    /\ ROWBUF = [i \in 0 .. Text - 1 |-> None]
    /\ ATTRIBUTE = [i \in 0 .. Pairs - 1 |-> <<None, None>>]
    /\ r_text_adr = 0 /\ r_attbuf_adr = 0
    /\ w_rowbuf_outdata = None /\ w_attbuf_outdata = <<None, None>>
    /\ frame = FALSE /\ late = FALSE

-----------------------------------------------------------------------------
(* The beam. *)

LineEnd   == hcnt = HDISP - 1
LastLine  == vcnt = VMAX - 1
w_chlast  == r_charactor_vcnt = LPC
RowStarts == LineEnd /\ (LastLine \/ w_chlast)

w_hdisp_en == hcnt < HDISP
w_vdisp_en == vcnt < VDISP * (1 + r_charactor_size)
w_hdotcnt  == hcnt % 8

\* In the 16-dot size, bit 1 of the line says whether the character's line advances.
Advances == r_charactor_size = 0 \/ (vcnt \div 2) % 2 = 1

Beam ==
    /\ hcnt' = (hcnt + 1) % HMAX
    /\ vcnt' = IF hcnt = HMAX - 1 THEN (vcnt + 1) % VMAX ELSE vcnt
    /\ r_charactor_vcnt' = IF RowStarts THEN 0
                           ELSE IF LineEnd /\ Advances THEN r_charactor_vcnt + 1
                           ELSE r_charactor_vcnt
    /\ UNCHANGED r_charactor_size

-----------------------------------------------------------------------------
(* The bus, and the transfer: a byte in each clock of the acknowledge. *)

w_dma_trans_vram      == r_dma_trans_count < Text
w_dma_trans_attribute == r_dma_trans_count >= Text
Odd == r_dma_trans_count % 2 = 1

\* The Z80 looks at the request where an instruction ends, and waits while it lasts.
Acknowledge ==
    \/ busack' = O_BUSREQ /\ waited' = 0
    \/ O_BUSREQ /\ ~busack /\ waited + 1 < Latency /\ busack' = FALSE /\ waited' = waited + 1

StillRequested == O_BUSREQ \/ r_dma_state # 0  \* mutant: the bus is not given back
Requested      == r_dma_state # 0

Bus ==
    /\ O_BUSREQ' = Requested
    /\ Acknowledge
    /\ r_busack' = busack
    /\ late' = IF LineEnd THEN FALSE ELSE late \/ (busack' /\ ~busack /\ waited >= Slack)

Transferring == r_dma_state = 1 /\ r_busack

BeginRow ==
    /\ r_dma_state = 0 /\ RowStarts
    /\ r_dma_state' = 1
    /\ O_RAM_ADR' = IF LastLine THEN 0 ELSE O_RAM_ADR
    /\ r_dma_dst_adr' = 0 /\ r_dma_att_adr' = 0
    /\ frame' = (frame \/ LastLine)
    /\ UNCHANGED r_dma_trans_count

w_dma_trans_count_end == r_dma_trans_count = Bytes - 1

Transfer ==
    /\ Transferring
    /\ IF w_dma_trans_count_end THEN r_dma_trans_count' = 0 /\ r_dma_state' = 0
                                ELSE r_dma_trans_count' = r_dma_trans_count + 1 /\ UNCHANGED r_dma_state
    /\ r_dma_dst_adr' = IF w_dma_trans_vram THEN r_dma_dst_adr + 1 ELSE r_dma_dst_adr
    /\ r_dma_att_adr' = IF w_dma_trans_attribute /\ Odd THEN r_dma_att_adr + 1 ELSE r_dma_att_adr
    /\ O_RAM_ADR' = IF O_RAM_ADR < RamEnd THEN O_RAM_ADR + 1 ELSE O_RAM_ADR
    /\ UNCHANGED frame

NoTransfer == ~Transferring /\ ~(r_dma_state = 0 /\ RowStarts) /\ UNCHANGED <<dma, frame>>

Dma == BeginRow \/ Transfer \/ NoTransfer

\* The memory takes the address of whoever has the bus.
w_address == IF busack THEN O_RAM_ADR ELSE None

Enters(reg, enable, adr) == <<IF enable THEN adr ELSE None>> \o SubSeq(reg, 1, Len(reg) - 1)

Pipe ==
    /\ w_ram_data' = w_address
    /\ r_ram_data' = w_ram_data
    /\ r_rowbuf' = Enters(r_rowbuf, Transferring /\ w_dma_trans_vram, r_dma_dst_adr)
    /\ r_attbuf' = Enters(r_attbuf, Transferring /\ w_dma_trans_attribute, r_dma_att_adr)
    /\ r_att_1st_data' = IF w_dma_trans_attribute /\ ~Odd THEN r_ram_data ELSE r_att_1st_data
    /\ r_attbuf_indata' = IF w_dma_trans_attribute /\ Odd THEN <<r_att_1st_data, r_ram_data>>
                                                          ELSE r_attbuf_indata

-----------------------------------------------------------------------------
(* The buffers. *)

\* A two-port memory with the address registered: what a read returns while the same
\* place is written is unspecified.
Written(mem, adr, data) == IF adr = None THEN mem ELSE [mem EXCEPT ![adr] = data]
Read(mem, adr, wradr, unspecified) ==
    IF adr = wradr \/ adr \notin DOMAIN mem THEN unspecified ELSE mem[adr]

EarlyAddress == r_rowbuf[1]                    \* mutant: the data is a clock behind it
RowAddress   == r_rowbuf[2]

EarlyPair   == r_attbuf[2]                     \* mutant: two clocks early
PairAddress == r_attbuf[4]

\* A pair applies from the column it names; which one that is, is data.
Matches == w_hdisp_en /\ w_hdotcnt = 6 /\ r_attbuf_adr < Pairs

Buffers ==
    /\ ROWBUF' = Written(ROWBUF, RowAddress, r_ram_data)
    /\ ATTRIBUTE' = Written(ATTRIBUTE, PairAddress, r_attbuf_indata)
    /\ w_rowbuf_outdata' = Read(ROWBUF, r_text_adr, RowAddress, None)
    /\ w_attbuf_outdata' = Read(ATTRIBUTE, r_attbuf_adr, PairAddress, <<None, None>>)
    /\ r_text_adr' = IF LineEnd THEN 0
                     ELSE IF w_hdisp_en /\ w_hdotcnt = 7 THEN r_text_adr + 1 ELSE r_text_adr
    /\ \/ r_attbuf_adr' = IF LineEnd THEN 0 ELSE r_attbuf_adr
       \/ Matches /\ r_attbuf_adr' = r_attbuf_adr + 1

Next == Beam /\ Bus /\ Dma /\ Pipe /\ Buffers

Spec == Init /\ [][Next]_vars

-----------------------------------------------------------------------------
(* Properties. *)

Lines == (LPC + 1) * (1 + r_charactor_size)
Row   == (vcnt \div Lines) * Bytes

\* A character taken for display is that of its row and column, on every line of the
\* row and however late the Z80 lets the bus go (vga.v:217-247, 262-320, 510-513).
TextInTime ==
    frame /\ w_vdisp_en /\ w_hdisp_en /\ w_hdotcnt \in {6, 7} =>
        w_rowbuf_outdata = Row + hcnt \div 8

\* So is an attribute pair, but for two things: on the first line of a row it is in
\* time only if the Z80 was quick, and in the last place of a row the buffer has a copy
\* of the pair before, the last pair being still on its way when the transfer ends
\* (vga.v:229-233, 323-377, 425).
AttributesInTime ==
    frame /\ w_vdisp_en /\ w_hdisp_en /\ w_hdotcnt = 6 /\ r_attbuf_adr < Pairs =>
        LET pair  == IF r_attbuf_adr = Pairs - 1 THEN Pairs - 2 ELSE r_attbuf_adr
            place == Row + Text + 2 * pair IN
        \/ w_attbuf_outdata = <<place, place + 1>>
        \/ late /\ vcnt % Lines = 0

\* The transfer of a row is over, and the Z80 has its bus back, before the next row
\* asks for it: no row is left out (vga.v:217, 228-233).
RowsInTurn == RowStarts => r_dma_state = 0 /\ ~O_BUSREQ /\ ~busack /\ ~r_busack
=============================================================================
