---------------------------- MODULE Contreg8251 ----------------------------
(***************************************************************************)
(* CONTREG_8251 (src/project/rtl/8251ContReg.v), clock by clock: the 8251  *)
(* look-alike between the Z80 (ports 20h and 21h of pc.v) and the Nios II  *)
(* that plays the cassette recorder.                                       *)
(*                                                                         *)
(* Every register of the Verilog is a variable of the same name; a step is *)
(* one rising edge of I_CLK (25 MHz).  A signal is 0 or 1; a byte is a     *)
(* member of Byte, and the two bits of it the hardware looks at are the    *)
(* sets IrBytes (bit 6) and RxeBytes (bit 2).                              *)
(*                                                                         *)
(* The environment is the one pc.v wires up.  The Z80 runs machine cycles  *)
(* back to back, each BusClocks clocks long: I_CONTROL_EN / I_DATA_EN are  *)
(* high in the first clock only (start), wr, rd and the data bus are held  *)
(* for the whole cycle (pc.v:190-196, 617-623), and a read is sampled at   *)
(* its end through the register input_data (pc.v:292-294).  The firmware   *)
(* writes its PIO ports, 10 MHz registers, so a pin keeps a value for one  *)
(* I_CLK edge at least (main.c:302-304).                                   *)
(***************************************************************************)
EXTENDS Naturals

CONSTANTS
    Byte, Zero, IrBytes, RxeBytes, FileBytes, Strobes,   \* as in Sio8251
    BusClocks,    \* clocks in a Z80 machine cycle: start and the wait states (18 in pc.v)
    StrobeGap     \* least number of clocks between two strobes of the firmware

ASSUME DataAssumption ==
    /\ Zero \in Byte
    /\ IrBytes \subseteq Byte /\ RxeBytes \subseteq Byte
    /\ Zero \notin IrBytes /\ Zero \notin RxeBytes
    /\ FileBytes \subseteq Byte
    /\ Strobes \subseteq {"write", "read"}

\* Six clocks take a read from start to the Z80; three drain a strobe.
ASSUME TimingAssumption ==
    /\ BusClocks \in Nat /\ BusClocks >= 6
    /\ StrobeGap \in Nat /\ StrobeGap >= 3

VARIABLES
    \* the Z80's bus
    op, cyc, I_DATA, input_data, got,
    \* the firmware's pins
    pio, settle, I_MCU_WR, I_MCU_RD, I_MCU_DATA,
    \* re-timing registers
    r_input_data, r_control_en, r_data_en, r_we, r_rd,
    r_i_mcu_wr, r_i_mcu_rd, r_i_mcu_data,
    \* edge detectors: the two bits of a shift register, as a number
    r_control_we_sreg, r_control_en_sreg, r_data_en_sreg,
    r_i_mcu_wr_sreg, r_i_mcu_rd_sreg,
    \* device registers
    r_state, r_command, O_CONTROL_DATA,
    r_status, r_cmt_data, O_DATA, O_MCU_DATA

bus    == <<op, cyc, I_DATA, input_data, got>>
nios   == <<pio, settle, I_MCU_WR, I_MCU_RD, I_MCU_DATA>>
retime == <<r_input_data, r_control_en, r_data_en, r_we, r_rd,
            r_i_mcu_wr, r_i_mcu_rd, r_i_mcu_data>>
sregs  == <<r_control_we_sreg, r_control_en_sreg, r_data_en_sreg,
            r_i_mcu_wr_sreg, r_i_mcu_rd_sreg>>
device == <<r_state, r_command, O_CONTROL_DATA,
            r_status, r_cmt_data, O_DATA, O_MCU_DATA>>
vars   == <<bus, nios, retime, sregs, device>>

Bit    == {0, 1}
Status == {0, 2, 5}

\* A machine cycle: OUT 21h, IN 21h, OUT 20h, IN 20h, any other that writes or reads.
SioOps == {"ctlw", "ctlr", "datw", "datr"}
Ops    == SioOps \cup {"othw", "othr"}

If(p) == IF p THEN 1 ELSE 0

start        == cyc = 0
I_CONTROL_EN == If(op \in {"ctlw", "ctlr"} /\ start)
I_DATA_EN    == If(op \in {"datw", "datr"} /\ start)
I_WE         == If(op \in {"ctlw", "datw", "othw"})
I_RD         == 1 - I_WE

\* {sreg[0], bit}, and sreg[1] & ~sreg[0].
Shift(sreg, bit) == (2 * sreg + bit) % 4
Fall(sreg)       == sreg = 2

w_control_we_fall == Fall(r_control_we_sreg)
w_control_en_fall == Fall(r_control_en_sreg)
DataEnLevel       == r_data_en_sreg # 0        \* mutant: the level, not the edge
w_data_en_fall    == Fall(r_data_en_sreg)
w_i_mcu_wr_fall   == Fall(r_i_mcu_wr_sreg)
McuRdRise         == r_i_mcu_rd_sreg = 1       \* mutant: the strobe's rising edge
w_i_mcu_rd_fall   == Fall(r_i_mcu_rd_sreg)
O_CMT_LOAD        == r_command \in RxeBytes

TypeOK ==
    /\ op \in Ops /\ cyc \in 0 .. BusClocks - 1 /\ I_DATA \in Byte
    /\ input_data \in Byte \cup Status /\ got \in Byte \cup Status
    /\ pio \in {"ready", "asserted", "driven", "reading", "reset"}
    /\ settle \in 0 .. StrobeGap
    /\ I_MCU_WR \in Bit /\ I_MCU_RD \in Bit /\ I_MCU_DATA \in Byte
    /\ r_input_data \in Byte /\ r_i_mcu_data \in Byte
    /\ r_control_en \in Bit /\ r_data_en \in Bit /\ r_we \in Bit /\ r_rd \in Bit
    /\ r_i_mcu_wr \in Bit /\ r_i_mcu_rd \in Bit
    /\ r_control_we_sreg \in 0 .. 3 /\ r_control_en_sreg \in 0 .. 3
    /\ r_data_en_sreg \in 0 .. 3
    /\ r_i_mcu_wr_sreg \in 0 .. 3 /\ r_i_mcu_rd_sreg \in 0 .. 3
    /\ r_state \in {"MODE", "CMD"}
    /\ r_command \in Byte \ IrBytes      \* bit 6 clears the register it is in
    /\ r_status \in Status /\ O_CONTROL_DATA \in Status
    /\ r_cmt_data \in Byte /\ O_DATA \in Byte /\ O_MCU_DATA \in Byte

\* The registers power up cleared (Cyclone III); the Z80 fetches.
Init ==
    /\ op = "othr" /\ cyc = 0 /\ I_DATA = Zero /\ input_data = Zero /\ got = Zero
    /\ pio = "ready" /\ settle = 0
    /\ I_MCU_WR = 0 /\ I_MCU_RD = 0 /\ I_MCU_DATA = Zero
    /\ r_input_data = Zero /\ r_i_mcu_data = Zero
    /\ r_control_en = 0 /\ r_data_en = 0 /\ r_we = 0 /\ r_rd = 0
    /\ r_i_mcu_wr = 0 /\ r_i_mcu_rd = 0
    /\ r_control_we_sreg = 0 /\ r_control_en_sreg = 0 /\ r_data_en_sreg = 0
    /\ r_i_mcu_wr_sreg = 0 /\ r_i_mcu_rd_sreg = 0
    /\ r_state = "MODE" /\ r_command = Zero /\ O_CONTROL_DATA = 0
    /\ r_status = 0 /\ r_cmt_data = Zero /\ O_DATA = Zero /\ O_MCU_DATA = Zero

-----------------------------------------------------------------------------
(* The environment of one clock. *)

\* The wait states hold a machine cycle for BusClocks clocks; the display's
\* DMA may hold the start of a fetch (busack) for as long as it needs the bus.
Z80Bus ==
    /\ input_data' = IF op = "datr" THEN O_DATA
                      ELSE IF op = "ctlr" THEN O_CONTROL_DATA
                      ELSE input_data                  \* another device's byte
    /\ \/ /\ cyc < BusClocks - 1
          /\ cyc' = cyc + 1
          /\ UNCHANGED <<op, I_DATA, got>>
       \/ /\ cyc = BusClocks - 1
          /\ cyc' = 0 /\ op' \in Ops
          /\ \/ op' \in {"ctlw", "datw", "othw"} /\ I_DATA' \in Byte
             \/ op' \in {"ctlr", "datr", "othr"} /\ UNCHANGED I_DATA
          /\ got' = IF op \in {"ctlr", "datr"} THEN input_data ELSE got
       \/ /\ op = "othr" /\ start
          /\ UNCHANGED <<op, cyc, I_DATA, got>>

\* P_CMT_GPIO_WR(ASSERT), P_CMT_DOUT_WR(c), P_CMT_GPIO_WR(NEGATE), then at
\* least wait_ms(75).  A reset of the processor clears its ports a while later.
NiosPio ==
    \/ /\ settle' = IF settle = 0 THEN 0 ELSE settle - 1
       /\ UNCHANGED <<pio, I_MCU_WR, I_MCU_RD, I_MCU_DATA>>
    \/ /\ pio = "ready" /\ settle = 0 /\ "write" \in Strobes
       /\ pio' = "asserted" /\ I_MCU_WR' = 1
       /\ UNCHANGED <<settle, I_MCU_RD, I_MCU_DATA>>
    \/ /\ pio = "asserted"
       /\ pio' = "driven" /\ I_MCU_DATA' \in FileBytes
       /\ UNCHANGED <<settle, I_MCU_WR, I_MCU_RD>>
    \/ /\ pio = "driven"
       /\ pio' = "ready" /\ settle' = StrobeGap /\ I_MCU_WR' = 0
       /\ UNCHANGED <<I_MCU_RD, I_MCU_DATA>>
    \/ /\ pio = "ready" /\ settle = 0 /\ "read" \in Strobes
       /\ pio' = "reading" /\ I_MCU_RD' = 1
       /\ UNCHANGED <<settle, I_MCU_WR, I_MCU_DATA>>
    \/ /\ pio = "reading"
       /\ pio' = "ready" /\ settle' = StrobeGap /\ I_MCU_RD' = 0
       /\ UNCHANGED <<I_MCU_WR, I_MCU_DATA>>
    \/ /\ pio = "reset"
       /\ pio' = "ready" /\ settle' = StrobeGap
       /\ I_MCU_WR' = 0 /\ I_MCU_RD' = 0 /\ I_MCU_DATA' = Zero

-----------------------------------------------------------------------------
(* The device. *)

Retime ==
    /\ r_input_data' = I_DATA
    /\ r_control_en' = I_CONTROL_EN /\ r_data_en' = I_DATA_EN
    /\ r_we' = I_WE /\ r_rd' = I_RD
    /\ r_i_mcu_wr' = I_MCU_WR /\ r_i_mcu_rd' = I_MCU_RD
    /\ r_i_mcu_data' = I_MCU_DATA

\* The first detector looks at the pins, the others at the re-timed signals.
EdgeDetect ==
    /\ r_control_we_sreg' = Shift(r_control_we_sreg, I_CONTROL_EN * I_WE)
    /\ r_control_en_sreg' = Shift(r_control_en_sreg, r_control_en)
    /\ r_data_en_sreg'    = Shift(r_data_en_sreg, r_data_en)
    /\ r_i_mcu_wr_sreg'   = Shift(r_i_mcu_wr_sreg, r_i_mcu_wr)
    /\ r_i_mcu_rd_sreg'   = Shift(r_i_mcu_rd_sreg, r_i_mcu_rd)

CommandWritten == r_state = "CMD" /\ w_control_en_fall /\ r_we = 1
StatusRead     == r_state = "CMD" /\ w_control_en_fall /\ r_rd = 1

StateMachine ==
    /\ r_state' = IF r_state = "MODE" /\ w_control_we_fall THEN "CMD" ELSE r_state
    /\ r_command' = IF CommandWritten THEN r_input_data ELSE r_command
    /\ O_CONTROL_DATA' = IF StatusRead THEN r_status ELSE O_CONTROL_DATA

Z80Reads  == w_data_en_fall /\ r_rd = 1
Z80Writes == w_data_en_fall /\ r_we = 1
McuFills  == w_i_mcu_wr_fall /\ O_CMT_LOAD

AnyRead == Z80Writes \/ Z80Reads \/ StatusRead    \* mutant: reading the status clears it
Taken   == Z80Writes \/ Z80Reads

\* The last assignment of the block wins: the Nios II's over the Z80's.
DataInterface ==
    /\ O_DATA' = IF Z80Reads THEN r_cmt_data ELSE O_DATA
    /\ r_cmt_data' = IF McuFills THEN r_i_mcu_data
                      ELSE IF Z80Writes THEN r_input_data
                      ELSE IF Z80Reads THEN Zero
                      ELSE r_cmt_data
    /\ r_status' = IF w_i_mcu_rd_fall THEN 5
                    ELSE IF McuFills THEN 2
                    ELSE IF Taken THEN 0
                    ELSE r_status

\* O_MCU_DATA has no reset.
McuLatch == O_MCU_DATA' = IF w_i_mcu_rd_fall THEN r_cmt_data ELSE O_MCU_DATA

\* w_reset = I_RST | r_command[6]: all of the device but the re-timing registers.
KeepData  == UNCHANGED <<r_status, r_cmt_data, O_DATA>>    \* mutant: reset by I_RST only
ClearData == r_status' = 0 /\ r_cmt_data' = Zero /\ O_DATA' = Zero

ClearDevice ==
    /\ r_control_we_sreg' = 0 /\ r_control_en_sreg' = 0 /\ r_data_en_sreg' = 0
    /\ r_i_mcu_wr_sreg' = 0 /\ r_i_mcu_rd_sreg' = 0
    /\ r_state' = "MODE" /\ r_command' = Zero /\ O_CONTROL_DATA' = 0
    /\ ClearData

\* A command with bit 6 set raises w_reset, asynchronously, at the edge that loads it.
w_bit_ir == CommandWritten /\ r_input_data \in IrBytes

Clock ==
    /\ Z80Bus /\ NiosPio /\ Retime /\ McuLatch
    /\ \/ w_bit_ir /\ ClearDevice
       \/ ~w_bit_ir /\ EdgeDetect /\ StateMachine /\ DataInterface

\* The reset button (pc.v:204-210): a clock with I_RST high.  The Z80 fetches
\* its first instruction; the Nios II's ports follow through its own reset.
Reset ==
    /\ op' = "othr" /\ cyc' = 0 /\ UNCHANGED <<I_DATA, input_data, got>>
    /\ pio' = IF pio = "ready" THEN "ready" ELSE "reset"
    /\ UNCHANGED <<settle, I_MCU_WR, I_MCU_RD, I_MCU_DATA>>
    /\ r_input_data' = Zero /\ r_i_mcu_data' = Zero
    /\ r_control_en' = 0 /\ r_data_en' = 0 /\ r_we' = 0 /\ r_rd' = 0
    /\ r_i_mcu_wr' = 0 /\ r_i_mcu_rd' = 0
    /\ ClearDevice /\ UNCHANGED O_MCU_DATA

Next == Clock \/ Reset

Spec == Init /\ [][Next]_vars

-----------------------------------------------------------------------------
(* The refinement: a bus cycle is served at the edge that ends its fourth  *)
(* clock, a strobe once its pulse has left the detector.                   *)

Pulse(pin, reg, sreg) ==
    IF pin = 1 THEN "open"
    ELSE IF reg = 1 \/ sreg # 0 THEN "pending"
    ELSE "none"

WritePhase == Pulse(I_MCU_WR, r_i_mcu_wr, r_i_mcu_wr_sreg)
ReadPhase  == Pulse(I_MCU_RD, r_i_mcu_rd, r_i_mcu_rd_sreg)

Sio == INSTANCE Sio8251 WITH
    z80 <- [op     |-> IF op \in SioOps THEN op ELSE "none",
            data   |-> I_DATA,
            served |-> op \in SioOps => cyc >= 4],
    mcu <- [op    |-> IF WritePhase # "none" THEN "write"
                       ELSE IF ReadPhase # "none" THEN "read"
                       ELSE "none",
            data  |-> I_MCU_DATA,
            phase |-> IF WritePhase # "none" THEN WritePhase ELSE ReadPhase]

-----------------------------------------------------------------------------
(* Properties. *)

\* Every bus cycle on ports 20h and 21h, and every strobe of the firmware, takes
\* effect exactly once, with its own byte, before the next one starts, and a
\* read cycle returns to the Z80 what was latched in that very cycle
\* (8251ContReg.v:67-266, pc.v:188-196, 292-294).
Transactions == Sio!Spec

\* In mode setting the tape interface is off and holds nothing for the Z80: the
\* internal reset that leads there reaches every register (8251ContReg.v:119-120,
\* 210-246).
ModeIsOff == r_state = "MODE" => /\ ~O_CMT_LOAD
                                 /\ r_status # 2
                                 /\ O_CONTROL_DATA = 0

\* A byte the firmware delivered stays, and stays announced, until it is handed
\* to the Z80, replaced by a later byte of either side, taken back by the
\* firmware's read strobe or lost in a reset (8251ContReg.v:241-265).
ReadyByteKept ==
    [][r_status = 2 /\ (r_status' # 2 \/ r_cmt_data' # r_cmt_data) =>
           \/ Z80Reads /\ O_DATA' = r_cmt_data
           \/ Z80Writes \/ McuFills \/ w_i_mcu_rd_fall
           \/ r_state' = "MODE"]_vars
=============================================================================
