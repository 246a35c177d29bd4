------------------------- MODULE Contreg8251_proofs -------------------------
(***************************************************************************)
(* Theorems about Contreg8251, for every set of bytes, every length of a   *)
(* machine cycle and every gap between strobes that the assumptions of the *)
(* module allow.                                                           *)
(***************************************************************************)
EXTENDS Contreg8251, TLAPS

\* The two bits of an edge detector stay two bits.
LEMMA ShiftType ==
    ASSUME NEW s \in 0 .. 3, NEW b \in Bit
    PROVE  Shift(s, b) \in 0 .. 3
  BY DEF Shift, Bit

\* A clock edge keeps the types of the bus and of the firmware's pins.
LEMMA EnvironmentType ==
    ASSUME TypeOK, Z80Bus, NiosPio
    PROVE  /\ op' \in Ops /\ cyc' \in 0 .. BusClocks - 1 /\ I_DATA' \in Byte
           /\ input_data' \in Byte \cup Status /\ got' \in Byte \cup Status
           /\ pio' \in {"ready", "asserted", "driven", "reading", "reset"}
           /\ settle' \in 0 .. StrobeGap
           /\ I_MCU_WR' \in Bit /\ I_MCU_RD' \in Bit /\ I_MCU_DATA' \in Byte
  <1>1. input_data' \in Byte \cup Status
    BY DEF TypeOK, Z80Bus
  <1>2. op' \in Ops /\ I_DATA' \in Byte /\ got' \in Byte \cup Status
    BY DEF TypeOK, Z80Bus
  <1>3. cyc' \in 0 .. BusClocks - 1
    BY TimingAssumption DEF TypeOK, Z80Bus, start
  <1>4. settle' \in 0 .. StrobeGap
    BY TimingAssumption DEF TypeOK, NiosPio
  <1>5. /\ pio' \in {"ready", "asserted", "driven", "reading", "reset"}
        /\ I_MCU_WR' \in Bit /\ I_MCU_RD' \in Bit /\ I_MCU_DATA' \in Byte
    BY DataAssumption DEF TypeOK, NiosPio, Bit
  <1> QED BY <1>1, <1>2, <1>3, <1>4, <1>5

\* The re-timing registers take the types of the pins.
LEMMA RetimeType ==
    ASSUME TypeOK, Retime
    PROVE  /\ r_input_data' \in Byte /\ r_i_mcu_data' \in Byte
           /\ r_control_en' \in Bit /\ r_data_en' \in Bit
           /\ r_we' \in Bit /\ r_rd' \in Bit
           /\ r_i_mcu_wr' \in Bit /\ r_i_mcu_rd' \in Bit
  BY DEF TypeOK, Retime, I_CONTROL_EN, I_DATA_EN, I_WE, I_RD, If, Bit

\* The device registers after an edge that is no internal reset.
LEMMA DeviceType ==
    ASSUME TypeOK, EdgeDetect, StateMachine, DataInterface, ~w_bit_ir
    PROVE  /\ r_control_we_sreg' \in 0 .. 3 /\ r_control_en_sreg' \in 0 .. 3
           /\ r_data_en_sreg' \in 0 .. 3
           /\ r_i_mcu_wr_sreg' \in 0 .. 3 /\ r_i_mcu_rd_sreg' \in 0 .. 3
           /\ r_state' \in {"MODE", "CMD"}
           /\ r_command' \in Byte \ IrBytes
           /\ r_status' \in Status /\ O_CONTROL_DATA' \in Status
           /\ r_cmt_data' \in Byte /\ O_DATA' \in Byte
  <1>1. I_CONTROL_EN * I_WE \in Bit
    BY DEF I_CONTROL_EN, I_WE, If, Bit
  <1>2. /\ r_control_we_sreg' \in 0 .. 3 /\ r_control_en_sreg' \in 0 .. 3
        /\ r_data_en_sreg' \in 0 .. 3
        /\ r_i_mcu_wr_sreg' \in 0 .. 3 /\ r_i_mcu_rd_sreg' \in 0 .. 3
    BY <1>1, ShiftType DEF TypeOK, EdgeDetect
  <1>3. /\ r_state' \in {"MODE", "CMD"} /\ r_command' \in Byte \ IrBytes
        /\ O_CONTROL_DATA' \in Status
    BY DEF TypeOK, StateMachine, w_bit_ir
  <1>4. r_status' \in Status /\ r_cmt_data' \in Byte /\ O_DATA' \in Byte
    BY DataAssumption DEF TypeOK, DataInterface, Status
  <1> QED BY <1>2, <1>3, <1>4

LEMMA TypeInit == Init => TypeOK
  BY DataAssumption, TimingAssumption DEF Init, TypeOK, Ops, SioOps, Bit, Status

LEMMA TypeStep == TypeOK /\ [Next]_vars => TypeOK'
  <1> SUFFICES ASSUME TypeOK, [Next]_vars PROVE TypeOK'
    OBVIOUS
  <1>1. CASE Clock
    <2>1. O_MCU_DATA' \in Byte
      BY <1>1 DEF Clock, McuLatch, TypeOK
    <2>2. CASE ~w_bit_ir /\ EdgeDetect /\ StateMachine /\ DataInterface
      BY <1>1, <2>1, <2>2, EnvironmentType, RetimeType, DeviceType DEF Clock, TypeOK
    <2>3. CASE ClearDevice
      BY <1>1, <2>1, <2>3, EnvironmentType, RetimeType, DataAssumption
         DEF Clock, TypeOK, ClearDevice, ClearData, Status
    <2> QED BY <1>1, <2>2, <2>3 DEF Clock
  <1>2. CASE Reset
    <2>1. /\ op' \in Ops /\ cyc' \in 0 .. BusClocks - 1
          /\ pio' \in {"ready", "asserted", "driven", "reading", "reset"}
      BY <1>2, TimingAssumption DEF Reset, TypeOK, Ops
    <2> QED BY <1>2, <2>1, DataAssumption DEF Reset, TypeOK, ClearDevice, ClearData, Bit, Status
  <1>3. CASE UNCHANGED vars
    BY <1>3 DEF TypeOK, vars, bus, nios, retime, sregs, device
  <1> QED BY <1>1, <1>2, <1>3 DEF Next

\* Every register of the SIO, and every pin of its environment, keeps its type;
\* the command register never holds a byte with the internal-reset bit.
THEOREM TypeCorrect == Spec => []TypeOK
  BY TypeInit, TypeStep, PTL DEF Spec

\* In mode setting the interface is off, whatever the two sides do.
THEOREM ModeIsOffCorrect == Spec => []ModeIsOff
  <1>1. Init => ModeIsOff
    BY DataAssumption DEF Init, ModeIsOff, O_CMT_LOAD
  <1>2. TypeOK /\ ModeIsOff /\ [Next]_vars => ModeIsOff'
    <2> SUFFICES ASSUME TypeOK, ModeIsOff, [Next]_vars PROVE ModeIsOff'
      OBVIOUS
    <2>1. CASE ClearDevice
      BY <2>1, DataAssumption DEF ClearDevice, ClearData, ModeIsOff, O_CMT_LOAD
    <2>2. CASE StateMachine /\ DataInterface
      <3> SUFFICES ASSUME r_state' = "MODE"
                   PROVE  ~O_CMT_LOAD' /\ r_status' # 2 /\ O_CONTROL_DATA' = 0
        BY DEF ModeIsOff
      <3>1. r_state = "MODE"
        BY <2>2 DEF StateMachine, TypeOK
      <3>2. ~O_CMT_LOAD' /\ O_CONTROL_DATA' = 0
        BY <2>2, <3>1 DEF ModeIsOff, StateMachine, CommandWritten, StatusRead, O_CMT_LOAD
      <3>3. r_status' # 2
        BY <2>2, <3>1 DEF ModeIsOff, DataInterface, McuFills
      <3> QED BY <3>2, <3>3
    <2>3. CASE UNCHANGED vars
      BY <2>3 DEF ModeIsOff, O_CMT_LOAD, vars, device
    <2> QED BY <2>1, <2>2, <2>3 DEF Next, Clock, Reset
  <1> QED BY <1>1, <1>2, TypeCorrect, PTL DEF Spec

\* A byte announced to the Z80 is not lost or altered behind its back.
THEOREM ReadyByteKeptCorrect == Spec => ReadyByteKept
  <1> DEFINE Lost == r_status = 2 /\ (r_status' # 2 \/ r_cmt_data' # r_cmt_data)
             Why  == \/ Z80Reads /\ O_DATA' = r_cmt_data
                     \/ Z80Writes \/ McuFills \/ w_i_mcu_rd_fall
                     \/ r_state' = "MODE"
  <1>1. [Next]_vars => [Lost => Why]_vars
    <2> SUFFICES ASSUME Next, Lost PROVE Why
      OBVIOUS
    <2>1. CASE ClearDevice
      BY <2>1 DEF ClearDevice
    <2>2. CASE DataInterface
      BY <2>2 DEF DataInterface, Taken
    <2> QED BY <2>1, <2>2 DEF Next, Clock, Reset
  <1> QED BY <1>1, PTL DEF Spec, ReadyByteKept
-----------------------------------------------------------------------------
(* The refinement.  A request of either side passes through re-timing      *)
(* registers and an edge detector: the invariant says where it is.         *)

\* The edge of an enable of these operations, k clocks after the cycle's start.
Passing(ops, k) ==
    IF op \notin ops THEN 0 ELSE IF cyc = k THEN 1 ELSE IF cyc = k + 1 THEN 2 ELSE 0

\* In each clock of a machine cycle, what the registers have of it.
BusInv ==
    /\ r_control_en = If(op \in {"ctlw", "ctlr"} /\ cyc = 1)
    /\ r_data_en = If(op \in {"datw", "datr"} /\ cyc = 1)
    /\ r_control_we_sreg = Passing({"ctlw"}, 1)
    /\ r_control_en_sreg = Passing({"ctlw", "ctlr"}, 2)
    /\ r_data_en_sreg = Passing({"datw", "datr"}, 2)
    /\ cyc >= 1 => r_we = I_WE /\ r_rd = I_RD /\ r_input_data = I_DATA
    /\ op = "ctlw" /\ cyc = 3 => r_state = "CMD"
    /\ cyc >= 5 => /\ op = "datr" => input_data = O_DATA
                   /\ op = "ctlr" => input_data = O_CONTROL_DATA

\* The cycle of one of the SIO's ports that is served at this edge.
Serving == op \in SioOps /\ cyc = 3

LEMMA ShiftValues ==
    ASSUME NEW s \in 0 .. 3, NEW b \in Bit
    PROVE  /\ b = 0 => Shift(s, b) = IF s \in {1, 3} THEN 2 ELSE 0
           /\ b = 1 => Shift(s, b) = IF s \in {1, 3} THEN 3 ELSE 1
  BY DEF Shift, Bit

\* Which of the device's conditions hold, in each clock of a machine cycle.
LEMMA ServedNow ==
    ASSUME TypeOK, BusInv
    PROVE  /\ w_control_we_fall <=> op = "ctlw" /\ cyc = 2
           /\ CommandWritten <=> Serving /\ op = "ctlw"
           /\ StatusRead <=> Serving /\ op = "ctlr" /\ r_state = "CMD"
           /\ Z80Reads <=> Serving /\ op = "datr"
           /\ Z80Writes <=> Serving /\ op = "datw"
           /\ Serving => r_input_data = I_DATA
           /\ w_bit_ir <=> Serving /\ op = "ctlw" /\ I_DATA \in IrBytes
  <1>1. cyc \in Nat
    BY TimingAssumption DEF TypeOK
  <1>2. /\ w_control_we_fall <=> op = "ctlw" /\ cyc = 2
        /\ w_control_en_fall <=> Serving /\ op \in {"ctlw", "ctlr"}
        /\ w_data_en_fall <=> Serving /\ op \in {"datw", "datr"}
    BY <1>1 DEF BusInv, Passing, Serving, SioOps, w_control_we_fall, w_control_en_fall,
       w_data_en_fall, Fall
  <1>3. Serving => /\ r_we = 1 <=> op \in {"ctlw", "datw"}
                   /\ r_rd = 1 <=> op \in {"ctlr", "datr"}
                   /\ r_input_data = I_DATA
                   /\ op = "ctlw" => r_state = "CMD"
    BY <1>1 DEF BusInv, Serving, SioOps, I_WE, I_RD, If
  <1>4. CommandWritten <=> Serving /\ op = "ctlw"
    BY <1>2, <1>3 DEF CommandWritten
  <1>5. StatusRead <=> Serving /\ op = "ctlr" /\ r_state = "CMD"
    BY <1>2, <1>3 DEF StatusRead
  <1>6. (Z80Reads <=> Serving /\ op = "datr") /\ (Z80Writes <=> Serving /\ op = "datw")
    BY <1>2, <1>3 DEF Z80Reads, Z80Writes
  <1>7. w_bit_ir <=> Serving /\ op = "ctlw" /\ I_DATA \in IrBytes
    BY <1>3, <1>4 DEF w_bit_ir
  <1> QED BY <1>2, <1>3, <1>4, <1>5, <1>6, <1>7

\* A clock moves the cycle on by one, holds a fetch, or starts the next cycle.
LEMMA CycleMoves ==
    ASSUME TypeOK, Z80Bus
    PROVE  /\ cyc \in Nat /\ cyc' \in Nat
           /\ \/ cyc' = cyc + 1 /\ op' = op /\ I_DATA' = I_DATA /\ got' = got
              \/ /\ cyc >= 5 /\ cyc' = 0
                 /\ got' = IF op \in {"ctlr", "datr"} THEN input_data ELSE got
              \/ cyc = 0 /\ cyc' = 0 /\ op = "othr" /\ op' = op /\ I_DATA' = I_DATA /\ got' = got
  BY TimingAssumption DEF TypeOK, Z80Bus, start

LEMMA BusClock ==
    ASSUME TypeOK, BusInv, Clock
    PROVE  BusInv'
  <1>1. /\ cyc \in Nat /\ cyc' \in Nat
        /\ \/ cyc' = cyc + 1 /\ op' = op /\ I_DATA' = I_DATA
           \/ cyc >= 5 /\ cyc' = 0
           \/ cyc = 0 /\ cyc' = 0 /\ op = "othr" /\ op' = op
    BY CycleMoves DEF Clock
  <1>2. /\ r_control_en' = If(op' \in {"ctlw", "ctlr"} /\ cyc' = 1)
        /\ r_data_en' = If(op' \in {"datw", "datr"} /\ cyc' = 1)
    BY <1>1 DEF Clock, Retime, I_CONTROL_EN, I_DATA_EN, start, If
  <1>3. cyc' >= 1 => r_we' = I_WE' /\ r_rd' = I_RD' /\ r_input_data' = I_DATA'
    BY <1>1 DEF Clock, Retime, I_WE, I_RD, If
  <1>4. /\ r_control_we_sreg' = Passing({"ctlw"}, 1)'
        /\ r_control_en_sreg' = Passing({"ctlw", "ctlr"}, 2)'
        /\ r_data_en_sreg' = Passing({"datw", "datr"}, 2)'
    <2>1. CASE w_bit_ir /\ ClearDevice
      <3>1. cyc = 3
        BY <2>1, ServedNow DEF Serving
      <3> QED BY <2>1, <3>1, <1>1 DEF ClearDevice, Passing
    <2>2. CASE EdgeDetect
      <3>1. I_CONTROL_EN * I_WE = IF op = "ctlw" /\ cyc = 0 THEN 1 ELSE 0
        BY DEF I_CONTROL_EN, I_WE, If, start
      <3>2. /\ r_control_we_sreg' = IF r_control_we_sreg \in {1, 3}
                                    THEN IF op = "ctlw" /\ cyc = 0 THEN 3 ELSE 2
                                    ELSE IF op = "ctlw" /\ cyc = 0 THEN 1 ELSE 0
            /\ r_control_en_sreg' = IF r_control_en_sreg \in {1, 3}
                                    THEN IF r_control_en = 1 THEN 3 ELSE 2
                                    ELSE IF r_control_en = 1 THEN 1 ELSE 0
            /\ r_data_en_sreg' = IF r_data_en_sreg \in {1, 3}
                                    THEN IF r_data_en = 1 THEN 3 ELSE 2
                                    ELSE IF r_data_en = 1 THEN 1 ELSE 0
        BY <2>2, <3>1, ShiftValues DEF EdgeDetect, TypeOK, Bit
      <3>3. r_control_we_sreg' = Passing({"ctlw"}, 1)'
        BY <3>2, <1>1 DEF BusInv, Passing
      <3>4. r_control_en_sreg' = Passing({"ctlw", "ctlr"}, 2)'
        BY <3>2, <1>1 DEF BusInv, Passing, If
      <3>5. r_data_en_sreg' = Passing({"datw", "datr"}, 2)'
        BY <3>2, <1>1 DEF BusInv, Passing, If
      <3> QED BY <3>3, <3>4, <3>5
    <2> QED BY <2>1, <2>2 DEF Clock
  <1>5. op' = "ctlw" /\ cyc' = 3 => r_state' = "CMD"
    <2> SUFFICES ASSUME op' = "ctlw", cyc' = 3 PROVE r_state' = "CMD"
      OBVIOUS
    <2>1. op = "ctlw" /\ cyc = 2
      BY <1>1
    <2>2. w_control_we_fall /\ ~w_bit_ir
      BY <2>1, ServedNow DEF Serving
    <2> QED BY <2>2 DEF Clock, StateMachine, TypeOK
  <1>6. cyc' >= 5 => /\ op' = "datr" => input_data' = O_DATA'
                     /\ op' = "ctlr" => input_data' = O_CONTROL_DATA'
    <2> SUFFICES ASSUME cyc' >= 5
                 PROVE  /\ op' = "datr" => input_data' = O_DATA'
                        /\ op' = "ctlr" => input_data' = O_CONTROL_DATA'
      OBVIOUS
    <2>1. cyc >= 4 /\ op' = op
      BY <1>1
    <2>2. ~Serving
      BY <2>1, <1>1 DEF Serving
    <2>3. ~w_bit_ir /\ ~StatusRead /\ ~Z80Reads
      BY <2>2, ServedNow
    <2>4. O_DATA' = O_DATA /\ O_CONTROL_DATA' = O_CONTROL_DATA
      BY <2>3 DEF Clock, StateMachine, DataInterface
    <2> QED BY <2>1, <2>4 DEF Clock, Z80Bus
  <1> QED BY <1>2, <1>3, <1>4, <1>5, <1>6 DEF BusInv

\* A pin, its re-timing register and its edge detector.  A lowered pin has its edge in
\* the detector for three clocks, and the firmware lets at least as many go by.
Line(pin, reg, sreg, t) ==
    /\ pin = 1 => sreg \in {0, 1, 3} /\ (sreg # 0 => reg = 1)
    /\ pin = 0 => /\ reg = 1 => sreg \in {0, 1, 3} /\ t = StrobeGap
                  /\ reg = 0 /\ sreg \in {1, 3} => t >= StrobeGap - 1
                  /\ reg = 0 /\ sreg = 2 => t >= StrobeGap - 2

Quiet(pin, reg, sreg) == pin = 0 /\ reg = 0 /\ sreg = 0
WrQuiet == Quiet(I_MCU_WR, r_i_mcu_wr, r_i_mcu_wr_sreg)
RdQuiet == Quiet(I_MCU_RD, r_i_mcu_rd, r_i_mcu_rd_sreg)

\* At most one strobe is under way, raised where the firmware is between its two writes.
StrobeInv ==
    /\ Line(I_MCU_WR, r_i_mcu_wr, r_i_mcu_wr_sreg, settle)
    /\ Line(I_MCU_RD, r_i_mcu_rd, r_i_mcu_rd_sreg, settle)
    /\ WrQuiet \/ RdQuiet
    /\ pio \in {"asserted", "driven"} => I_MCU_WR = 1 /\ RdQuiet
    /\ pio = "reading" => I_MCU_RD = 1 /\ WrQuiet
    /\ pio = "ready" => I_MCU_WR = 0 /\ I_MCU_RD = 0
    /\ pio = "reset" => (I_MCU_WR = 1 /\ RdQuiet) \/ (I_MCU_RD = 1 /\ WrQuiet)
    /\ r_i_mcu_wr_sreg # 0 /\ r_i_mcu_wr = 0 /\ I_MCU_WR = 0 => r_i_mcu_data = I_MCU_DATA

\* A pin may be lowered, left alone, or raised if nothing of it is under way.
PinMoves(pin, reg, sreg, t, pin2, t2) ==
    \/ pin = 1 /\ pin2 = 1
    \/ pin = 1 /\ pin2 = 0 /\ t2 = StrobeGap
    \/ pin = 0 /\ pin2 = 0 /\ t2 = (IF t = 0 THEN 0 ELSE t - 1)
    \/ Quiet(pin, reg, sreg)

LEMMA LineMoves ==
    ASSUME NEW pin \in Bit, NEW reg \in Bit, NEW sreg \in 0 .. 3, NEW t \in 0 .. StrobeGap,
           NEW pin2 \in Bit, NEW sreg2 \in 0 .. 3, NEW t2 \in 0 .. StrobeGap,
           Line(pin, reg, sreg, t), PinMoves(pin, reg, sreg, t, pin2, t2),
           sreg2 = Shift(sreg, reg) \/ sreg2 = 0
    PROVE  /\ Line(pin2, pin, sreg2, t2)
           /\ Quiet(pin, reg, sreg) /\ pin2 = 0 => Quiet(pin2, pin, sreg2)
           /\ Fall(sreg) => pin = 0 /\ reg = 0 /\ (pin2 = 0 => Quiet(pin2, pin, sreg2))
           /\ ~Fall(sreg) /\ ~Quiet(pin, reg, sreg) /\ sreg2 = Shift(sreg, reg)
                 => ~Quiet(pin2, pin, sreg2)
  <1>1. /\ reg = 0 => Shift(sreg, reg) = IF sreg \in {1, 3} THEN 2 ELSE 0
        /\ reg = 1 => Shift(sreg, reg) = IF sreg \in {1, 3} THEN 3 ELSE 1
    BY ShiftValues
  <1>2. StrobeGap \in Nat /\ StrobeGap >= 3
    BY TimingAssumption
  <1>3. Line(pin2, pin, sreg2, t2)
    BY <1>1, <1>2 DEF Line, PinMoves, Quiet, Bit
  <1>4. Quiet(pin, reg, sreg) /\ pin2 = 0 => Quiet(pin2, pin, sreg2)
    BY <1>1 DEF Quiet
  <1>5. Fall(sreg) => pin = 0 /\ reg = 0 /\ (pin2 = 0 => Quiet(pin2, pin, sreg2))
    BY <1>1 DEF Fall, Line, Quiet, Bit
  <1>6. ~Fall(sreg) /\ ~Quiet(pin, reg, sreg) /\ sreg2 = Shift(sreg, reg)
           => ~Quiet(pin2, pin, sreg2)
    BY <1>1 DEF Fall, Line, Quiet, Bit
  <1> QED BY <1>3, <1>4, <1>5, <1>6

\* When the firmware has waited out its gap, nothing is left of its strobe.
LEMMA SettledQuiet ==
    ASSUME TypeOK, StrobeInv, pio = "ready", settle = 0
    PROVE  WrQuiet /\ RdQuiet
  BY TimingAssumption DEF TypeOK, StrobeInv, Line, WrQuiet, RdQuiet, Quiet, Bit

LEMMA PinsMove ==
    ASSUME TypeOK, StrobeInv, NiosPio
    PROVE  /\ PinMoves(I_MCU_WR, r_i_mcu_wr, r_i_mcu_wr_sreg, settle, I_MCU_WR', settle')
           /\ PinMoves(I_MCU_RD, r_i_mcu_rd, r_i_mcu_rd_sreg, settle, I_MCU_RD', settle')
           /\ ~WrQuiet => I_MCU_RD' = 0
           /\ ~RdQuiet => I_MCU_WR' = 0
           /\ I_MCU_WR' = 0 \/ I_MCU_RD' = 0
           /\ pio' \in {"asserted", "driven"} => I_MCU_WR' = 1
           /\ pio' = "reading" => I_MCU_RD' = 1
           /\ pio' = "ready" => I_MCU_WR' = 0 /\ I_MCU_RD' = 0
           /\ pio' = "reset" => pio = "reset" /\ I_MCU_WR' = I_MCU_WR /\ I_MCU_RD' = I_MCU_RD
           /\ I_MCU_WR = 0 /\ ~WrQuiet => I_MCU_DATA' = I_MCU_DATA
  <1> USE DEF PinMoves, StrobeInv, Bit
  <1>1. I_MCU_WR \in Bit /\ I_MCU_RD \in Bit
    BY DEF TypeOK
  <1>2. CASE pio = "ready" /\ settle = 0
    BY <1>1, <1>2, SettledQuiet DEF NiosPio, WrQuiet, RdQuiet
  <1>3. CASE pio # "ready" \/ settle # 0
    BY <1>1, <1>3, TimingAssumption DEF TypeOK, NiosPio, WrQuiet, RdQuiet, Quiet
  <1> QED BY <1>2, <1>3

\* The write strobe's line, after a clock; then the read strobe's.
LEMMA WriteLine ==
    ASSUME TypeOK, StrobeInv, Clock
    PROVE  /\ Line(I_MCU_WR, r_i_mcu_wr, r_i_mcu_wr_sreg, settle)'
           /\ WrQuiet /\ I_MCU_WR' = 0 => WrQuiet'
           /\ w_i_mcu_wr_fall => I_MCU_WR = 0 /\ r_i_mcu_wr = 0 /\ (I_MCU_WR' = 0 => WrQuiet')
           /\ ~w_i_mcu_wr_fall /\ ~WrQuiet /\ ~w_bit_ir => ~WrQuiet'
  <1>1. /\ I_MCU_WR \in Bit /\ I_MCU_WR' \in Bit /\ r_i_mcu_wr \in Bit
        /\ r_i_mcu_wr_sreg \in 0 .. 3 /\ r_i_mcu_wr_sreg' \in 0 .. 3
        /\ settle \in 0 .. StrobeGap /\ settle' \in 0 .. StrobeGap
    BY TypeStep DEF TypeOK, Next
  <1>2. /\ Line(I_MCU_WR, r_i_mcu_wr, r_i_mcu_wr_sreg, settle)
        /\ PinMoves(I_MCU_WR, r_i_mcu_wr, r_i_mcu_wr_sreg, settle, I_MCU_WR', settle')
    BY PinsMove DEF StrobeInv, Clock
  <1>3. /\ r_i_mcu_wr' = I_MCU_WR
        /\ r_i_mcu_wr_sreg' = Shift(r_i_mcu_wr_sreg, r_i_mcu_wr) \/ r_i_mcu_wr_sreg' = 0
        /\ ~w_bit_ir => r_i_mcu_wr_sreg' = Shift(r_i_mcu_wr_sreg, r_i_mcu_wr)
    BY DEF Clock, Retime, EdgeDetect, ClearDevice
  <1>4. WrQuiet' <=> Quiet(I_MCU_WR', I_MCU_WR, r_i_mcu_wr_sreg')
    BY <1>3 DEF WrQuiet, Quiet
  <1> QED BY <1>1, <1>2, <1>3, <1>4, LineMoves DEF WrQuiet, w_i_mcu_wr_fall

LEMMA ReadLine ==
    ASSUME TypeOK, StrobeInv, Clock
    PROVE  /\ Line(I_MCU_RD, r_i_mcu_rd, r_i_mcu_rd_sreg, settle)'
           /\ RdQuiet /\ I_MCU_RD' = 0 => RdQuiet'
           /\ w_i_mcu_rd_fall => I_MCU_RD = 0 /\ r_i_mcu_rd = 0 /\ (I_MCU_RD' = 0 => RdQuiet')
           /\ ~w_i_mcu_rd_fall /\ ~RdQuiet /\ ~w_bit_ir => ~RdQuiet'
  <1>1. /\ I_MCU_RD \in Bit /\ I_MCU_RD' \in Bit /\ r_i_mcu_rd \in Bit
        /\ r_i_mcu_rd_sreg \in 0 .. 3 /\ r_i_mcu_rd_sreg' \in 0 .. 3
        /\ settle \in 0 .. StrobeGap /\ settle' \in 0 .. StrobeGap
    BY TypeStep DEF TypeOK, Next
  <1>2. /\ Line(I_MCU_RD, r_i_mcu_rd, r_i_mcu_rd_sreg, settle)
        /\ PinMoves(I_MCU_RD, r_i_mcu_rd, r_i_mcu_rd_sreg, settle, I_MCU_RD', settle')
    BY PinsMove DEF StrobeInv, Clock
  <1>3. /\ r_i_mcu_rd' = I_MCU_RD
        /\ r_i_mcu_rd_sreg' = Shift(r_i_mcu_rd_sreg, r_i_mcu_rd) \/ r_i_mcu_rd_sreg' = 0
        /\ ~w_bit_ir => r_i_mcu_rd_sreg' = Shift(r_i_mcu_rd_sreg, r_i_mcu_rd)
    BY DEF Clock, Retime, EdgeDetect, ClearDevice
  <1>4. RdQuiet' <=> Quiet(I_MCU_RD', I_MCU_RD, r_i_mcu_rd_sreg')
    BY <1>3 DEF RdQuiet, Quiet
  <1> QED BY <1>1, <1>2, <1>3, <1>4, LineMoves DEF RdQuiet, w_i_mcu_rd_fall

\* The edge of a strobe in the detector, or nothing left of it, after a clock.
LEMMA StrobeClock ==
    ASSUME TypeOK, StrobeInv, Clock
    PROVE  StrobeInv'
  <1>1. /\ r_i_mcu_wr' = I_MCU_WR /\ r_i_mcu_rd' = I_MCU_RD /\ r_i_mcu_data' = I_MCU_DATA
        /\ NiosPio
    BY DEF Clock, Retime
  <1>2. TypeOK'
    BY TypeStep DEF Next
  <1>3. /\ Line(I_MCU_WR, r_i_mcu_wr, r_i_mcu_wr_sreg, settle)'
        /\ Line(I_MCU_RD, r_i_mcu_rd, r_i_mcu_rd_sreg, settle)'
    BY WriteLine, ReadLine
  <1>4. /\ WrQuiet /\ I_MCU_WR' = 0 => WrQuiet'
        /\ RdQuiet /\ I_MCU_RD' = 0 => RdQuiet'
    BY WriteLine, ReadLine
  <1>5. WrQuiet' \/ RdQuiet'
    BY <1>1, <1>2, <1>4, PinsMove DEF StrobeInv, TypeOK, Bit
  <1>6. /\ pio' \in {"asserted", "driven"} => I_MCU_WR' = 1 /\ RdQuiet'
        /\ pio' = "reading" => I_MCU_RD' = 1 /\ WrQuiet'
        /\ pio' = "ready" => I_MCU_WR' = 0 /\ I_MCU_RD' = 0
    BY <1>1, <1>5, PinsMove DEF WrQuiet, RdQuiet, Quiet
  <1>7. pio' = "reset" => (I_MCU_WR' = 1 /\ RdQuiet') \/ (I_MCU_RD' = 1 /\ WrQuiet')
    BY <1>1, <1>5, PinsMove DEF StrobeInv, WrQuiet, RdQuiet, Quiet
  <1>8. r_i_mcu_wr_sreg' # 0 /\ r_i_mcu_wr' = 0 /\ I_MCU_WR' = 0 => r_i_mcu_data' = I_MCU_DATA'
    <2>1. CASE WrQuiet
      BY <2>1, <1>1, <1>4 DEF WrQuiet, Quiet
    <2>2. CASE ~WrQuiet
      BY <2>2, <1>1, PinsMove
    <2> QED BY <2>1, <2>2
  <1> QED BY <1>1, <1>3, <1>5, <1>6, <1>7, <1>8 DEF StrobeInv

\* The reset button clears the detectors but not the firmware's pins.
LEMMA PipeReset ==
    ASSUME TypeOK, BusInv, StrobeInv, Reset
    PROVE  BusInv' /\ StrobeInv'
  <1>1. BusInv'
    BY DEF Reset, ClearDevice, BusInv, Passing, If
  <1>2. /\ Line(I_MCU_WR', r_i_mcu_wr', r_i_mcu_wr_sreg', settle')
        /\ Line(I_MCU_RD', r_i_mcu_rd', r_i_mcu_rd_sreg', settle')
    BY DEF Reset, ClearDevice, Line
  <1>3. /\ WrQuiet' <=> I_MCU_WR = 0
        /\ RdQuiet' <=> I_MCU_RD = 0
    BY DEF Reset, ClearDevice, WrQuiet, RdQuiet, Quiet
  <1>4. /\ pio' \in {"ready", "reset"}
        /\ pio' = "ready" => I_MCU_WR = 0 /\ I_MCU_RD = 0
        /\ pio' = "reset" => (I_MCU_WR = 1 /\ I_MCU_RD = 0) \/ (I_MCU_RD = 1 /\ I_MCU_WR = 0)
    <2>1. I_MCU_WR \in Bit /\ I_MCU_RD \in Bit
          /\ pio \in {"ready", "asserted", "driven", "reading", "reset"}
      BY DEF TypeOK
    <2>2. pio' = IF pio = "ready" THEN "ready" ELSE "reset"
      BY DEF Reset
    <2> QED BY <2>1, <2>2 DEF StrobeInv, WrQuiet, RdQuiet, Quiet, Bit
  <1>5. I_MCU_WR' = I_MCU_WR /\ I_MCU_RD' = I_MCU_RD /\ r_i_mcu_wr_sreg' = 0
    BY DEF Reset, ClearDevice
  <1> QED BY <1>1, <1>2, <1>3, <1>4, <1>5 DEF StrobeInv

PipeInv == TypeOK /\ BusInv /\ StrobeInv

LEMMA PipeStep == PipeInv /\ [Next]_vars => PipeInv'
  <1>1. CASE Clock
    BY <1>1, TypeStep, BusClock, StrobeClock DEF PipeInv, Next
  <1>2. CASE Reset
    BY <1>2, TypeStep, PipeReset DEF PipeInv, Next
  <1>3. CASE UNCHANGED vars
    BY <1>3, TypeStep DEF PipeInv, BusInv, StrobeInv, Passing, I_WE, I_RD, WrQuiet, RdQuiet,
       vars, bus, nios, retime, sregs, device
  <1> QED BY <1>1, <1>2, <1>3 DEF Next

LEMMA PipeInit == Init => PipeInv
  BY TypeInit DEF Init, PipeInv, BusInv, StrobeInv, Passing, If, Line, WrQuiet, RdQuiet, Quiet

PhasesFit ==
    /\ WritePhase = IF I_MCU_WR = 1 THEN "open" ELSE IF WrQuiet THEN "none" ELSE "pending"
    /\ ReadPhase = IF I_MCU_RD = 1 THEN "open" ELSE IF RdQuiet THEN "none" ELSE "pending"

LEMMA Phases == TypeOK => PhasesFit
  BY DEF PhasesFit, TypeOK, WritePhase, ReadPhase, Pulse, WrQuiet, RdQuiet, Quiet, Bit

\* The firmware's next write to its ports, or none.
LEMMA FirmwareMoves ==
    ASSUME TypeOK, StrobeInv, Clock
    PROVE  /\ I_MCU_WR = 1 /\ I_MCU_WR' = 1
                 => I_MCU_DATA' = I_MCU_DATA \/ I_MCU_DATA' \in FileBytes
           /\ I_MCU_RD = 1 /\ I_MCU_RD' = 1 => I_MCU_DATA' = I_MCU_DATA
           /\ I_MCU_WR = 1 /\ I_MCU_WR' = 0 => I_MCU_DATA' \in {I_MCU_DATA, Zero}
           /\ I_MCU_RD = 1 /\ I_MCU_RD' = 0 => I_MCU_DATA' \in {I_MCU_DATA, Zero}
           /\ I_MCU_WR = 0 /\ I_MCU_RD = 0 => I_MCU_DATA' = I_MCU_DATA
           /\ I_MCU_WR = 0 /\ I_MCU_WR' = 1 => "write" \in Strobes
           /\ I_MCU_RD = 0 /\ I_MCU_RD' = 1 => "read" \in Strobes
  <1>1. NiosPio /\ I_MCU_WR \in Bit /\ I_MCU_RD \in Bit
    BY DEF Clock, TypeOK
  <1>2. /\ I_MCU_WR = 1 => I_MCU_RD = 0 /\ pio \in {"asserted", "driven", "reset"}
        /\ I_MCU_RD = 1 => I_MCU_WR = 0 /\ pio \in {"reading", "reset"}
        /\ I_MCU_WR = 0 /\ I_MCU_RD = 0 => pio = "ready"
    BY <1>1 DEF StrobeInv, WrQuiet, RdQuiet, Quiet, Bit, TypeOK
  <1> QED BY <1>1, <1>2 DEF NiosPio, Bit

\* What a clock does to the write strobe, the other being quiet.
LEMMA WriteStrobe ==
    ASSUME TypeOK, StrobeInv, Clock, ~WrQuiet
    PROVE  /\ RdQuiet /\ RdQuiet' /\ I_MCU_RD' = 0
           /\ I_MCU_WR = 1 => ~w_i_mcu_wr_fall
           /\ I_MCU_WR = 1 /\ I_MCU_WR' = 0 => ~WrQuiet'
           /\ I_MCU_WR = 0 => I_MCU_WR' = 0 /\ I_MCU_DATA' = I_MCU_DATA
           /\ w_i_mcu_wr_fall => I_MCU_WR = 0 /\ WrQuiet' /\ r_i_mcu_data = I_MCU_DATA
           /\ ~w_i_mcu_wr_fall /\ ~w_bit_ir => ~WrQuiet' \/ I_MCU_WR' = 1
  <1>1. I_MCU_WR \in Bit /\ I_MCU_WR' \in Bit /\ I_MCU_RD' \in Bit
    BY TypeStep DEF TypeOK, Next
  <1>2. RdQuiet /\ RdQuiet' /\ I_MCU_RD' = 0
    BY PinsMove, ReadLine DEF StrobeInv, Clock
  <1>3. I_MCU_WR = 0 => I_MCU_WR' = 0 /\ I_MCU_DATA' = I_MCU_DATA
    <2>1. PinMoves(I_MCU_WR, r_i_mcu_wr, r_i_mcu_wr_sreg, settle, I_MCU_WR', settle')
      BY PinsMove DEF Clock
    <2> QED BY <2>1, PinsMove DEF PinMoves, WrQuiet, Clock
  <1>4. w_i_mcu_wr_fall => I_MCU_WR = 0 /\ WrQuiet' /\ r_i_mcu_data = I_MCU_DATA
    BY <1>3, WriteLine DEF StrobeInv, w_i_mcu_wr_fall, Fall
  <1>5. I_MCU_WR = 1 /\ I_MCU_WR' = 0 => ~WrQuiet'
    BY DEF Clock, Retime, WrQuiet, Quiet
  <1>6. I_MCU_WR = 1 => ~w_i_mcu_wr_fall
    BY <1>4
  <1>7. ~w_i_mcu_wr_fall /\ ~w_bit_ir => ~WrQuiet' \/ I_MCU_WR' = 1
    BY WriteLine
  <1> QED BY <1>2, <1>3, <1>4, <1>5, <1>6, <1>7

\* And to the read strobe.
LEMMA ReadStrobe ==
    ASSUME TypeOK, StrobeInv, Clock, ~RdQuiet
    PROVE  /\ WrQuiet /\ WrQuiet' /\ I_MCU_WR' = 0
           /\ I_MCU_RD = 1 => ~w_i_mcu_rd_fall
           /\ I_MCU_RD = 1 /\ I_MCU_RD' = 0 => ~RdQuiet'
           /\ I_MCU_RD = 0 => I_MCU_RD' = 0
           /\ w_i_mcu_rd_fall => I_MCU_RD = 0 /\ RdQuiet'
           /\ ~w_i_mcu_rd_fall /\ ~w_bit_ir => ~RdQuiet' \/ I_MCU_RD' = 1
  <1>1. I_MCU_RD \in Bit /\ I_MCU_RD' \in Bit /\ I_MCU_WR' \in Bit
    BY TypeStep DEF TypeOK, Next
  <1>2. WrQuiet /\ WrQuiet' /\ I_MCU_WR' = 0
    BY PinsMove, WriteLine DEF StrobeInv, Clock
  <1>3. I_MCU_RD = 0 => I_MCU_RD' = 0
    <2>1. PinMoves(I_MCU_RD, r_i_mcu_rd, r_i_mcu_rd_sreg, settle, I_MCU_RD', settle')
      BY PinsMove DEF Clock
    <2> QED BY <2>1 DEF PinMoves, RdQuiet
  <1>4. w_i_mcu_rd_fall => I_MCU_RD = 0 /\ RdQuiet'
    BY <1>3, ReadLine
  <1>5. I_MCU_RD = 1 /\ I_MCU_RD' = 0 => ~RdQuiet'
    BY DEF Clock, Retime, RdQuiet, Quiet
  <1>6. ~w_i_mcu_rd_fall /\ ~w_bit_ir => ~RdQuiet' \/ I_MCU_RD' = 1
    BY ReadLine
  <1> QED BY <1>2, <1>3, <1>4, <1>5, <1>6

\* The firmware's strobe, as Sio8251 sees it.
Strobe == [op    |-> IF WritePhase # "none" THEN "write"
                      ELSE IF ReadPhase # "none" THEN "read"
                      ELSE "none",
           data  |-> I_MCU_DATA,
           phase |-> IF WritePhase # "none" THEN WritePhase ELSE ReadPhase]

FirmwareActs == Sio!McuRaise \/ Sio!McuDrive \/ Sio!McuLower \/ UNCHANGED Strobe

\* A clock that serves no strobe, drops one, or serves the one that has been lowered.
NoStrobe    == /\ ~w_i_mcu_wr_fall /\ ~w_i_mcu_rd_fall
               /\ FirmwareActs \/ (w_bit_ir /\ Sio!McuServed)
WriteServed == /\ w_i_mcu_wr_fall /\ ~w_i_mcu_rd_fall /\ Sio!McuServed
               /\ Strobe.op = "write" /\ r_i_mcu_data = I_MCU_DATA
ReadServed  == /\ w_i_mcu_rd_fall /\ ~w_i_mcu_wr_fall /\ Sio!McuServed
               /\ Strobe.op = "read"

\* A strobe record with two of its fields changed.
Moved(r, o, p)  == [r EXCEPT !.op = o, !.phase = p]
Driven(r, d, p) == [r EXCEPT !.data = d, !.phase = p]

LEMMA StrobeFields ==
    ASSUME NEW o, NEW d, NEW p, NEW o2, NEW d2, NEW p2, NEW r, r = [op |-> o, data |-> d, phase |-> p]
    PROVE  /\ Moved(r, o2, p2) = [op |-> o2, data |-> d, phase |-> p2]
           /\ Driven(r, d2, p2) = [op |-> o, data |-> d2, phase |-> p2]
  <1>1. /\ Moved(r, o2, p2) = [[r EXCEPT !.op = o2] EXCEPT !.phase = p2]
        /\ Driven(r, d2, p2) = [[r EXCEPT !.data = d2] EXCEPT !.phase = p2]
    BY DEF Moved, Driven
  <1>2. /\ [r EXCEPT !.op = o2] = [op |-> o2, data |-> d, phase |-> p]
        /\ [r EXCEPT !.data = d2] = [op |-> o, data |-> d2, phase |-> p]
    OBVIOUS
  <1>3. /\ [[op |-> o2, data |-> d, phase |-> p] EXCEPT !.phase = p2]
             = [op |-> o2, data |-> d, phase |-> p2]
        /\ [[op |-> o, data |-> d2, phase |-> p] EXCEPT !.phase = p2]
             = [op |-> o, data |-> d2, phase |-> p2]
    OBVIOUS
  <1> QED BY <1>1, <1>2, <1>3, Zenon

\* What the strobe is before and after decides which of the firmware's acts it was.
LEMMA StrobeActs ==
    ASSUME NEW o, NEW d, NEW p, NEW o2, NEW d2, NEW p2,
           Strobe = [op |-> o, data |-> d, phase |-> p],
           Strobe' = [op |-> o2, data |-> d2, phase |-> p2]
    PROVE  /\ p = "none" /\ p2 = "open" /\ o2 \in Strobes /\ d2 = d => Sio!McuRaise
           /\ p = "open" /\ p2 = "pending" /\ o2 = o /\ d2 \in {d, Zero} => Sio!McuLower
           /\ p = "pending" /\ p2 = "none" /\ o2 = "none" /\ d2 = d => Sio!McuServed
  <1>1. /\ Sio!McuRaise <=> /\ Strobe.phase = "none"
                            /\ \E s \in Strobes : Strobe' = Moved(Strobe, s, "open")
        /\ Sio!McuLower <=> /\ Strobe.phase = "open"
                            /\ \E b \in {Strobe.data, Zero} : Strobe' = Driven(Strobe, b, "pending")
        /\ Sio!McuServed <=> /\ Strobe.phase = "pending"
                             /\ Strobe' = Moved(Strobe, "none", "none")
    BY Zenon DEF Sio!McuRaise, Sio!McuLower, Sio!McuServed, Strobe, Moved, Driven
  <1>2. Strobe.phase = p /\ Strobe.data = d
    OBVIOUS
  <1>3. /\ Moved(Strobe, o2, p2) = [op |-> o2, data |-> d, phase |-> p2]
        /\ Driven(Strobe, d2, p2) = [op |-> o, data |-> d2, phase |-> p2]
    BY StrobeFields
  <1> QED BY <1>1, <1>2, <1>3

\* The record in terms of the two phases, only one of which is under way.
LEMMA StrobeIs ==
    /\ WritePhase = "none" /\ ReadPhase = "none"
          => Strobe = [op |-> "none", data |-> I_MCU_DATA, phase |-> "none"]
    /\ WritePhase # "none"
          => Strobe = [op |-> "write", data |-> I_MCU_DATA, phase |-> WritePhase]
    /\ WritePhase = "none" /\ ReadPhase # "none"
          => Strobe = [op |-> "read", data |-> I_MCU_DATA, phase |-> ReadPhase]
  BY DEF Strobe

LEMMA StrobeNext ==
    /\ WritePhase' = "none" /\ ReadPhase' = "none"
          => Strobe' = [op |-> "none", data |-> I_MCU_DATA', phase |-> "none"]
    /\ WritePhase' # "none"
          => Strobe' = [op |-> "write", data |-> I_MCU_DATA', phase |-> WritePhase']
    /\ WritePhase' = "none" /\ ReadPhase' # "none"
          => Strobe' = [op |-> "read", data |-> I_MCU_DATA', phase |-> ReadPhase']
  BY DEF Strobe

LEMMA StrobeMoves ==
    ASSUME TypeOK, StrobeInv, Clock
    PROVE  NoStrobe \/ WriteServed \/ ReadServed
  <1>1. /\ I_MCU_WR \in Bit /\ I_MCU_RD \in Bit /\ I_MCU_WR' \in Bit /\ I_MCU_RD' \in Bit
        /\ TypeOK'
    BY TypeStep DEF TypeOK, Next
  <1>2. PhasesFit /\ PhasesFit'
    BY <1>1, Phases, PTL
  <1>3. CASE WrQuiet /\ RdQuiet
    <2>1. /\ I_MCU_WR = 0 /\ I_MCU_RD = 0 /\ ~w_i_mcu_wr_fall /\ ~w_i_mcu_rd_fall
          /\ WritePhase = "none" /\ ReadPhase = "none"
      BY <1>2, <1>3 DEF WrQuiet, RdQuiet, Quiet, w_i_mcu_wr_fall, w_i_mcu_rd_fall, Fall, PhasesFit
    <2>2. I_MCU_DATA' = I_MCU_DATA
      BY <2>1, FirmwareMoves
    <2>3. CASE I_MCU_WR' = 1
      <3>1. WritePhase' = "open" /\ "write" \in Strobes
        BY <2>1, <2>3, <1>2, FirmwareMoves DEF PhasesFit
      <3>2. Sio!McuRaise
        BY <2>1, <2>2, <3>1, StrobeActs, StrobeIs, StrobeNext
      <3> QED BY <2>1, <3>2 DEF NoStrobe, FirmwareActs
    <2>4. CASE I_MCU_RD' = 1
      <3>1. I_MCU_WR' = 0
        BY <2>4, PinsMove DEF Clock
      <3>2. WritePhase' = "none" /\ ReadPhase' = "open" /\ "read" \in Strobes
        BY <2>1, <2>4, <3>1, <1>2, <1>3, WriteLine, FirmwareMoves DEF PhasesFit
      <3>3. Sio!McuRaise
        BY <2>1, <2>2, <3>2, StrobeActs, StrobeIs, StrobeNext
      <3> QED BY <2>1, <3>3 DEF NoStrobe, FirmwareActs
    <2>5. CASE I_MCU_WR' = 0 /\ I_MCU_RD' = 0
      <3>1. WritePhase' = "none" /\ ReadPhase' = "none"
        BY <2>5, <1>2, <1>3, WriteLine, ReadLine DEF PhasesFit
      <3> QED BY <2>1, <2>2, <3>1 DEF NoStrobe, FirmwareActs, Strobe
    <2> QED BY <1>1, <2>3, <2>4, <2>5 DEF Bit
  <1>4. CASE ~WrQuiet
    <2>1. /\ RdQuiet /\ ReadPhase = "none" /\ ReadPhase' = "none" /\ ~w_i_mcu_rd_fall
          /\ WritePhase = IF I_MCU_WR = 1 THEN "open" ELSE "pending"
      BY <1>2, <1>4, WriteStrobe DEF PhasesFit, RdQuiet, Quiet, w_i_mcu_rd_fall, Fall
    <2>2. CASE I_MCU_WR = 1 /\ I_MCU_WR' = 1
      <3>1. ~w_i_mcu_wr_fall /\ WritePhase = "open" /\ WritePhase' = "open"
        BY <2>1, <2>2, <1>2, <1>4, WriteStrobe DEF PhasesFit
      <3>2. I_MCU_DATA' = I_MCU_DATA \/ I_MCU_DATA' \in FileBytes
        BY <2>2, FirmwareMoves
      <3>3. UNCHANGED Strobe \/ Sio!McuDrive
        BY <2>1, <3>1, <3>2 DEF Strobe, Sio!McuDrive
      <3> QED BY <2>1, <3>1, <3>3 DEF NoStrobe, FirmwareActs
    <2>3. CASE I_MCU_WR = 1 /\ I_MCU_WR' = 0
      <3>1. ~w_i_mcu_wr_fall /\ WritePhase = "open" /\ WritePhase' = "pending"
        BY <2>1, <2>3, <1>2, <1>4, WriteStrobe DEF PhasesFit
      <3>2. I_MCU_DATA' \in {I_MCU_DATA, Zero}
        BY <2>3, FirmwareMoves
      <3>3. Sio!McuLower
        BY <2>1, <3>1, <3>2, StrobeActs, StrobeIs, StrobeNext
      <3> QED BY <2>1, <3>1, <3>3 DEF NoStrobe, FirmwareActs
    <2>4. CASE I_MCU_WR = 0
      <3>1. /\ I_MCU_WR' = 0 /\ I_MCU_DATA' = I_MCU_DATA /\ WritePhase = "pending"
            /\ WritePhase' = IF WrQuiet' THEN "none" ELSE "pending"
        BY <2>1, <2>4, <1>2, <1>4, WriteStrobe DEF PhasesFit
      <3>2. CASE WrQuiet'
        <4>1. Sio!McuServed
          BY <2>1, <3>1, <3>2, StrobeActs, StrobeIs, StrobeNext
        <4>2. Strobe.op = "write"
          BY <3>1 DEF Strobe
        <4>3. w_i_mcu_wr_fall => r_i_mcu_data = I_MCU_DATA
          BY <1>4, WriteStrobe
        <4>4. ~w_i_mcu_wr_fall => w_bit_ir
          BY <3>1, <3>2, <1>4, WriteStrobe
        <4> QED BY <2>1, <4>1, <4>2, <4>3, <4>4 DEF WriteServed, NoStrobe
      <3>3. CASE ~WrQuiet'
        <4>1. ~w_i_mcu_wr_fall
          BY <3>3, <1>4, WriteStrobe
        <4>2. UNCHANGED Strobe
          BY <2>1, <3>1, <3>3 DEF Strobe
        <4> QED BY <2>1, <4>1, <4>2 DEF NoStrobe, FirmwareActs
      <3> QED BY <3>2, <3>3
    <2> QED BY <1>1, <2>2, <2>3, <2>4 DEF Bit
  <1>5. CASE ~RdQuiet
    <2>1. /\ WritePhase = "none" /\ WritePhase' = "none" /\ ~w_i_mcu_wr_fall
          /\ I_MCU_WR = 0 /\ I_MCU_WR' = 0
          /\ ReadPhase = IF I_MCU_RD = 1 THEN "open" ELSE "pending"
      BY <1>2, <1>5, ReadStrobe DEF PhasesFit, WrQuiet, Quiet, w_i_mcu_wr_fall, Fall
    <2>2. CASE I_MCU_RD = 1 /\ I_MCU_RD' = 1
      <3>1. ~w_i_mcu_rd_fall /\ ReadPhase = "open" /\ ReadPhase' = "open"
        BY <2>1, <2>2, <1>2, <1>5, ReadStrobe DEF PhasesFit
      <3>2. I_MCU_DATA' = I_MCU_DATA
        BY <2>2, FirmwareMoves
      <3>3. UNCHANGED Strobe
        BY <2>1, <3>1, <3>2 DEF Strobe
      <3> QED BY <2>1, <3>1, <3>3 DEF NoStrobe, FirmwareActs
    <2>3. CASE I_MCU_RD = 1 /\ I_MCU_RD' = 0
      <3>1. ~w_i_mcu_rd_fall /\ ReadPhase = "open" /\ ReadPhase' = "pending"
        BY <2>1, <2>3, <1>2, <1>5, ReadStrobe DEF PhasesFit
      <3>2. I_MCU_DATA' \in {I_MCU_DATA, Zero}
        BY <2>3, FirmwareMoves
      <3>3. Sio!McuLower
        BY <2>1, <3>1, <3>2, StrobeActs, StrobeIs, StrobeNext
      <3> QED BY <2>1, <3>1, <3>3 DEF NoStrobe, FirmwareActs
    <2>4. CASE I_MCU_RD = 0
      <3>1. /\ I_MCU_RD' = 0 /\ ReadPhase = "pending"
            /\ ReadPhase' = IF RdQuiet' THEN "none" ELSE "pending"
        BY <2>1, <2>4, <1>2, <1>5, ReadStrobe DEF PhasesFit
      <3>2. I_MCU_DATA' = I_MCU_DATA
        BY <2>1, <2>4, FirmwareMoves
      <3>3. CASE RdQuiet'
        <4>1. Sio!McuServed
          BY <2>1, <3>1, <3>2, <3>3, StrobeActs, StrobeIs, StrobeNext
        <4>2. Strobe.op = "read"
          BY <2>1, <3>1 DEF Strobe
        <4>3. ~w_i_mcu_rd_fall => w_bit_ir
          BY <3>1, <3>3, <1>5, ReadStrobe
        <4> QED BY <2>1, <4>1, <4>2, <4>3 DEF ReadServed, NoStrobe
      <3>4. CASE ~RdQuiet'
        <4>1. ~w_i_mcu_rd_fall
          BY <3>4, <1>5, ReadStrobe
        <4>2. UNCHANGED Strobe
          BY <2>1, <3>1, <3>2, <3>4 DEF Strobe
        <4> QED BY <2>1, <4>1, <4>2 DEF NoStrobe, FirmwareActs
      <3> QED BY <3>3, <3>4
    <2> QED BY <1>1, <2>2, <2>3, <2>4 DEF Bit
  <1> QED BY <1>3, <1>4, <1>5

\* The Z80's bus cycle, as Sio8251 sees it.
Cycle == [op     |-> IF op \in SioOps THEN op ELSE "none",
          data   |-> I_DATA,
          served |-> op \in SioOps => cyc >= 4]

Marked(r, s) == [r EXCEPT !.served = s]

LEMMA CycleFields ==
    ASSUME NEW o, NEW d, NEW s, NEW s2, NEW r, r = [op |-> o, data |-> d, served |-> s]
    PROVE  Marked(r, s2) = [op |-> o, data |-> d, served |-> s2]
  BY DEF Marked

LEMMA CycleActs ==
    /\ Sio!Z80Turn <=> /\ Cycle.served
                       /\ Cycle' \in [op : SioOps, data : Byte, served : {FALSE}] \cup
                                     [op : {"none"}, data : Byte, served : {TRUE}]
                       /\ got' = IF Cycle.op = "datr" THEN O_DATA
                                 ELSE IF Cycle.op = "ctlr" THEN O_CONTROL_DATA
                                 ELSE got
    /\ Sio!Z80Served <=> ~Cycle.served /\ Cycle' = Marked(Cycle, TRUE) /\ got' = got
    /\ Sio!Z80Waits <=> Cycle' = Cycle /\ got' = got
  BY Zenon DEF Sio!Z80Turn, Sio!Z80Served, Sio!Z80Waits, Sio!SioOps, SioOps, Cycle, Marked

\* A clock ends a cycle that has been served, serves one, or lets it wait.
LEMMA CycleStep ==
    ASSUME TypeOK, BusInv, Clock
    PROVE  IF Serving THEN Sio!Z80Served ELSE Sio!Z80Turn \/ Sio!Z80Waits
  <1>1. /\ cyc \in Nat /\ cyc' \in Nat /\ I_DATA \in Byte /\ I_DATA' \in Byte /\ op' \in Ops
        /\ \/ cyc' = cyc + 1 /\ op' = op /\ I_DATA' = I_DATA /\ got' = got
           \/ /\ cyc >= 5 /\ cyc' = 0
              /\ got' = IF op \in {"ctlr", "datr"} THEN input_data ELSE got
           \/ cyc = 0 /\ cyc' = 0 /\ op = "othr" /\ op' = op /\ I_DATA' = I_DATA /\ got' = got
    BY CycleMoves, TypeStep DEF TypeOK, Clock, Next
  <1>2. CASE Serving
    <2>1. cyc = 3 /\ cyc' = 4 /\ op \in SioOps /\ op' = op /\ I_DATA' = I_DATA /\ got' = got
      BY <1>1, <1>2 DEF Serving
    <2>2. /\ (op \in SioOps => cyc >= 4) <=> FALSE
          /\ (op \in SioOps => cyc >= 4)' <=> TRUE
      BY <2>1
    <2>3. /\ Cycle = [op |-> op, data |-> I_DATA, served |-> FALSE]
          /\ Cycle' = [op |-> op, data |-> I_DATA, served |-> TRUE]
      BY <2>1, <2>2, Zenon DEF Cycle
    <2>4. Cycle' = Marked(Cycle, TRUE)
      <3>1. \A s2 : Marked(Cycle, s2) = [op |-> op, data |-> I_DATA, served |-> s2]
        BY <2>3, CycleFields
      <3>2. Marked(Cycle, TRUE) = [op |-> op, data |-> I_DATA, served |-> TRUE]
        BY <3>1, Zenon
      <3> QED BY <2>3, <3>2, Zenon
    <2>5. ~Cycle.served
      <3>1. Cycle.served <=> (op \in SioOps => cyc >= 4)
        BY Zenon DEF Cycle
      <3> QED BY <2>2, <3>1, Zenon
    <2> QED BY <1>2, <2>1, <2>4, <2>5, CycleActs, Zenon
  <1>3. CASE ~Serving /\ (op' = op /\ I_DATA' = I_DATA /\ got' = got)
                      /\ (cyc' = cyc + 1 \/ (cyc = 0 /\ cyc' = 0))
    <2>1. (op \in SioOps => cyc >= 4)' <=> (op \in SioOps => cyc >= 4)
      BY <1>1, <1>3 DEF Serving
    <2>2. Cycle' = Cycle
      BY <1>3, <2>1, Zenon DEF Cycle
    <2> QED BY <1>3, <2>2, CycleActs
  <1>4. CASE cyc >= 5 /\ cyc' = 0 /\ got' = IF op \in {"ctlr", "datr"} THEN input_data ELSE got
    <2>1. Cycle.served /\ ~Serving
      <3>1. (op \in SioOps => cyc >= 4) /\ ~Serving
        BY <1>1, <1>4 DEF Serving
      <3>2. Cycle.served <=> (op \in SioOps => cyc >= 4)
        BY Zenon DEF Cycle
      <3> QED BY <3>1, <3>2, Zenon
    <2>2. Cycle.op = IF op \in SioOps THEN op ELSE "none"
      BY DEF Cycle
    <2>3. got' = IF Cycle.op = "datr" THEN O_DATA
                 ELSE IF Cycle.op = "ctlr" THEN O_CONTROL_DATA ELSE got
      BY <1>4, <2>2 DEF BusInv, SioOps
    <2>4. Cycle' \in [op : SioOps, data : Byte, served : {FALSE}] \cup
                     [op : {"none"}, data : Byte, served : {TRUE}]
      <3>1. CASE op' \in SioOps
        <4>1. (op \in SioOps => cyc >= 4)' <=> FALSE
          BY <3>1, <1>4
        <4>2. Cycle' = [op |-> op', data |-> I_DATA', served |-> FALSE]
          BY <3>1, <4>1 DEF Cycle
        <4> QED BY <1>1, <3>1, <4>2
      <3>2. CASE op' \notin SioOps
        <4>1. Cycle' = [op |-> "none", data |-> I_DATA', served |-> TRUE]
          BY <3>2 DEF Cycle
        <4> QED BY <1>1, <4>1
      <3> QED BY <3>1, <3>2
    <2> QED BY <2>1, <2>3, <2>4, CycleActs
  <1> QED BY <1>1, <1>2, <1>3, <1>4 DEF Serving

LEMMA ServeIs ==
    ASSUME NEW z, NEW d, NEW m, NEW e
    PROVE  Sio!Serve(z, d, m, e) <=>
             /\ O_MCU_DATA' = IF m = "read" THEN r_cmt_data ELSE O_MCU_DATA
             /\ \/ Sio!Resets(z, d) /\ Sio!ClearRegs
                \/ /\ ~Sio!Resets(z, d)
                   /\ z = "ctlw" => r_state = "CMD"
                   /\ Sio!ControlPort(z, d) /\ Sio!DataPort(z, d, m, e)
                   /\ \/ r_state' = r_state
                      \/ /\ z = "none" /\ Cycle.op = "ctlw" /\ ~Cycle.served
                         /\ r_state' = "CMD"
  BY Zenon DEF Sio!Serve, Cycle

\* The device's registers after a clock, when the Z80's operation z and the firmware's
\* strobe m, or none, have reached them.
LEMMA RegistersServe ==
    ASSUME TypeOK, BusInv, Clock, NEW z, NEW d, NEW m, NEW e,
           z = IF Serving THEN op ELSE "none", Serving => d = I_DATA,
           m \in {"none", "write", "read"}, m = "write" => e = r_i_mcu_data,
           w_i_mcu_rd_fall <=> m = "read", w_i_mcu_wr_fall <=> m = "write"
    PROVE  Sio!Serve(z, d, m, e)
  <1>1. /\ w_control_we_fall <=> op = "ctlw" /\ cyc = 2
        /\ CommandWritten <=> z = "ctlw"
        /\ StatusRead <=> z = "ctlr" /\ r_state = "CMD"
        /\ Z80Reads <=> z = "datr"
        /\ Z80Writes <=> z = "datw"
        /\ z # "none" => r_input_data = d
        /\ w_bit_ir <=> z = "ctlw" /\ d \in IrBytes
    BY ServedNow DEF Serving
  <1>2. O_MCU_DATA' = IF m = "read" THEN r_cmt_data ELSE O_MCU_DATA
    BY DEF Clock, McuLatch
  <1>3. CASE w_bit_ir /\ ClearDevice
    <2>1. Sio!Resets(z, d)
      BY <1>1, <1>3 DEF Sio!Resets
    <2>2. Sio!ClearRegs
      BY <1>3 DEF Sio!ClearRegs, ClearDevice, ClearData
    <2> QED BY <1>2, <2>1, <2>2, ServeIs
  <1>4. CASE ~w_bit_ir /\ StateMachine /\ DataInterface
    <2>1. ~Sio!Resets(z, d)
      BY <1>1, <1>4 DEF Sio!Resets
    <2>2. z = "ctlw" => r_state = "CMD"
      BY <1>1 DEF CommandWritten
    <2>3. Sio!ControlPort(z, d)
      BY <1>1, <1>4 DEF StateMachine, Sio!ControlPort
    <2>4. Sio!DataPort(z, d, m, e)
      BY <1>1, <1>4 DEF DataInterface, Sio!DataPort, McuFills, Taken, O_CMT_LOAD
    <2>5. \/ r_state' = r_state
          \/ z = "none" /\ Cycle.op = "ctlw" /\ ~Cycle.served /\ r_state' = "CMD"
      <3>1. CASE r_state = "MODE" /\ w_control_we_fall
        <4>1. op = "ctlw" /\ cyc = 2 /\ z = "none" /\ r_state' = "CMD"
          BY <1>1, <1>4, <3>1 DEF StateMachine, Serving
        <4>2. Cycle.op = "ctlw"
          BY <4>1 DEF Cycle, SioOps
        <4>3. Cycle.served <=> (op \in SioOps => cyc >= 4)
          BY Zenon DEF Cycle
        <4>4. ~(op \in SioOps => cyc >= 4)
          BY <4>1 DEF SioOps
        <4> QED BY <4>1, <4>2, <4>3, <4>4, Zenon
      <3>2. CASE ~(r_state = "MODE" /\ w_control_we_fall)
        BY <1>4, <3>2 DEF StateMachine
      <3> QED BY <3>1, <3>2
    <2> QED BY <1>2, <2>1, <2>2, <2>3, <2>4, <2>5, ServeIs
  <1> QED BY <1>3, <1>4 DEF Clock

LEMMA StepIs ==
    Sio!Step <=>
      \/ /\ Sio!Serve("none", Zero, "none", Zero)
         /\ Sio!Z80Turn \/ Sio!Z80Waits
         /\ FirmwareActs
      \/ /\ Sio!Serve(Cycle.op, Cycle.data, "none", Zero) /\ Sio!Z80Served
         /\ \/ FirmwareActs
            \/ Sio!McuServed /\ Sio!Resets(Cycle.op, Cycle.data)
      \/ /\ Sio!Serve("none", Zero, Strobe.op, Strobe.data) /\ Sio!McuServed
         /\ Sio!Z80Turn \/ Sio!Z80Waits
      \/ /\ Sio!Serve(Cycle.op, Cycle.data, Strobe.op, Strobe.data)
         /\ Sio!Z80Served /\ Sio!McuServed
  BY Zenon DEF Sio!Step, Cycle, Strobe, FirmwareActs

\* A clock is a step of Sio8251.
LEMMA ClockServes ==
    ASSUME TypeOK, BusInv, StrobeInv, Clock
    PROVE  Sio!Step
  <1>1. IF Serving THEN Sio!Z80Served ELSE Sio!Z80Turn \/ Sio!Z80Waits
    BY CycleStep
  <1>2. NoStrobe \/ WriteServed \/ ReadServed
    BY StrobeMoves
  <1>3. Serving => Cycle.op = op /\ Cycle.data = I_DATA
    BY DEF Serving, Cycle
  <1>4. Strobe.data = I_MCU_DATA
    BY DEF Strobe
  <1>5. w_bit_ir => Serving /\ Sio!Resets(Cycle.op, Cycle.data)
    BY <1>3, ServedNow DEF Sio!Resets
  <1>6. CASE NoStrobe
    <2>1. /\ Serving => Sio!Serve(Cycle.op, Cycle.data, "none", Zero)
          /\ ~Serving => Sio!Serve("none", Zero, "none", Zero)
      BY <1>3, <1>6, RegistersServe DEF NoStrobe
    <2> QED BY <1>1, <1>5, <1>6, <2>1, StepIs DEF NoStrobe
  <1>7. CASE WriteServed \/ ReadServed
    <2>1. /\ Serving => Sio!Serve(Cycle.op, Cycle.data, Strobe.op, Strobe.data)
          /\ ~Serving => Sio!Serve("none", Zero, Strobe.op, Strobe.data)
      BY <1>3, <1>4, <1>7, RegistersServe DEF WriteServed, ReadServed
    <2> QED BY <1>1, <1>7, <2>1, StepIs DEF WriteServed, ReadServed
  <1> QED BY <1>2, <1>6, <1>7

\* The reset button: both sides start again, a strobe on its way is dropped.
LEMMA ResetServes ==
    ASSUME TypeOK, StrobeInv, Reset
    PROVE  Sio!Reset
  <1>1. Sio!ClearRegs /\ UNCHANGED <<O_MCU_DATA, got>>
    BY DEF Reset, ClearDevice, ClearData, Sio!ClearRegs
  <1>2. Cycle' = [op |-> "none", data |-> I_DATA', served |-> TRUE]
    <2>1. op' \notin SioOps
      BY DEF Reset, SioOps
    <2> QED BY <2>1 DEF Cycle
  <1>3. TypeOK'
    BY TypeStep DEF Next
  <1>4. Cycle' \in [op : {"none"}, data : Byte, served : {TRUE}]
    BY <1>2, <1>3 DEF TypeOK
  <1>5. PhasesFit /\ PhasesFit'
    BY <1>3, Phases, PTL
  <1>6. /\ I_MCU_WR' = I_MCU_WR /\ I_MCU_RD' = I_MCU_RD /\ I_MCU_DATA' = I_MCU_DATA
        /\ WrQuiet' <=> I_MCU_WR = 0
        /\ RdQuiet' <=> I_MCU_RD = 0
        /\ I_MCU_WR \in Bit /\ I_MCU_RD \in Bit
    BY DEF Reset, ClearDevice, WrQuiet, RdQuiet, Quiet, TypeOK
  <1>7. /\ WritePhase' = IF WritePhase = "pending" THEN "none" ELSE WritePhase
        /\ ReadPhase' = IF ReadPhase = "pending" THEN "none" ELSE ReadPhase
    BY <1>5, <1>6 DEF PhasesFit, WrQuiet, RdQuiet, Quiet, Bit
  <1>8. WritePhase = "none" \/ ReadPhase = "none"
    BY <1>5, <1>6 DEF StrobeInv, PhasesFit, WrQuiet, RdQuiet, Quiet
  <1>9. Sio!McuServed \/ (Strobe.phase # "pending" /\ UNCHANGED Strobe)
    <2>1. CASE WritePhase = "pending" \/ ReadPhase = "pending"
      BY <2>1, <1>6, <1>7, <1>8, StrobeActs, StrobeIs, StrobeNext
    <2>2. CASE WritePhase # "pending" /\ ReadPhase # "pending"
      BY <2>2, <1>6, <1>7 DEF Strobe
    <2> QED BY <2>1, <2>2
  <1>10. Sio!Reset <=> /\ Sio!ClearRegs /\ UNCHANGED <<O_MCU_DATA, got>>
                       /\ Cycle' \in [op : {"none"}, data : Byte, served : {TRUE}]
                       /\ Sio!McuServed \/ (Strobe.phase # "pending" /\ UNCHANGED Strobe)
    BY Zenon DEF Sio!Reset, Cycle, Strobe
  <1> QED BY <1>1, <1>4, <1>9, <1>10

LEMMA SioInit == Init => Sio!Init
  <1> SUFFICES ASSUME Init PROVE Sio!Init
    OBVIOUS
  <1>1. Cycle = [op |-> "none", data |-> Zero, served |-> TRUE]
    BY DEF Init, Cycle, SioOps
  <1>2. Strobe = [op |-> "none", data |-> Zero, phase |-> "none"]
    BY DEF Init, Strobe, WritePhase, ReadPhase, Pulse
  <1>3. Sio!Init <=> /\ r_state = "MODE" /\ r_command = Zero /\ r_status = 0 /\ r_cmt_data = Zero
                     /\ O_DATA = Zero /\ O_CONTROL_DATA = 0 /\ O_MCU_DATA = Zero
                     /\ Cycle = [op |-> "none", data |-> Zero, served |-> TRUE]
                     /\ got = Zero
                     /\ Strobe = [op |-> "none", data |-> Zero, phase |-> "none"]
    BY Zenon DEF Sio!Init, Sio!IdleCycle, Cycle, Strobe
  <1> QED BY <1>1, <1>2, <1>3 DEF Init

LEMMA SioStep == PipeInv /\ [Next]_vars => [Sio!Next]_(Sio!vars)
  <1> SUFFICES ASSUME PipeInv, [Next]_vars PROVE Sio!Next \/ UNCHANGED Sio!vars
    OBVIOUS
  <1>1. CASE Clock
    BY <1>1, ClockServes DEF PipeInv, Sio!Next
  <1>2. CASE Reset
    BY <1>2, ResetServes DEF PipeInv, Sio!Next
  <1>3. CASE UNCHANGED vars
    BY <1>3, Zenon DEF Sio!vars, Sio!regs, vars, bus, nios, retime, sregs, device,
       WritePhase, ReadPhase, Pulse
  <1> QED BY <1>1, <1>2, <1>3 DEF Next

\* For every set of bytes, length of a machine cycle from six clocks and gap between strobes
\* from three: each bus cycle and each strobe takes effect exactly once, with its own byte,
\* before the next one starts, and a read returns what was latched in that cycle
\* (8251ContReg.v:67-266, pc.v:188-196, 292-294).
THEOREM TransactionsCorrect == Spec => Transactions
  BY PipeInit, PipeStep, SioInit, SioStep, PTL DEF Spec, Transactions, Sio!Spec
=============================================================================
