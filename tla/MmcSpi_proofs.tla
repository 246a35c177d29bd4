---------------------------- MODULE MmcSpi_proofs ----------------------------
(***************************************************************************)
(* Proofs about MmcSpi, for every set of bytes, every pair of dividers and *)
(* every wait.                                                             *)
(***************************************************************************)
EXTENDS MmcSpi, SequenceTheorems, TLAPS

-----------------------------------------------------------------------------
(* Shift registers. *)

Bits == [1 .. 8 -> {0, 1}]

LEMMA BitsAreSequence ==
    ASSUME NEW r PROVE r \in Bits <=> r \in Seq({0, 1}) /\ Len(r) = 8
<1>1. ASSUME r \in Bits PROVE r \in Seq({0, 1}) /\ Len(r) = 8
  <2>1. r \in Seq({0, 1})
    BY <1>1, SeqDef, Zenon, 8 \in Nat DEF Bits
  <2>2. DOMAIN r = 1 .. 8 /\ DOMAIN r = 1 .. Len(r) /\ Len(r) \in Nat
    BY <1>1, <2>1, LenProperties DEF Bits
  <2>3. Len(r) = 8
    BY <2>2, SMT
  <2> QED BY <2>1, <2>3
<1>2. ASSUME r \in Seq({0, 1}), Len(r) = 8 PROVE r \in Bits
  BY <1>2, LenProperties, Zenon DEF Bits
<1> QED BY <1>1, <1>2

\* A register of eight bits stays one when a bit is shifted in (avalonif_mmc.v:159-175).
LEMMA ShiftBits ==
    ASSUME NEW r \in Bits, NEW b \in {0, 1}
    PROVE  Shift(r, b) \in Bits /\ Head(r) \in {0, 1}
<1>1. r \in Seq({0, 1}) /\ Len(r) = 8
  BY BitsAreSequence
<1>2. r # <<>>
  BY <1>1
<1>3. Tail(r) \in Seq({0, 1}) /\ Len(Tail(r)) = 7 /\ Head(r) \in {0, 1}
  BY <1>1, <1>2, HeadTailProperties
<1>4. Append(Tail(r), b) \in Seq({0, 1}) /\ Len(Append(Tail(r), b)) = 8
  BY <1>3
<1> QED BY <1>3, <1>4, BitsAreSequence DEF Shift

-----------------------------------------------------------------------------
(* Types, and the divider. *)

\* A transfer counts its bits from 0, and only the interface's end flag says that it is
\* over; the routines write the divider and start a byte where they have seen that.
Idling == {"init cs", "init clock", "trans clock", "send start", "recv start"}

CountInv == /\ state \in {"SDO", "SDI"} => bitcount <= 7
            /\ exit_reg = 1 <=> state = "IDLE"
            /\ pc \in Idling => state = "IDLE"

\* What the program may write in a clock.
Writes(w) ==
    \/ w = NoWrite
    \/ \E e \in {0, 1}, c \in {0, 1}, b \in Bits : w = Status(e, c, b)
    \/ \E k \in 0 .. 255 : w = ClkDiv(k)
    \/ w = Timer(Wait)

LEMMA ByteIsBits == Byte \subseteq Bits /\ Ones \in Byte
  BY ByteAssumption DEF Bits

LEMMA WriteKinds ==
    ASSUME NEW w, Writes(w)
    PROVE  /\ w.reg = "status" => w.exit \in {0, 1} /\ w.ncs \in {0, 1} /\ w.byte \in Bits
           /\ w.reg = "clkdiv" => w.div \in 0 .. 255
           /\ w.reg = "timer" => w.count = Wait
  BY DEF Writes, NoWrite, Status, ClkDiv, Timer

\* The interface's half of the type invariant, for whatever the program writes.
InterfaceOK ==
    /\ state \in {"IDLE", "SDO", "SDI", "DONE"} /\ bitcount \in 0 .. 8
    /\ divref_reg \in 0 .. 255 /\ divcount \in 0 .. 255
    /\ {rxddata, txddata} \subseteq Bits
    /\ {exit_reg, ncs_reg, sck_reg, sdo_reg} \subseteq {0, 1}
    /\ sampled \in Seq({0, 1}) /\ Len(sampled) <= 7
    /\ selects \subseteq {0, 1} /\ give \in Byte
    /\ state \in {"SDO", "SDI"} => bitcount <= 7
    /\ exit_reg = 1 <=> state = "IDLE"

LEMMA AvalonTypes ==
    ASSUME InterfaceOK, NEW w, Writes(w), Avalon(w)
    PROVE  InterfaceOK'
<1> USE DEF InterfaceOK
<1>1. CASE Idle(w)
  <2>1. /\ rxddata' = rxddata /\ sck_reg' = sck_reg /\ sdo_reg' = sdo_reg
        /\ sampled' = sampled /\ selects' = selects /\ give' = give /\ state = "IDLE"
    BY <1>1 DEF Idle, card
  <2>2. divref_reg' \in 0 .. 255
    BY <1>1, WriteKinds DEF Idle
  <2>3. CASE w.reg = "status"
    <3>1. w.exit \in {0, 1} /\ w.ncs \in {0, 1} /\ w.byte \in Bits
      BY <2>3, WriteKinds
    <3>2. ncs_reg' = w.ncs /\ txddata' = w.byte
      BY <1>1, <2>3 DEF Idle
    <3>3. \/ state' = "SDO" /\ bitcount' = 0 /\ divcount' = divref_reg /\ exit_reg' = 0
          \/ state' = state /\ bitcount' = bitcount /\ divcount' = divcount /\ exit_reg' = exit_reg
      BY <1>1, <2>3 DEF Idle
    <3>4. /\ state' \in {"IDLE", "SDO"} /\ bitcount' \in 0 .. 8 /\ divcount' \in 0 .. 255
          /\ exit_reg' \in {0, 1} /\ (exit_reg' = 1 <=> state' = "IDLE")
          /\ state' = "SDO" => bitcount' <= 7
      <4>1. CASE state' = "SDO" /\ bitcount' = 0 /\ divcount' = divref_reg /\ exit_reg' = 0
        BY <4>1
      <4>2. CASE state' = state /\ bitcount' = bitcount /\ divcount' = divcount
                 /\ exit_reg' = exit_reg
        BY <2>1, <4>2
      <4> QED BY <3>3, <4>1, <4>2
    <3>5. {rxddata, txddata}' \subseteq Bits /\ ncs_reg' \in {0, 1}
      BY <2>1, <3>1, <3>2
    <3> QED BY <2>1, <2>2, <3>4, <3>5
  <2>4. CASE w.reg # "status"
    BY <1>1, <2>1, <2>2, <2>4 DEF Idle
  <2> QED BY <2>3, <2>4
<1>2. CASE Transfer(w) /\ Hold
  BY <1>2 DEF Transfer, Hold, NcsInTransfer, card
<1>3. CASE Transfer(w) /\ BitOut
  <2>1. Shift(txddata, 0) \in Bits /\ Head(txddata) \in {0, 1}
    BY ShiftBits
  <2>2. give' \in Byte
    BY <1>3 DEF BitOut
  <2> QED BY <1>3, <2>1, <2>2 DEF Transfer, BitOut, NcsInTransfer
<1>4. CASE Transfer(w) /\ BitIn
  <2>1. MMC_SDI \in {0, 1}
    <3>1. Len(sampled) + 1 \in 1 .. 8
      BY LenProperties
    <3> QED BY <3>1, ByteIsBits DEF MMC_SDI, Bits
  <2>2. Shift(rxddata, MMC_SDI) \in Bits
    BY <2>1, ShiftBits
  <2>3. Append(sampled, sdo_reg) \in Seq({0, 1})
    OBVIOUS
  <2>4. /\ sampled' \in Seq({0, 1}) /\ Len(sampled') <= 7
        /\ selects' \subseteq {0, 1} /\ give' \in Byte
    <3>1. CASE Len(Append(sampled, sdo_reg)) < 8
      <4>1. /\ sampled' = Append(sampled, sdo_reg) /\ selects' = selects \cup {ncs_reg}
            /\ give' = give
        BY <1>4, <3>1 DEF BitIn
      <4>2. Len(Append(sampled, sdo_reg)) \in Nat
        BY <2>3, LenProperties
      <4>3. Len(Append(sampled, sdo_reg)) <= 7
        BY <3>1, <4>2
      <4> QED BY <2>3, <4>1, <4>3
    <3>2. CASE ~(Len(Append(sampled, sdo_reg)) < 8)
      BY <1>4, <3>2, EmptySeq, ByteIsBits DEF BitIn
    <3> QED BY <3>1, <3>2
  <2>5. /\ state' \in {"DONE", "SDO"} /\ bitcount' = bitcount + 1
        /\ state' = "SDO" => bitcount # 7
        /\ exit_reg' = exit_reg /\ ncs_reg' = ncs_reg /\ divref_reg' = divref_reg
        /\ divcount' = divref_reg /\ sck_reg' = 1 - sck_reg /\ sdo_reg' = sdo_reg
        /\ rxddata' = Shift(rxddata, MMC_SDI) /\ txddata' = txddata /\ state = "SDI"
    BY <1>4 DEF Transfer, BitIn, EighthBit, NcsInTransfer
  <2> QED BY <2>2, <2>4, <2>5
<1>5. CASE Transfer(w) /\ Done
  BY <1>5 DEF Transfer, Done, ExitSet, NcsInTransfer, card
<1> QED BY <1>1, <1>2, <1>3, <1>4, <1>5 DEF Avalon, Transfer

-----------------------------------------------------------------------------
(* The program's side. *)

SpiInv == TypeOK /\ CountInv /\ ClockAsAsked

ProgramOK ==
    /\ pc \in {"ready", "send", "send start", "recv", "recv start", "recv poll",
               "init", "init cs", "init clock", "trans clock", "wait", "wait poll"}
    /\ data \in Byte /\ ret \in Bits \cup {None} /\ mmc_spi_ncs \in {0, 1}

LEMMA SpiInvParts ==
    ASSUME SpiInv PROVE InterfaceOK /\ ProgramOK /\ frc_reg \in 0 .. Wait /\ elapsed \in 0 .. Wait
  BY DEF SpiInv, TypeOK, CountInv, InterfaceOK, ProgramOK, Bits

LEMMA SpiInvWhole ==
    ASSUME InterfaceOK', ProgramOK', (frc_reg \in 0 .. Wait)', (elapsed \in 0 .. Wait)',
           (pc \in Idling => state = "IDLE")', ClockAsAsked'
    PROVE  SpiInv'
  BY DEF SpiInv, TypeOK, CountInv, InterfaceOK, ProgramOK, Bits

\* A clock: types are kept, a divider written while IDLE is taken, and IDLE lasts until
\* a byte is started.
LEMMA ClockKeeps ==
    ASSUME SpiInv, NEW w, Writes(w), Clock(w), w.reg = "clkdiv" => state = "IDLE"
    PROVE  /\ InterfaceOK' /\ (frc_reg \in 0 .. Wait)' /\ (elapsed \in 0 .. Wait)'
           /\ ClockAsAsked'
           /\ state = "IDLE" /\ ~(w.reg = "status" /\ w.exit = 0) => state' = "IDLE"
<1>1. InterfaceOK'
  BY SpiInvParts, AvalonTypes DEF Clock
<1>2. frc_reg' \in 0 .. Wait
  <2>1. frc_reg \in 0 .. Wait /\ Wait \in Nat
    BY SpiInvParts, DivAssumption
  <2>2. CASE w.reg = "timer"
    BY <2>1, <2>2, WriteKinds DEF Clock, FreeRun
  <2>3. CASE w.reg # "timer"
    <3>1. frc_reg' = IF frc_reg # 0 THEN frc_reg - 1 ELSE 0
      BY <2>3 DEF Clock, FreeRun
    <3> QED BY <2>1, <3>1
  <2> QED BY <2>2, <2>3
<1>3. elapsed' \in 0 .. Wait
  <2>1. elapsed \in 0 .. Wait /\ Wait \in Nat
    BY SpiInvParts, DivAssumption
  <2>2. elapsed' = 0 \/ elapsed' = elapsed \/ (elapsed < Wait /\ elapsed' = elapsed + 1)
    BY DEF Clock
  <2> QED BY <2>1, <2>2
<1>4. divref_reg' = div'
  <2>1. divref_reg = div
    BY DEF SpiInv, ClockAsAsked
  <2>2. CASE state = "IDLE"
    BY <2>1, <2>2 DEF Clock, Avalon, Idle, Transfer
  <2>3. CASE state # "IDLE"
    BY <2>1, <2>3 DEF Clock, Avalon, Idle, Transfer
  <2> QED BY <2>2, <2>3
<1>5. ASSUME state = "IDLE", ~(w.reg = "status" /\ w.exit = 0) PROVE state' = "IDLE"
  BY <1>5 DEF Clock, Avalon, Idle, Transfer
<1> QED BY <1>1, <1>2, <1>3, <1>4, <1>5 DEF ClockAsAsked

LEMMA PassKeeps == SpiInv /\ Pass => SpiInv'
<1> SUFFICES ASSUME SpiInv, Pass PROVE SpiInv'
  OBVIOUS
<1>1. Writes(NoWrite) /\ NoWrite.reg = "none"
  BY DEF Writes, NoWrite
<1>2. /\ InterfaceOK' /\ (frc_reg \in 0 .. Wait)' /\ (elapsed \in 0 .. Wait)' /\ ClockAsAsked'
      /\ state = "IDLE" => state' = "IDLE"
  BY <1>1, ClockKeeps DEF Pass
<1>3. ProgramOK' /\ pc' = pc
  BY SpiInvParts DEF Pass, program, ProgramOK
<1>4. (pc \in Idling => state = "IDLE")'
  BY <1>2, <1>3 DEF SpiInv, CountInv
<1> QED BY <1>2, <1>3, <1>4, SpiInvWhole

LEMMA ResetKeeps == SpiInv /\ Reset => SpiInv'
<1> SUFFICES ASSUME SpiInv, Reset PROVE SpiInv'
  OBVIOUS
<1>1. InterfaceOK /\ ProgramOK
  BY SpiInvParts
<1>2. InterfaceOK'
  BY <1>1, EmptySeq DEF Reset, InterfaceOK
<1>3. ProgramOK' /\ ClockAsAsked' /\ (pc \in Idling => state = "IDLE")'
  BY <1>1 DEF Reset, ProgramOK, ClockAsAsked, Idling
<1>4. (frc_reg \in 0 .. Wait)' /\ (elapsed \in 0 .. Wait)'
  BY DivAssumption DEF Reset
<1> QED BY <1>2, <1>3, <1>4, SpiInvWhole

\* An access to the registers, by what it writes (mmc_spi.c:19-185).
LEMMA AccessKeeps == SpiInv /\ Access => SpiInv'
<1> SUFFICES ASSUME SpiInv, Access PROVE SpiInv'
  OBVIOUS
<1>0. /\ ProgramOK /\ (pc \in Idling => state = "IDLE")
      /\ (exit_reg = 1 => state = "IDLE") /\ rxddata \in Bits
  BY SpiInvParts DEF SpiInv, CountInv, InterfaceOK
<1>1. CASE (Call \/ AwaitExit \/ Poll \/ WaitOver) /\ Clock(NoWrite)
  <2>1. Writes(NoWrite) /\ NoWrite.reg = "none"
    BY DEF Writes, NoWrite
  <2>2. /\ InterfaceOK' /\ (frc_reg \in 0 .. Wait)' /\ (elapsed \in 0 .. Wait)' /\ ClockAsAsked'
        /\ state = "IDLE" => state' = "IDLE"
    BY <1>1, <2>1, ClockKeeps
  <2>3. CASE Call
    <3>1. ProgramOK'
      BY <1>0, <2>3 DEF Call, ProgramOK
    <3>2. pc' \in Idling => state = "IDLE"
      BY <2>3 DEF Call, ClockMayChange, Idling
    <3> QED BY <2>2, <3>1, <3>2, SpiInvWhole
  <2>4. CASE AwaitExit
    <3>1. ProgramOK' /\ exit_reg = 1
      <4>1. /\ pc' \in {"send start", "recv start", "init cs"} /\ exit_reg = 1
            /\ data' = data /\ mmc_spi_ncs' = mmc_spi_ncs /\ ret' = ret
        <5>1. PICK p \in {<<"send", "send start">>, <<"recv", "recv start">>,
                          <<"init", "init cs">>} : pc = p[1] /\ CommExit /\ Goto(p[2])
          BY <2>4 DEF AwaitExit
        <5>2. p[2] \in {"send start", "recv start", "init cs"}
          <6>1. \A a, b : <<a, b>>[2] = b
            OBVIOUS
          <6>2. \/ p = <<"send", "send start">> \/ p = <<"recv", "recv start">>
                \/ p = <<"init", "init cs">>
            BY <5>1
          <6>3. p[2] = "send start" \/ p[2] = "recv start" \/ p[2] = "init cs"
            BY <6>1, <6>2, Zenon
          <6> QED BY <6>3
        <5>3. /\ pc' = p[2] /\ exit_reg = 1
              /\ data' = data /\ mmc_spi_ncs' = mmc_spi_ncs /\ ret' = ret
          BY <5>1, Zenon DEF CommExit, Goto
        <5> QED BY <5>2, <5>3, Zenon
      <4> QED BY <1>0, <4>1 DEF ProgramOK
    <3> QED BY <1>0, <2>2, <3>1, SpiInvWhole
  <2>5. CASE Poll
    <3>1. ProgramOK' /\ pc' \notin Idling
      BY <1>0, <2>5 DEF Poll, ProgramOK, Idling
    <3> QED BY <2>2, <3>1, SpiInvWhole
  <2>6. CASE WaitOver
    <3>1. ProgramOK' /\ pc' \notin Idling
      BY <1>0, <2>6 DEF WaitOver, Goto, ProgramOK, Idling
    <3> QED BY <2>2, <3>1, SpiInvWhole
  <2> QED BY <1>1, <2>3, <2>4, <2>5, <2>6
<1>2. ASSUME NEW w, Writes(w), Clock(w), w.reg = "clkdiv" => state = "IDLE",
             ProgramOK', pc' \in Idling => state = "IDLE" /\ ~(w.reg = "status" /\ w.exit = 0)
      PROVE  SpiInv'
  BY <1>2, ClockKeeps, SpiInvWhole
<1>3. ASSUME NEW c \in {0, 1}, pc = "ready", SetNcs(c, "ready"), Clock(Status(1, c, Ones))
      PROVE  SpiInv'
  <2>1. Writes(Status(1, c, Ones)) /\ Status(1, c, Ones).reg = "status"
    BY ByteIsBits DEF Writes, Status
  <2>2. ProgramOK' /\ pc' \notin Idling
    BY <1>0, <1>3 DEF SetNcs, ProgramOK, Idling
  <2> QED BY <1>2, <1>3, <2>1, <2>2
<1>4. CASE pc = "send start" /\ Sent /\ Clock(Status(0, mmc_spi_ncs, data))
  <2>1. Writes(Status(0, mmc_spi_ncs, data)) /\ Status(0, mmc_spi_ncs, data).reg = "status"
    BY <1>0, ByteIsBits DEF Writes, Status, ProgramOK
  <2>2. ProgramOK' /\ pc' \notin Idling
    BY <1>0, <1>4, ByteIsBits DEF Sent, ProgramOK, Idling
  <2> QED BY <1>2, <1>4, <2>1, <2>2
<1>5. CASE pc = "recv start" /\ Goto("recv poll") /\ Clock(Status(0, mmc_spi_ncs, Ones))
  <2>1. Writes(Status(0, mmc_spi_ncs, Ones)) /\ Status(0, mmc_spi_ncs, Ones).reg = "status"
    BY <1>0, ByteIsBits DEF Writes, Status, ProgramOK
  <2>2. ProgramOK' /\ pc' \notin Idling
    BY <1>0, <1>5 DEF Goto, ProgramOK, Idling
  <2> QED BY <1>2, <1>5, <2>1, <2>2
<1>6. CASE pc = "init cs" /\ SetNcs(1, "init clock") /\ Clock(Status(1, 1, Ones))
  <2>1. /\ Writes(Status(1, 1, Ones)) /\ Status(1, 1, Ones).reg = "status"
        /\ Status(1, 1, Ones).exit # 0
    BY ByteIsBits DEF Writes, Status
  <2>2. ProgramOK' /\ state = "IDLE"
    BY <1>0, <1>6 DEF SetNcs, ProgramOK, Idling
  <2> QED BY <1>2, <1>6, <2>1, <2>2
<1>7. CASE pc = "init clock" /\ Goto("ready") /\ Clock(ClkDiv(IdentDiv))
  <2>1. Writes(ClkDiv(IdentDiv)) /\ ClkDiv(IdentDiv).reg = "clkdiv"
    BY DivAssumption DEF Writes, ClkDiv
  <2>2. ProgramOK' /\ state = "IDLE"
    BY <1>0, <1>7 DEF Goto, ProgramOK, Idling
  <2> QED BY <1>2, <1>7, <2>1, <2>2
<1>8. CASE pc = "trans clock" /\ Goto("ready") /\ Clock(ClkDiv(TransDiv))
  <2>1. Writes(ClkDiv(TransDiv)) /\ ClkDiv(TransDiv).reg = "clkdiv"
    BY DivAssumption DEF Writes, ClkDiv
  <2>2. ProgramOK' /\ state = "IDLE"
    BY <1>0, <1>8 DEF Goto, ProgramOK, Idling
  <2> QED BY <1>2, <1>8, <2>1, <2>2
<1>9. CASE pc = "wait" /\ Goto("wait poll") /\ Clock(Timer(Wait))
  <2>1. Writes(Timer(Wait)) /\ Timer(Wait).reg = "timer"
    BY DEF Writes, Timer
  <2>2. ProgramOK' /\ pc' \notin Idling
    BY <1>0, <1>9 DEF Goto, ProgramOK, Idling
  <2> QED BY <1>2, <1>9, <2>1, <2>2
<1> QED BY <1>1, <1>3, <1>4, <1>5, <1>6, <1>7, <1>8, <1>9 DEF Access

LEMMA SpiInvHolds == Spec => []SpiInv
<1>1. Init => SpiInv
  <2> SUFFICES ASSUME Init PROVE SpiInv
    OBVIOUS
  <2>1. Byte \subseteq Bits /\ Ones \in Byte /\ Wait \in Nat /\ None = None
    BY ByteIsBits, DivAssumption
  <2> QED BY <2>1, EmptySeq DEF Init, SpiInv, TypeOK, CountInv, ClockAsAsked, Idling, Bits
<1>2. SpiInv /\ [Next]_vars => SpiInv'
  <2>1. SpiInv /\ UNCHANGED vars => SpiInv'
    <3> SUFFICES ASSUME SpiInv, UNCHANGED vars PROVE SpiInv'
      OBVIOUS
    <3>1. UNCHANGED interface /\ UNCHANGED program /\ UNCHANGED card
          /\ UNCHANGED div /\ UNCHANGED elapsed
      BY DEF vars
    <3>2. InterfaceOK' /\ ProgramOK' /\ (frc_reg \in 0 .. Wait)' /\ (elapsed \in 0 .. Wait)'
      BY <3>1, SpiInvParts DEF InterfaceOK, ProgramOK, interface, program, card
    <3>3. (pc \in Idling => state = "IDLE")' /\ ClockAsAsked'
      BY <3>1 DEF SpiInv, CountInv, ClockAsAsked, interface, program
    <3> QED BY <3>2, <3>3, SpiInvWhole
  <2> QED BY <2>1, AccessKeeps, PassKeeps, ResetKeeps DEF Next
<1> QED BY <1>1, <1>2, PTL DEF Spec

\* Types of every register and of the program's variables (avalonif_mmc.v, mmc_spi.c).
THEOREM TypeCorrect == Spec => []TypeOK
  BY SpiInvHolds, PTL DEF SpiInv

\* No divider is lost, for every pair of dividers and every byte: the routines write it
\* only where they have seen the end of the byte in transfer (avalonif_mmc.v:139-141).
THEOREM ClockAsAskedCorrect == Spec => []ClockAsAsked
  BY SpiInvHolds, PTL DEF SpiInv

-----------------------------------------------------------------------------
(* The timer. *)

\* What is left of a wait and what has passed of it make up the wait.
WaitInv == pc = "wait poll" => frc_reg + elapsed = Wait

LEMMA CountingDown ==
    ASSUME NEW f \in 0 .. Wait, NEW e \in 0 .. Wait, f + e = Wait
    PROVE  /\ (IF f # 0 THEN f - 1 ELSE 0) + (IF e < Wait THEN e + 1 ELSE e) = Wait
           /\ f = 0 => e = Wait
  BY DivAssumption

LEMMA CountedUp == Wait + 0 = Wait
  BY DivAssumption

LEMMA WaitInvStep == SpiInv /\ WaitInv /\ Next => WaitInv'
<1> SUFFICES ASSUME SpiInv, WaitInv, Next, pc' = "wait poll"
             PROVE  frc_reg' + elapsed' = Wait
  BY DEF WaitInv
<1>1. frc_reg \in 0 .. Wait /\ elapsed \in 0 .. Wait
  BY SpiInvParts
<1>2. CASE pc = "wait" /\ Clock(Timer(Wait))
  <2>1. frc_reg' = Wait /\ elapsed' = 0
    BY <1>2 DEF Clock, FreeRun, Timer
  <2> QED BY <2>1, CountedUp, Zenon
<1>3. CASE pc = "wait poll" /\ Clock(NoWrite)
  <2>1. frc_reg' = IF frc_reg # 0 THEN frc_reg - 1 ELSE 0
    BY <1>3 DEF Clock, FreeRun, NoWrite
  <2>2. elapsed' = IF elapsed < Wait THEN elapsed + 1 ELSE elapsed
    BY <1>3 DEF Clock, NoWrite
  <2>3. frc_reg + elapsed = Wait
    BY <1>3 DEF WaitInv
  <2> QED BY <1>1, <2>1, <2>2, <2>3, CountingDown, Zenon
<1>4. CASE Pass
  BY <1>3, <1>4 DEF Pass, program
<1>5. ~Reset
  BY DEF Reset
<1>6. CASE Access
  <2>1. \A p \in {<<"send", "send start">>, <<"recv", "recv start">>, <<"init", "init cs">>} :
            p[2] # "wait poll"
    <3> SUFFICES ASSUME NEW p \in {<<"send", "send start">>, <<"recv", "recv start">>,
                                   <<"init", "init cs">>}
                 PROVE  p[2] # "wait poll"
      OBVIOUS
    <3>1. \A a, b : <<a, b>>[2] = b
      OBVIOUS
    <3>2. p[2] = "send start" \/ p[2] = "recv start" \/ p[2] = "init cs"
      BY <3>1, Zenon
    <3> QED BY <3>2
  <2>2. ~Call /\ ~AwaitExit /\ ~Poll /\ ~WaitOver
    <3>1. ~AwaitExit
      BY <2>1, Zenon DEF AwaitExit, Goto
    <3> QED BY <3>1 DEF Call, Poll, WaitOver, Goto
  <2> QED BY <1>2, <1>6, <2>2 DEF Access, SetNcs, Goto, Sent
<1> QED BY <1>4, <1>5, <1>6 DEF Next

LEMMA WaitInvHolds == Spec => []WaitInv
<1>1. Init => WaitInv
  BY DEF Init, WaitInv
<1>2. SpiInv /\ WaitInv /\ [Next]_vars => WaitInv'
  <2>1. WaitInv /\ UNCHANGED vars => WaitInv'
    BY DEF WaitInv, vars, interface, program
  <2> QED BY <2>1, WaitInvStep
<1> QED BY <1>1, <1>2, SpiInvHolds, PTL DEF Spec

\* For every wait: a wait ends when it is over, not before, whatever the interface does
\* meanwhile (avalonif_mmc.v:189-193, mmc_spi.c:169-174).
THEOREM WaitsInFullCorrect == Spec => WaitsInFull
<1>1. SpiInv /\ WaitInv /\ [Next]_vars =>
          [pc = "wait poll" /\ pc' = "ready" => elapsed = Wait]_vars
  <2> SUFFICES ASSUME SpiInv, WaitInv, Next, pc = "wait poll", pc' = "ready"
               PROVE  elapsed = Wait
    BY DEF vars, program
  <2>1. CASE WaitOver
    <3>1. frc_reg = 0 /\ frc_reg + elapsed = Wait
      BY <2>1 DEF WaitInv, WaitOver
    <3> QED BY <3>1, SpiInvParts, CountingDown, Zenon
  <2>2. ~Pass /\ ~Reset
    BY DEF Pass, program, Reset
  <2>3. CASE Access
    <3>1. ~Call /\ ~Poll
      BY DEF Call, Poll
    <3>2. ~AwaitExit
      <4> SUFFICES ASSUME AwaitExit PROVE FALSE
        OBVIOUS
      <4>1. PICK p \in {<<"send", "send start">>, <<"recv", "recv start">>,
                        <<"init", "init cs">>} : pc = p[1]
        BY DEF AwaitExit
      <4>2. \A a, b : <<a, b>>[1] = a
        OBVIOUS
      <4>3. p[1] = "send" \/ p[1] = "recv" \/ p[1] = "init"
        BY <4>1, <4>2, Zenon
      <4> QED BY <4>1, <4>3
    <3> QED BY <2>1, <2>3, <3>1, <3>2 DEF Access, SetNcs
  <2> QED BY <2>1, <2>2, <2>3 DEF Next
<1> QED BY <1>1, SpiInvHolds, WaitInvHolds, PTL DEF Spec, WaitsInFull

-----------------------------------------------------------------------------
(* MmcSpi implements SpiBytes. *)

LEMMA ShiftIndices ==
    ASSUME NEW r \in Bits, NEW b \in {0, 1}
    PROVE  /\ Head(r) = r[1]
           /\ \A j \in 1 .. 7 : Shift(r, b)[j] = r[j + 1]
           /\ Shift(r, b)[8] = b
<1>1. r \in Seq({0, 1}) /\ Len(r) = 8
  BY BitsAreSequence
<1>2. r # <<>> /\ Head(r) = r[1]
  BY <1>1
<1>3. /\ Tail(r) \in Seq({0, 1}) /\ Len(Tail(r)) = Len(r) - 1
      /\ \A j \in 1 .. Len(Tail(r)) : Tail(r)[j] = r[j + 1]
  BY <1>1, <1>2, HeadTailProperties
<1>4. Len(Tail(r)) = 7
  BY <1>1, <1>3
<1>5. /\ \A j \in 1 .. Len(Tail(r)) : Append(Tail(r), b)[j] = Tail(r)[j]
      /\ Append(Tail(r), b)[Len(Tail(r)) + 1] = b
  BY <1>3, AppendProperties
<1>6. Append(Tail(r), b)[8] = b
  <2>1. Len(Tail(r)) + 1 = 8
    BY <1>4
  <2> QED BY <1>5, <2>1, Zenon
<1>7. \A j \in 1 .. 7 : Append(Tail(r), b)[j] = r[j + 1]
  BY <1>3, <1>4, <1>5, Zenon
<1> QED BY <1>2, <1>6, <1>7 DEF Shift

LEMMA PrefixIndices ==
    ASSUME NEW r \in Bits, NEW b \in {0, 1}
    PROVE  /\ (<<b>> \o r)[1] = b
           /\ \A j \in 2 .. 9 : (<<b>> \o r)[j] = r[j - 1]
<1>1. r \in Seq({0, 1}) /\ Len(r) = 8
  BY BitsAreSequence
<1> QED BY <1>1

\* The bits of the card's byte that are in rxddata, and the selects of a transfer: one
\* and the same throughout (avalonif_mmc.v:156-186).
Busy == state \in {"SDO", "SDI"}

Driven(i) == IF ncs_reg = 1 THEN 1 ELSE give[i]

WireInv ==
    /\ ~Busy => sampled = <<>> /\ selects = {}
    /\ Busy => /\ Len(sampled) = bitcount /\ selects \subseteq {ncs_reg}
               /\ \A i \in 1 .. bitcount : rxddata[8 - bitcount + i] = Driven(i)

\* SpiBytes' box.
Box == IF Busy \/ sampled # <<>>
       THEN [ncs |-> selects \cup {ncs_reg}, byte |-> InTransfer] ELSE None

\* What a clock does to an exchange: nothing, or it ends it.
Begins(b) == Box = None /\ Box' = b /\ reply' = reply
Ends == /\ Box # None /\ Box' = None
        /\ reply' \in IF Box.ncs = {0} THEN Byte ELSE {Ones}
        /\ rxddata' = reply'
Stays == Box' = Box /\ reply' = reply

\* The first seven bits of rxddata move up by one, the eighth is the one read.
LEMMA Gathered ==
    ASSUME NEW r \in Bits, NEW n \in 0 .. 7, NEW D \in Bits,
           \A i \in 1 .. n : r[8 - n + i] = D[i]
    PROVE  /\ \A i \in 1 .. n + 1 : Shift(r, D[n + 1])[8 - (n + 1) + i] = D[i]
           /\ n = 7 => Shift(r, D[n + 1]) = D
<1>0. D[n + 1] \in {0, 1}
  BY DEF Bits
<1>1. ASSUME NEW i \in 1 .. n + 1 PROVE Shift(r, D[n + 1])[8 - (n + 1) + i] = D[i]
  <2>1. CASE i = n + 1
    <3>1. 8 - (n + 1) + i = 8
      BY <2>1
    <3> QED BY <1>0, <2>1, <3>1, ShiftIndices, Zenon
  <2>2. CASE i # n + 1
    <3>1. i \in 1 .. n /\ 8 - (n + 1) + i \in 1 .. 7 /\ (8 - (n + 1) + i) + 1 = 8 - n + i
      BY <2>2
    <3>2. Shift(r, D[n + 1])[8 - (n + 1) + i] = r[(8 - (n + 1) + i) + 1]
      BY <1>0, <3>1, ShiftIndices, Zenon
    <3> QED BY <3>1, <3>2, Zenon
  <2> QED BY <2>1, <2>2
<1>2. ASSUME n = 7 PROVE Shift(r, D[n + 1]) = D
  <2>1. Shift(r, D[n + 1]) \in Bits
    BY <1>0, ShiftBits
  <2>2. \A i \in 1 .. 8 : Shift(r, D[n + 1])[i] = D[i]
    <3> SUFFICES ASSUME NEW i \in 1 .. 8 PROVE Shift(r, D[n + 1])[i] = D[i]
      OBVIOUS
    <3>1. i \in 1 .. n + 1 /\ 8 - (n + 1) + i = i
      BY <1>2
    <3> QED BY <1>1, <3>1, Zenon
  <2> QED BY <2>1, <2>2 DEF Bits
<1> QED BY <1>1, <1>2

\* The byte on the wire, of the interface's registers and of the card's bits.
OnWire(st, sd, tx, sm) ==
    [i \in 1 .. 8 |-> IF i <= Len(sm) THEN sm[i]
                      ELSE IF st = "SDI" THEN (<<sd>> \o tx)[i - Len(sm)] ELSE tx[i - Len(sm)]]

LEMMA InTransferIsOnWire ==
    /\ InTransfer = OnWire(state, sdo_reg, txddata, sampled)
    /\ InTransfer' = OnWire(state', sdo_reg', txddata', sampled')
  BY DEF InTransfer, OnWire

LEMMA OnWireBits ==
    ASSUME NEW st, NEW sd \in {0, 1}, NEW tx \in Bits, NEW sm \in Seq({0, 1}), Len(sm) <= 7
    PROVE  OnWire(st, sd, tx, sm) \in Bits
<1> SUFFICES ASSUME NEW i \in 1 .. 8
             PROVE  (IF i <= Len(sm) THEN sm[i]
                     ELSE IF st = "SDI" THEN (<<sd>> \o tx)[i - Len(sm)]
                     ELSE tx[i - Len(sm)]) \in {0, 1}
  BY DEF OnWire, Bits
<1>0. Len(sm) \in Nat /\ \A k \in 1 .. Len(sm) : sm[k] \in {0, 1}
  BY LenProperties
<1>1. CASE i <= Len(sm)
  BY <1>0, <1>1
<1>2. CASE ~(i <= Len(sm))
  <2>1. i - Len(sm) \in 1 .. 8
    BY <1>0, <1>2
  <2>2. tx[i - Len(sm)] \in {0, 1}
    BY <2>1 DEF Bits
  <2>3. (<<sd>> \o tx)[i - Len(sm)] \in {0, 1}
    <3>1. CASE i - Len(sm) = 1
      BY <3>1, PrefixIndices
    <3>2. CASE i - Len(sm) # 1
      <4>1. i - Len(sm) \in 2 .. 9 /\ (i - Len(sm)) - 1 \in 1 .. 8
        BY <2>1, <3>2
      <4> QED BY <4>1, PrefixIndices DEF Bits
    <3> QED BY <3>1, <3>2
  <2> QED BY <1>2, <2>2, <2>3
<1> QED BY <1>1, <1>2

\* A bit put out, and a bit taken, leave the byte as it is.
LEMMA PutOut ==
    ASSUME NEW sd, NEW tx \in Bits, NEW sm \in Seq({0, 1}), Len(sm) <= 7
    PROVE  OnWire("SDI", Head(tx), Shift(tx, 0), sm) = OnWire("SDO", sd, tx, sm)
<1> SUFFICES ASSUME NEW i \in 1 .. 8, ~(i <= Len(sm))
             PROVE  (<<Head(tx)>> \o Shift(tx, 0))[i - Len(sm)] = tx[i - Len(sm)]
  BY DEF OnWire
<1>1. i - Len(sm) \in 1 .. 8
  BY LenProperties
<1>2. Head(tx) = tx[1] /\ Head(tx) \in {0, 1} /\ Shift(tx, 0) \in Bits
  BY ShiftIndices, ShiftBits
<1>3. CASE i - Len(sm) = 1
  BY <1>2, <1>3, PrefixIndices
<1>4. CASE i - Len(sm) # 1
  <2>1. /\ i - Len(sm) \in 2 .. 9 /\ (i - Len(sm)) - 1 \in 1 .. 7
        /\ ((i - Len(sm)) - 1) + 1 = i - Len(sm)
    BY <1>1, <1>4
  <2>2. (<<Head(tx)>> \o Shift(tx, 0))[i - Len(sm)] = Shift(tx, 0)[(i - Len(sm)) - 1]
    BY <1>2, <2>1, PrefixIndices
  <2>3. Shift(tx, 0)[(i - Len(sm)) - 1] = tx[((i - Len(sm)) - 1) + 1]
    BY <2>1, ShiftIndices
  <2> QED BY <2>1, <2>2, <2>3, Zenon
<1> QED BY <1>3, <1>4

LEMMA TakenIn ==
    ASSUME NEW sd \in {0, 1}, NEW tx \in Bits, NEW sm \in Seq({0, 1}), Len(sm) <= 6
    PROVE  OnWire("SDO", sd, tx, Append(sm, sd)) = OnWire("SDI", sd, tx, sm)
<1>1. Len(sm) \in Nat /\ Len(Append(sm, sd)) = Len(sm) + 1
  BY LenProperties
<1> SUFFICES ASSUME NEW i \in 1 .. 8
             PROVE  (IF i <= Len(sm) + 1 THEN Append(sm, sd)[i] ELSE tx[i - (Len(sm) + 1)])
                    = IF i <= Len(sm) THEN sm[i] ELSE (<<sd>> \o tx)[i - Len(sm)]
  BY <1>1 DEF OnWire
<1>2. CASE i <= Len(sm)
  BY <1>1, <1>2, AppendProperties
<1>3. CASE i = Len(sm) + 1
  <2>1. Append(sm, sd)[i] = sd
    BY <1>3, AppendProperties
  <2>2. i - Len(sm) = 1 /\ ~(i <= Len(sm)) /\ i <= Len(sm) + 1
    BY <1>1, <1>3
  <2> QED BY <2>1, <2>2, PrefixIndices
<1>4. CASE i > Len(sm) + 1
  <2>1. /\ i - Len(sm) \in 2 .. 9 /\ ~(i <= Len(sm)) /\ ~(i <= Len(sm) + 1)
        /\ (i - Len(sm)) - 1 = i - (Len(sm) + 1)
    BY <1>1, <1>4
  <2>2. (<<sd>> \o tx)[i - Len(sm)] = tx[(i - Len(sm)) - 1]
    BY <2>1, PrefixIndices
  <2>3. (<<sd>> \o tx)[i - Len(sm)] = tx[i - (Len(sm) + 1)]
    BY <2>1, <2>2, Zenon
  <2> QED BY <2>1, <2>3, Zenon
<1>5. i <= Len(sm) \/ i = Len(sm) + 1 \/ i > Len(sm) + 1
  BY <1>1
<1> QED BY <1>2, <1>3, <1>4, <1>5, Zenon

LEMMA WholeByte ==
    ASSUME NEW sd, NEW tx \in Bits
    PROVE  OnWire("SDO", sd, tx, <<>>) = tx
<1> SUFFICES [i \in 1 .. 8 |-> tx[i]] = tx
  BY DEF OnWire
<1> QED BY DEF Bits

\* A byte in transfer is seen under one select, and is not None.
LEMMA BoxBusy ==
    ASSUME SpiInv, WireInv
    PROVE  /\ Busy => Box = [ncs |-> {ncs_reg}, byte |-> InTransfer] /\ Box # None
           /\ ~Busy => Box = None
<1>1. CASE Busy
  <2>1. selects \cup {ncs_reg} = {ncs_reg} /\ ncs_reg \in {0, 1}
    BY <1>1, SpiInvParts DEF WireInv, InterfaceOK
  <2>2. InTransfer \in Bits
    BY SpiInvParts, InTransferIsOnWire, OnWireBits DEF InterfaceOK
  <2>3. [ncs |-> {ncs_reg}, byte |-> InTransfer] \in [ncs : SUBSET {0, 1}, byte : [1 .. 8 -> {0, 1}]]
    BY <2>1, <2>2 DEF Bits
  <2> QED BY <1>1, <2>1, <2>3, NoneAssumption DEF Box
<1>2. CASE ~Busy
  BY <1>2 DEF Box, WireInv
<1> QED BY <1>1, <1>2

-----------------------------------------------------------------------------
(* What one clock does to the exchange. *)

LEMMA IdleOnLink ==
    ASSUME SpiInv, WireInv, NEW w, Writes(w), Clock(w), Idle(w)
    PROVE  /\ WireInv'
           /\ IF w.reg = "status" /\ w.exit = 0
              THEN Begins([ncs |-> {w.ncs}, byte |-> w.byte]) /\ Busy'
              ELSE Stays /\ rxddata' = rxddata /\ ~Busy'
<1>1. /\ ~Busy /\ Box = None /\ sampled = <<>> /\ selects = {}
      /\ sampled' = <<>> /\ selects' = {} /\ reply' = reply /\ rxddata' = rxddata
      /\ give' = give
  <2>1. ~Busy
    BY DEF Idle, Busy
  <2> QED BY <2>1, BoxBusy DEF Idle, WireInv, card
<1>2. CASE w.reg = "status" /\ w.exit = 0
  <2>1. /\ state' = "SDO" /\ bitcount' = 0 /\ ncs_reg' = w.ncs /\ txddata' = w.byte
        /\ w.byte \in Bits
    BY <1>2, WriteKinds DEF Idle
  <2>2. Len(sampled') = 0 /\ 1 .. bitcount' = {}
    BY <1>1, <2>1
  <2>3. WireInv'
    BY <1>1, <2>1, <2>2 DEF WireInv, Busy
  <2>4. InTransfer' = w.byte
    BY <1>1, <2>1, InTransferIsOnWire, WholeByte
  <2>5. Box' = [ncs |-> selects' \cup {ncs_reg'}, byte |-> InTransfer']
    BY <2>1 DEF Box, Busy
  <2>6. selects' \cup {ncs_reg'} = {w.ncs}
    BY <1>1, <2>1
  <2>7. Box' = [ncs |-> {w.ncs}, byte |-> w.byte]
    BY <2>4, <2>5, <2>6, Zenon
  <2>8. Busy'
    BY <2>1 DEF Busy
  <2> QED BY <1>1, <1>2, <2>3, <2>7, <2>8 DEF Begins
<1>3. CASE ~(w.reg = "status" /\ w.exit = 0)
  <2>1. state' = state /\ ~Busy'
    BY <1>1, <1>3 DEF Idle, Busy
  <2>2. WireInv' /\ Box' = None
    BY <1>1, <2>1 DEF WireInv, Box, Busy
  <2> QED BY <1>1, <1>3, <2>1, <2>2 DEF Stays
<1> QED BY <1>2, <1>3

LEMMA HoldOnLink ==
    ASSUME SpiInv, WireInv, NEW w, Transfer(w), Hold \/ Done
    PROVE  WireInv' /\ Stays /\ rxddata' = rxddata /\ (Busy' <=> Busy)
<1>1. CASE Hold
  <2>1. /\ state' = state /\ bitcount' = bitcount /\ rxddata' = rxddata /\ ncs_reg' = ncs_reg
        /\ sampled' = sampled /\ selects' = selects /\ give' = give /\ reply' = reply
        /\ sdo_reg' = sdo_reg /\ txddata' = txddata
    BY <1>1 DEF Transfer, Hold, NcsInTransfer, card
  <2>2. Busy' <=> Busy
    BY <2>1 DEF Busy
  <2>3. InTransfer' = InTransfer
    BY <2>1, InTransferIsOnWire
  <2>4. Box' = Box
    BY <2>1, <2>2, <2>3 DEF Box
  <2>5. \A i : Driven(i)' = Driven(i)
    BY <2>1 DEF Driven
  <2>6. WireInv'
    BY <2>1, <2>2, <2>5, Zenon DEF WireInv
  <2> QED BY <2>1, <2>2, <2>4, <2>6 DEF Stays
<1>2. CASE Done
  <2>1. /\ state = "DONE" /\ state' = "IDLE" /\ rxddata' = rxddata /\ reply' = reply
        /\ sampled' = sampled /\ selects' = selects
    BY <1>2 DEF Done, card
  <2>2. ~Busy /\ ~Busy'
    BY <2>1 DEF Busy
  <2>3. Box = None /\ sampled = <<>> /\ selects = {}
    BY <2>2, BoxBusy DEF WireInv
  <2>4. WireInv'
    BY <2>1, <2>2, <2>3 DEF WireInv
  <2>5. Box' = None
    BY <2>1, <2>2, <2>3 DEF Box
  <2> QED BY <2>1, <2>2, <2>3, <2>4, <2>5 DEF Stays
<1> QED BY <1>1, <1>2

LEMMA BitOutOnLink ==
    ASSUME SpiInv, WireInv, NEW w, Transfer(w), BitOut
    PROVE  WireInv' /\ Stays /\ Busy'
<1>0. InterfaceOK
  BY SpiInvParts
<1>1. /\ state = "SDO" /\ state' = "SDI" /\ bitcount' = bitcount /\ rxddata' = rxddata
      /\ ncs_reg' = ncs_reg /\ sampled' = sampled /\ selects' = selects /\ reply' = reply
      /\ sdo_reg' = Head(txddata) /\ txddata' = Shift(txddata, 0)
      /\ sampled = <<>> \/ give' = give
  BY DEF Transfer, BitOut, NcsInTransfer
<1>2. Busy /\ Busy'
  BY <1>1 DEF Busy
<1>3. InTransfer' = InTransfer
  BY <1>0, <1>1, InTransferIsOnWire, PutOut DEF InterfaceOK
<1>4. Box' = Box
  BY <1>1, <1>2, <1>3 DEF Box
<1>5. WireInv'
  <2>1. Len(sampled') = bitcount' /\ selects' \subseteq {ncs_reg'}
    BY <1>1, <1>2 DEF WireInv
  <2>2. \A i \in 1 .. bitcount' : rxddata'[8 - bitcount' + i] = Driven(i)'
    <3>1. CASE sampled = <<>>
      <4>1. bitcount' = 0
        BY <1>1, <1>2, <3>1 DEF WireInv
      <4> QED BY <4>1
    <3>2. CASE give' = give
      <4>1. \A i : Driven(i)' = Driven(i)
        BY <1>1, <3>2 DEF Driven
      <4>2. \A i \in 1 .. bitcount : rxddata[8 - bitcount + i] = Driven(i)
        BY <1>2 DEF WireInv
      <4> QED BY <1>1, <4>1, <4>2, Zenon
    <3> QED BY <1>1, <3>1, <3>2
  <2> QED BY <1>2, <2>1, <2>2 DEF WireInv
<1> QED BY <1>1, <1>2, <1>4, <1>5 DEF Stays

\* The last bit ends the exchange with the card's whole byte in rxddata.
LEMMA BitInOnLink ==
    ASSUME SpiInv, WireInv, NEW w, Transfer(w), BitIn
    PROVE  WireInv' /\ ((Stays /\ Busy') \/ (Ends /\ ~Busy'))
<1>0. InterfaceOK
  BY SpiInvParts
<1>1. /\ state = "SDI" /\ bitcount' = bitcount + 1 /\ ncs_reg' = ncs_reg
      /\ rxddata' = Shift(rxddata, MMC_SDI) /\ txddata' = txddata /\ sdo_reg' = sdo_reg
  BY DEF Transfer, BitIn, NcsInTransfer
<1>2. /\ Busy /\ Len(sampled) = bitcount /\ bitcount \in 0 .. 7
      /\ Len(Append(sampled, sdo_reg)) = bitcount + 1 /\ selects \cup {ncs_reg} = {ncs_reg}
  <2>1. Busy
    BY <1>1 DEF Busy
  <2>2. Len(sampled) = bitcount /\ selects \subseteq {ncs_reg}
    BY <2>1 DEF WireInv
  <2>3. bitcount \in 0 .. 7
    BY <1>0, <1>1 DEF InterfaceOK
  <2>4. Len(Append(sampled, sdo_reg)) = Len(sampled) + 1
    BY <1>0, AppendProperties DEF InterfaceOK
  <2> QED BY <2>1, <2>2, <2>3, <2>4
<1> DEFINE D == IF ncs_reg = 1 THEN Ones ELSE give
<1>3. D \in Bits /\ D \in Byte
  BY <1>0, ByteIsBits DEF InterfaceOK
<1>4. \A i \in 1 .. 8 : Driven(i) = D[i]
  <2>1. \A i \in 1 .. 8 : Ones[i] = 1
    BY DEF Ones
  <2> QED BY <2>1 DEF Driven
<1>5. MMC_SDI = D[bitcount + 1]
  <2>1. MMC_SDI = Driven(bitcount + 1) /\ bitcount + 1 \in 1 .. 8
    BY <1>2 DEF MMC_SDI, Driven
  <2> QED BY <1>4, <2>1
<1>6. /\ \A i \in 1 .. bitcount + 1 : rxddata'[8 - (bitcount + 1) + i] = D[i]
      /\ bitcount = 7 => rxddata' = D
  <2>1. \A i \in 1 .. bitcount : rxddata[8 - bitcount + i] = Driven(i) /\ i \in 1 .. 8
    BY <1>2 DEF WireInv
  <2>2. \A i \in 1 .. bitcount : rxddata[8 - bitcount + i] = D[i]
    BY <1>4, <2>1, Zenon
  <2> HIDE DEF D
  <2>3. rxddata \in Bits
    BY <1>0 DEF InterfaceOK
  <2> QED BY <1>1, <1>2, <1>3, <1>5, <2>2, <2>3, Gathered, Zenon
<1>7. CASE bitcount = 7
  <2>1. /\ state' = "DONE" /\ sampled' = <<>> /\ selects' = {} /\ reply' = D
    BY <1>2, <1>7 DEF BitIn, EighthBit
  <2>2. ~Busy'
    BY <2>1 DEF Busy
  <2>3. WireInv'
    BY <2>1, <2>2 DEF WireInv
  <2>4. Box' = None
    BY <2>1, <2>2 DEF Box
  <2>5. Box # None /\ Box.ncs = {ncs_reg}
    BY <1>2, BoxBusy
  <2>6. reply' \in IF Box.ncs = {0} THEN Byte ELSE {Ones}
    <3>1. CASE ncs_reg = 1
      BY <2>1, <2>5, <3>1
    <3>2. CASE ncs_reg = 0
      BY <1>3, <2>1, <2>5, <3>2
    <3> QED BY <1>0, <3>1, <3>2 DEF InterfaceOK
  <2>7. rxddata' = reply'
    BY <1>6, <1>7, <2>1, Zenon
  <2> QED BY <2>2, <2>3, <2>4, <2>5, <2>6, <2>7 DEF Ends
<1>8. CASE bitcount # 7
  <2>1. /\ state' = "SDO" /\ sampled' = Append(sampled, sdo_reg)
        /\ selects' = selects \cup {ncs_reg} /\ give' = give /\ reply' = reply
    BY <1>2, <1>8 DEF BitIn, EighthBit
  <2>2. Busy'
    BY <2>1 DEF Busy
  <2>3. Len(sampled) <= 6
    BY <1>2, <1>8
  <2>4. InTransfer' = InTransfer
    BY <1>0, <1>1, <2>1, <2>3, InTransferIsOnWire, TakenIn DEF InterfaceOK
  <2>5. Box' = Box
    BY <1>1, <1>2, <2>1, <2>2, <2>4 DEF Box
  <2>6. WireInv'
    <3>1. Len(sampled') = bitcount' /\ selects' \subseteq {ncs_reg'}
      BY <1>1, <1>2, <2>1
    <3>2. \A i \in 1 .. bitcount' : rxddata'[8 - bitcount' + i] = Driven(i)'
      <4>1. \A i \in 1 .. bitcount + 1 : Driven(i)' = D[i]
        <5>1. \A i : Driven(i)' = Driven(i)
          BY <1>1, <2>1 DEF Driven
        <5>2. \A i \in 1 .. bitcount + 1 : i \in 1 .. 8
          BY <1>2
        <5> QED BY <1>4, <5>1, <5>2, Zenon
      <4> HIDE DEF D
      <4> QED BY <1>1, <1>6, <4>1, Zenon
    <3> QED BY <2>2, <3>1, <3>2 DEF WireInv
  <2>7. Stays
    BY <2>1, <2>5 DEF Stays
  <2> QED BY <2>2, <2>6, <2>7, Zenon
<1> QED BY <1>7, <1>8

Starts(w) == w.reg = "status" /\ w.exit = 0

\* A clock in which the program starts no byte, and one in which it does.
LEMMA ClockOnLink ==
    ASSUME SpiInv, WireInv, NEW w, Writes(w), Clock(w)
    PROVE  /\ WireInv'
           /\ state = "IDLE" /\ Starts(w) => Begins([ncs |-> {w.ncs}, byte |-> w.byte]) /\ Busy'
           /\ ~Starts(w) => \/ Stays /\ (Busy' \/ (rxddata' = rxddata /\ ~Busy))
                            \/ Ends /\ ~Busy'
           /\ state = "IDLE" => Box = None /\ ~Busy
           /\ state = "IDLE" /\ ~Starts(w) => Stays
<1>1. CASE Idle(w)
  <2>1. state = "IDLE" /\ Box = None /\ ~Busy
    <3>1. state = "IDLE" /\ ~Busy
      BY <1>1 DEF Idle, Busy
    <3> QED BY <3>1, BoxBusy
  <2>2. CASE Starts(w)
    BY <1>1, <2>1, <2>2, IdleOnLink DEF Starts
  <2>3. CASE ~Starts(w)
    BY <1>1, <2>1, <2>3, IdleOnLink DEF Starts
  <2> QED BY <2>2, <2>3
<1>2. CASE Transfer(w)
  <2>1. state # "IDLE"
    BY <1>2 DEF Transfer
  <2>2. Hold \/ Done \/ BitOut \/ BitIn
    BY <1>2 DEF Transfer
  <2>3. WireInv' /\ ((Stays /\ (Busy' \/ (rxddata' = rxddata /\ ~Busy))) \/ (Ends /\ ~Busy'))
    <3>1. CASE Hold \/ Done
      BY <1>2, <3>1, HoldOnLink
    <3>2. CASE BitOut
      BY <1>2, <3>2, BitOutOnLink
    <3>3. CASE BitIn
      BY <1>2, <3>3, BitInOnLink
    <3> QED BY <2>2, <3>1, <3>2, <3>3
  <2> QED BY <2>1, <2>3
<1> QED BY <1>1, <1>2 DEF Clock, Avalon

\* After its eighth bit, the byte that Recvbyte waits for is the card's.
ReplyInv == pc = "recv poll" /\ ~Busy => rxddata = reply

LinkInv == SpiInv /\ WireInv /\ ReplyInv

\* No byte is None, so a byte asked for is one.
LEMMA ByteIsAsked == \A b \in Byte : b # None
  BY ByteAssumption

\* SpiBytes' steps, of MmcSpi's variables: the driver's, alone or as an exchange ends.
LEMMA DriverOnLink ==
    ASSUME Link!Driver, Stays \/ Ends
    PROVE  Link!Next
<1>1. CASE Stays
  BY <1>1 DEF Link!Next, Link!Goes, Stays, Box, Busy
<1>2. CASE Ends
  BY <1>2 DEF Link!Next, Link!Exchange, Ends, Box, Busy
<1> QED BY <1>1, <1>2

\* The byte asked for is put on the line.
LEMMA PutOnLink ==
    ASSUME NEW b \in Byte, Begins([ncs |-> {mmc_spi_ncs}, byte |-> b]),
           Asked = b, Asked' = None,
           Routine' = IF Routine = "Sendbyte" THEN "none" ELSE Routine,
           mmc_spi_ncs' = mmc_spi_ncs, ret' = ret
    PROVE  Link!Next
BY ByteIsAsked DEF Link!Next, Link!Put, Begins, Box, Busy

\* Recvbyte returns, with no byte asked for and none on the line.
LEMMA ReturnOnLink ==
    ASSUME Box = None, Stays, Routine = "Recvbyte", Asked = None,
           ret' = reply, Routine' = "none", Asked' = None, mmc_spi_ncs' = mmc_spi_ncs
    PROVE  Link!Next
BY DEF Link!Next, Link!Return, Stays, Box, Busy

LEMMA ResetOnLink ==
    ASSUME Asked' = None, Routine' = "none", Box' = None,
           mmc_spi_ncs' = 0, reply' = reply, ret' = ret
    PROVE  Link!Next
BY DEF Link!Next, Link!Reset, Box, Busy

\* A step that starts no byte and reads none is the driver's, or the end of an exchange.
LEMMA DriverStep ==
    ASSUME LinkInv, NEW w, Writes(w), Clock(w), ~Starts(w), Link!Driver,
           pc' = "recv poll" => pc = "recv poll"
    PROVE  WireInv' /\ ReplyInv' /\ Link!Next
<1>1. WireInv' /\ ((Stays /\ (Busy' \/ (rxddata' = rxddata /\ ~Busy))) \/ (Ends /\ ~Busy'))
  BY ClockOnLink DEF LinkInv
<1>2. CASE Stays /\ (Busy' \/ (rxddata' = rxddata /\ ~Busy))
  <2>1. Link!Next
    BY <1>2, DriverOnLink
  <2>2. ReplyInv'
    BY <1>2 DEF LinkInv, ReplyInv, Stays
  <2> QED BY <1>1, <2>1, <2>2
<1>3. CASE Ends /\ ~Busy'
  <2>1. Link!Next
    BY <1>3, DriverOnLink
  <2>2. ReplyInv'
    BY <1>3 DEF ReplyInv, Ends
  <2> QED BY <1>1, <2>1, <2>2
<1> QED BY <1>1, <1>2, <1>3

\* A byte started, by Sendbyte or by Recvbyte, is the one the call asked for: the routine
\* has seen the interface idle, so the start is not lost (mmc_spi.c:33-48).
LEMMA StartStep ==
    ASSUME LinkInv, NEW b \in Byte, Clock(Status(0, mmc_spi_ncs, b)), pc \in Idling,
           Asked = b, Asked' = None,
           Routine' = IF Routine = "Sendbyte" THEN "none" ELSE Routine,
           mmc_spi_ncs' = mmc_spi_ncs, ret' = ret
    PROVE  WireInv' /\ ReplyInv' /\ Link!Next
<1> DEFINE w == Status(0, mmc_spi_ncs, b)
<1>1. Writes(w) /\ Starts(w) /\ w.ncs = mmc_spi_ncs /\ w.byte = b
  BY SpiInvParts, ByteIsBits DEF Writes, Status, Starts, LinkInv, ProgramOK
<1>2. state = "IDLE"
  BY DEF LinkInv, SpiInv, CountInv
<1> HIDE DEF w
<1>3. Clock(w)
  BY DEF w
<1>4. WireInv' /\ Begins([ncs |-> {w.ncs}, byte |-> w.byte]) /\ Busy'
  BY <1>1, <1>2, <1>3, ClockOnLink DEF LinkInv
<1>5. Begins([ncs |-> {mmc_spi_ncs}, byte |-> b])
  BY <1>1, <1>4
<1>6. Link!Next
  BY <1>5, PutOnLink
<1>7. ReplyInv'
  BY <1>4 DEF ReplyInv
<1> QED BY <1>4, <1>6, <1>7

\* A call begins: Sendbyte and Recvbyte ask for a byte, the others for none.
LEMMA CallAsks ==
    ASSUME Call, mmc_spi_ncs \in {0, 1}
    PROVE  Link!Driver
<1>1. /\ pc = "ready" /\ ret' = None /\ mmc_spi_ncs' = mmc_spi_ncs
      /\ Asked = None /\ Routine = "none"
  BY DEF Call, Asked, Routine
<1>2. CASE pc' = "send" /\ data' \in Byte
  BY <1>1, <1>2 DEF Link!Driver, Link!Sendbyte, Link!Begins, Asked, Routine
<1>3. CASE pc' = "recv"
  BY <1>1, <1>3 DEF Link!Driver, Link!Recvbyte, Link!Begins, Asked, Routine
<1>4. CASE pc' \in {"init", "wait", "trans clock"}
  <2>1. Asked' = None /\ Routine' = "none"
    BY <1>4 DEF Asked, Routine
  <2>2. Link!Select
    BY <1>1, <2>1 DEF Link!Select
  <2> QED BY <2>2 DEF Link!Driver
<1> QED BY <1>2, <1>3, <1>4 DEF Call

\* Within a routine, and between two, the byte asked for stays.
LEMMA StillAsked ==
    ASSUME mmc_spi_ncs' = mmc_spi_ncs, ret' = ret, data' = data,
           \/ pc' = pc
           \/ pc = "send" /\ pc' = "send start"
           \/ pc = "recv" /\ pc' = "recv start"
           \/ /\ pc \in {"init", "init cs", "init clock", "trans clock", "wait", "wait poll"}
              /\ pc' \in {"ready", "init cs", "init clock", "wait poll"}
    PROVE  Link!Driver
<1>1. Asked' = Asked /\ Routine' = Routine
  BY DEF Asked, Routine
<1> QED BY <1>1 DEF Link!Driver

LEMMA AccessOnLink == LinkInv /\ Access => WireInv' /\ ReplyInv' /\ Link!Next
<1> SUFFICES ASSUME LinkInv, Access PROVE WireInv' /\ ReplyInv' /\ Link!Next
  OBVIOUS
<1>0. ProgramOK /\ Byte \subseteq Bits /\ Ones \in Byte
  BY SpiInvParts, ByteIsBits DEF LinkInv
<1>1. Writes(NoWrite) /\ ~Starts(NoWrite)
  BY DEF Writes, Starts, NoWrite
<1>2. mmc_spi_ncs \in {0, 1} /\ data \in Byte
  BY <1>0 DEF ProgramOK
<1>3. CASE Call /\ Clock(NoWrite)
  <2>1. pc' # "recv poll"
    BY <1>3 DEF Call
  <2> QED BY <1>1, <1>2, <1>3, <2>1, CallAsks, DriverStep
<1>4. CASE AwaitExit /\ Clock(NoWrite)
  <2>1. PICK p \in {<<"send", "send start">>, <<"recv", "recv start">>,
                    <<"init", "init cs">>} : pc = p[1] /\ CommExit /\ Goto(p[2])
    BY <1>4 DEF AwaitExit
  <2>2. \A a, b : <<a, b>>[1] = a /\ <<a, b>>[2] = b
    OBVIOUS
  <2>3. \/ p[1] = "send" /\ p[2] = "send start"
        \/ p[1] = "recv" /\ p[2] = "recv start"
        \/ p[1] = "init" /\ p[2] = "init cs"
    <3>1. \/ p = <<"send", "send start">>
          \/ p = <<"recv", "recv start">>
          \/ p = <<"init", "init cs">>
      BY <2>1, Zenon
    <3>2. CASE p = <<"send", "send start">>
      BY <2>2, <3>2
    <3>3. CASE p = <<"recv", "recv start">>
      BY <2>2, <3>3
    <3>4. CASE p = <<"init", "init cs">>
      BY <2>2, <3>4
    <3> QED BY <3>1, <3>2, <3>3, <3>4
  <2>4. mmc_spi_ncs' = mmc_spi_ncs /\ ret' = ret /\ data' = data /\ pc' = p[2] /\ pc = p[1]
    BY <2>1, Zenon DEF Goto
  <2>5. Link!Driver /\ pc' # "recv poll"
    BY <2>3, <2>4, StillAsked
  <2> QED BY <1>1, <1>4, <2>5, DriverStep
<1>5. CASE Poll /\ Clock(NoWrite)
  <2>1. state = "IDLE" /\ pc = "recv poll" /\ ret' = rxddata /\ pc' = "ready"
        /\ mmc_spi_ncs' = mmc_spi_ncs
    BY <1>5 DEF Poll, CommExit, LinkInv, SpiInv, CountInv
  <2>2. WireInv' /\ Box = None /\ Stays /\ ~Busy
    BY <1>1, <1>5, <2>1, ClockOnLink DEF LinkInv
  <2>3. ret' = reply
    BY <2>1, <2>2 DEF LinkInv, ReplyInv
  <2>4. Routine = "Recvbyte" /\ Asked = None /\ Routine' = "none" /\ Asked' = None
    BY <2>1 DEF Asked, Routine
  <2>5. Link!Next
    BY <2>1, <2>2, <2>3, <2>4, ReturnOnLink
  <2>6. ReplyInv'
    BY <2>1 DEF ReplyInv
  <2> QED BY <2>2, <2>5, <2>6
<1>6. CASE WaitOver /\ Clock(NoWrite)
  <2>1. Link!Driver /\ pc' # "recv poll"
    BY <1>6, StillAsked DEF WaitOver, Goto
  <2> QED BY <1>1, <1>6, <2>1, DriverStep
<1>7. ASSUME NEW c \in {0, 1}, NEW p,
             (pc = "ready" /\ p = "ready") \/ (pc = "init cs" /\ p = "init clock"),
             SetNcs(c, p), Clock(Status(1, c, Ones))
      PROVE  WireInv' /\ ReplyInv' /\ Link!Next
  <2>1. Writes(Status(1, c, Ones)) /\ ~Starts(Status(1, c, Ones))
    BY <1>0 DEF Writes, Status, Starts
  <2>2. mmc_spi_ncs' = c /\ ret' = ret /\ pc' = p
    BY <1>7, Zenon DEF SetNcs
  <2>3. Asked = None /\ Routine = "none" /\ Asked' = None /\ Routine' = "none" /\ pc' # "recv poll"
    BY <1>7, <2>2 DEF Asked, Routine
  <2>4. Link!Select
    BY <2>2, <2>3 DEF Link!Select
  <2>5. Link!Driver
    BY <2>4 DEF Link!Driver
  <2> QED BY <1>7, <2>1, <2>3, <2>5, DriverStep
<1>8. CASE pc = "send start" /\ Sent /\ Clock(Status(0, mmc_spi_ncs, data))
  <2>1. Asked = data /\ Asked' = None
        /\ Routine' = IF Routine = "Sendbyte" THEN "none" ELSE Routine
    BY <1>8 DEF Sent, Asked, Routine
  <2> QED BY <1>2, <1>8, <2>1, StartStep DEF Sent, Idling
<1>9. CASE pc = "recv start" /\ Goto("recv poll") /\ Clock(Status(0, mmc_spi_ncs, Ones))
  <2>1. Asked = Ones /\ Asked' = None
        /\ Routine' = IF Routine = "Sendbyte" THEN "none" ELSE Routine
    BY <1>9 DEF Goto, Asked, Routine
  <2> QED BY <1>0, <1>9, <2>1, StartStep DEF Goto, Idling
<1>10. ASSUME NEW w, w = ClkDiv(IdentDiv) \/ w = ClkDiv(TransDiv) \/ w = Timer(Wait), Clock(w),
              NEW p, p \in {"ready", "wait poll"}, pc \in {"init clock", "trans clock", "wait"},
              Goto(p)
       PROVE  WireInv' /\ ReplyInv' /\ Link!Next
  <2>1. Writes(w) /\ ~Starts(w)
    <3>1. Writes(ClkDiv(IdentDiv)) /\ Writes(ClkDiv(TransDiv)) /\ Writes(Timer(Wait))
      BY DivAssumption DEF Writes
    <3>2. \A k : ~Starts(ClkDiv(k)) /\ ~Starts(Timer(k))
      BY DEF ClkDiv, Timer, Starts
    <3> QED BY <1>10, <3>1, <3>2, Zenon
  <2>2. mmc_spi_ncs' = mmc_spi_ncs /\ ret' = ret /\ data' = data /\ pc' = p
    BY <1>10, Zenon DEF Goto
  <2>3. Link!Driver /\ pc' # "recv poll"
    BY <1>10, <2>2, StillAsked
  <2> QED BY <1>10, <2>1, <2>3, DriverStep
<1>11. CASE \E c \in {0, 1} : pc = "ready" /\ SetNcs(c, "ready") /\ Clock(Status(1, c, Ones))
  <2>1. PICK c \in {0, 1} : pc = "ready" /\ SetNcs(c, "ready") /\ Clock(Status(1, c, Ones))
    BY <1>11
  <2> QED BY <1>7, <2>1
<1>12. CASE pc = "init cs" /\ SetNcs(1, "init clock") /\ Clock(Status(1, 1, Ones))
  BY <1>7, <1>12
<1>13. CASE pc = "init clock" /\ Goto("ready") /\ Clock(ClkDiv(IdentDiv))
  BY <1>10, <1>13
<1>14. CASE pc = "trans clock" /\ Goto("ready") /\ Clock(ClkDiv(TransDiv))
  BY <1>10, <1>14
<1>15. CASE pc = "wait" /\ Goto("wait poll") /\ Clock(Timer(Wait))
  BY <1>10, <1>15
<1> QED BY <1>3, <1>4, <1>5, <1>6, <1>8, <1>9, <1>11, <1>12, <1>13, <1>14, <1>15 DEF Access

LEMMA LinkStep == LinkInv /\ [Next]_vars =>
    WireInv' /\ ReplyInv' /\ [Link!Next]_<<mmc_spi_ncs, Routine, Asked, Box, reply, ret>>
<1> SUFFICES ASSUME LinkInv, [Next]_vars
             PROVE  /\ WireInv' /\ ReplyInv'
                    /\ [Link!Next]_<<mmc_spi_ncs, Routine, Asked, Box, reply, ret>>
  OBVIOUS
<1>1. CASE Access
  BY <1>1, AccessOnLink
<1>2. CASE Pass
  <2>1. Writes(NoWrite) /\ ~Starts(NoWrite)
    BY DEF Writes, Starts, NoWrite
  <2>2. /\ mmc_spi_ncs' = mmc_spi_ncs /\ data' = data /\ ret' = ret /\ pc' = pc
        /\ Clock(NoWrite)
    BY <1>2 DEF Pass, program
  <2>3. Link!Driver
    BY <2>2, StillAsked
  <2> QED BY <2>1, <2>2, <2>3, DriverStep
<1>3. CASE Reset
  <2>1. ~Busy' /\ sampled' = <<>> /\ selects' = {} /\ pc' = "init"
    BY <1>3 DEF Reset, Busy
  <2>2. WireInv' /\ ReplyInv' /\ Box' = None /\ Asked' = None /\ Routine' = "none"
    BY <2>1 DEF WireInv, ReplyInv, Box, Asked, Routine
  <2>3. mmc_spi_ncs' = 0 /\ reply' = reply /\ ret' = ret
    BY <1>3 DEF Reset
  <2> QED BY <2>2, <2>3, ResetOnLink
<1>4. CASE UNCHANGED vars
  <2>1. UNCHANGED interface /\ UNCHANGED program /\ UNCHANGED card
    BY <1>4 DEF vars
  <2>2. /\ state' = state /\ bitcount' = bitcount /\ rxddata' = rxddata /\ ncs_reg' = ncs_reg
        /\ sampled' = sampled /\ selects' = selects /\ give' = give /\ reply' = reply
        /\ sdo_reg' = sdo_reg /\ txddata' = txddata /\ pc' = pc /\ ret' = ret
        /\ mmc_spi_ncs' = mmc_spi_ncs /\ data' = data
    BY <2>1 DEF interface, program, card
  <2>3. (Busy' <=> Busy) /\ InTransfer' = InTransfer /\ \A i : Driven(i)' = Driven(i)
    BY <2>2, InTransferIsOnWire DEF Busy, Driven
  <2>4. Box' = Box /\ Asked' = Asked /\ Routine' = Routine
    BY <2>2, <2>3 DEF Box, Asked, Routine
  <2>5. WireInv' /\ ReplyInv'
    BY <2>2, <2>3, Zenon DEF LinkInv, WireInv, ReplyInv
  <2> QED BY <2>2, <2>4, <2>5
<1> QED BY <1>1, <1>2, <1>3, <1>4 DEF Next

\* For every set of bytes, dividers and wait: every byte a routine is called with goes out,
\* once and whole, under the select set last before it, before the next call can begin; and
\* what Recvbyte returns is the card's answer to the byte of that call
\* (avalonif_mmc.v:126-186, mmc_spi.c:19-55).
THEOREM BytesExchangedCorrect == Spec => BytesExchanged
<1>1. Init => WireInv /\ ReplyInv /\ Link!Init
  <2> SUFFICES ASSUME Init PROVE WireInv /\ ReplyInv /\ Link!Init
    OBVIOUS
  <2>1. /\ ~Busy /\ sampled = <<>> /\ selects = {} /\ pc = "init" /\ Box = None
        /\ mmc_spi_ncs = 0 /\ reply = Ones /\ ret = None /\ Asked = None /\ Routine = "none"
    BY DEF Init, Busy, Box, Asked, Routine
  <2>2. WireInv /\ ReplyInv
    BY <2>1 DEF WireInv, ReplyInv
  <2>3. Link!Init
    BY <2>1 DEF Link!Init, Box, Busy
  <2> QED BY <2>2, <2>3
<1>2. SpiInv /\ WireInv /\ ReplyInv /\ [Next]_vars =>
          WireInv' /\ ReplyInv' /\ [Link!Next]_<<mmc_spi_ncs, Routine, Asked, Box, reply, ret>>
  BY LinkStep DEF LinkInv
<1> QED BY <1>1, <1>2, SpiInvHolds, PTL DEF Spec, BytesExchanged, Link!Spec, Box, Busy
=============================================================================
