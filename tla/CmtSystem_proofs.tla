-------------------------- MODULE CmtSystem_proofs --------------------------
(***************************************************************************)
(* Theorems about CmtSystem, for every image, every length of a tick and   *)
(* every pace of the Z80's program the assumptions allow.                  *)
(***************************************************************************)
EXTENDS CmtSystem, SequenceTheorems, TLAPS

\* A wait of main.c, in ticks, is a natural number; the trailer is the longest.
LEMMA TicksType ==
    /\ Ticks(LeadInMs) \in 0 .. Ticks(TrailerMs)
    /\ Ticks(ByteGapMs) \in 0 .. Ticks(TrailerMs)
    /\ Ticks(TrailerMs) \in 0 .. Ticks(TrailerMs)
  BY TimeAssumption DEF Ticks, LeadInMs, ByteGapMs, TrailerMs

\* The image has a length, and is made of bytes.
LEMMA LenType == Len(File) \in Nat /\ 0 \in 0 .. Len(File)
  <1>1. File \in Seq(1 .. 63)
    BY FileAssumption
  <1>2. Len(File) \in Nat
    BY <1>1
  <1> QED BY <1>2

\* Every byte of the image is one fgetc returns, and not the 0 the firmware starts with.
LEMMA FileByte ==
    ASSUME NEW i \in 1 .. Len(File)
    PROVE  File[i] \in 1 .. 63
  BY FileAssumption, ElementOfSeq

\* Having heard nothing is having heard a sequence of bytes.
LEMMA NothingHeard == <<>> \in Seq(1 .. 63)
  BY EmptySeq

\* What an access of the Z80 does to the SIO, and what it cannot do: announce a byte.
LEMMA Z80AccessEffect ==
    ASSUME TypeOK, NEW op \in {"ctlw", "ctlr", "datr"}, NEW byte \in {0, IR, LOAD},
           Z80Access(op, byte)
    PROVE  /\ r_state' \in {"MODE", "CMD"} /\ r_command' \in {0, LOAD}
           /\ r_status' \in {0, 2} /\ O_CONTROL_DATA' \in {0, 2}
           /\ r_cmt_data' \in Byte /\ O_DATA' \in Byte
           /\ r_status' = 2 => r_status = 2 /\ r_cmt_data' = r_cmt_data
           /\ op = "ctlw" /\ byte = IR => r_command' = 0 /\ r_status' = 0
           /\ op = "ctlw" /\ byte # IR => r_state' = "CMD" /\ r_status' = r_status
           /\ op = "ctlr" => /\ r_command' = r_command /\ r_state' = r_state
                             /\ r_status' = r_status
                             /\ r_state = "CMD" => O_CONTROL_DATA' = r_status
           /\ op = "datr" => /\ r_command' = r_command /\ r_state' = r_state
                             /\ r_status' = 0 /\ O_DATA' = r_cmt_data
  <1>1. CASE Sio!Resets(op, byte)
    <2>1. op = "ctlw" /\ byte = IR /\ Sio!ClearRegs
      BY <1>1 DEF Z80Access, Sio!Resets
    <2> QED BY <2>1 DEF Sio!ClearRegs, Byte, IR, LOAD
  <1>2. CASE ~Sio!Resets(op, byte)
    <2>1. /\ Sio!ControlPort(op, byte) /\ Sio!DataPort(op, byte, "none", 0)
          /\ r_state' = IF op = "ctlw" THEN "CMD" ELSE r_state
          /\ op = "ctlw" => byte \in {0, LOAD}
      BY <1>2 DEF Z80Access, Sio!Resets
    <2> QED BY <1>2, <2>1 DEF TypeOK, Sio!Resets, Sio!ControlPort, Sio!DataPort, Byte, IR, LOAD
  <1> QED BY <1>1, <1>2

\* A strobe of the firmware announces its byte, or does nothing.
LEMMA McuWriteEffect ==
    ASSUME TypeOK, NEW byte \in 1 .. 63, McuWrite(byte)
    PROVE  /\ UNCHANGED <<r_state, r_command, O_CONTROL_DATA, O_DATA>>
           /\ \/ r_command = LOAD /\ r_status' = 2 /\ r_cmt_data' = byte
              \/ r_command # LOAD /\ UNCHANGED <<r_status, r_cmt_data>>
  BY DEF TypeOK, McuWrite, Sio!ControlPort, Sio!DataPort

\* A step of main() off the SIO keeps the firmware's own types, and the byte it
\* is about to send is one of the image's.
LEMMA MainType ==
    ASSUME TypeOK, Announced, Main
    PROVE  /\ pc' \in Places /\ f_wait_time' \in 0 .. Ticks(TrailerMs)
           /\ pos' \in 0 .. Len(File) /\ c' \in 0 .. 63
           /\ pc' = "strobe" => c' # 0
  <1>1. CASE PollLoad \/ PollMotor \/ SendOk
    BY <1>1 DEF TypeOK, PollLoad, PollMotor, SendOk, Places
  <1>2. CASE Open
    BY LenType, <1>2 DEF TypeOK, Open, Places
  <1>3. CASE Close
    BY LenType, <1>3 DEF TypeOK, Close, Places
  <1>4. CASE Waited("leadwait", "fetch") \/ Waited("gapwait", "sendok")
    BY <1>4 DEF TypeOK, Waited, Places
  <1>5. CASE LeadIn \/ ByteGap \/ Trailer
    BY <1>5, TicksType DEF TypeOK, LeadIn, ByteGap, Trailer, Wait, Places
  <1>6. CASE Fetch
    <2>1. CASE pos < Len(File) /\ pos' = pos + 1 /\ c' = File[pos + 1] /\ pc' = "strobe"
      <3>1. pos + 1 \in 1 .. Len(File) /\ pos' = pos + 1
        BY <2>1, LenType DEF TypeOK
      <3>2. c' \in 1 .. 63
        BY <2>1, <3>1, FileByte
      <3>3. pos' \in 0 .. Len(File) /\ c' \in 0 .. 63 /\ c' # 0
        BY <3>1, <3>2
      <3>4. pc' \in Places
        BY <2>1 DEF Places
      <3>5. f_wait_time' \in 0 .. Ticks(TrailerMs)
        BY <1>6 DEF Fetch, TypeOK
      <3> QED BY <3>3, <3>4, <3>5
    <2>2. CASE pc' = "trail" /\ UNCHANGED <<pos, c>>
      BY <1>6, <2>2 DEF TypeOK, Fetch, Places
    <2> QED BY <1>6, <2>1, <2>2 DEF Fetch
  <1> QED BY <1>1, <1>2, <1>3, <1>4, <1>5, <1>6 DEF Main

\* The types of the system and what the Z80's program may rely on.
LEMMA AnnouncedInductive ==
    ASSUME TypeOK, Announced, [Next]_vars
    PROVE  TypeOK' /\ Announced'
  <1> USE DEF TypeOK, Announced
  <1>1. CASE Main /\ UNCHANGED <<sio, motor, program, age>>
    BY <1>1, MainType DEF sio, program
  <1>2. CASE Strobe /\ UNCHANGED <<motor, program>>
    <2>1. c \in 1 .. 63
      BY <1>2 DEF Strobe
    <2>2. age' \in 0 .. ReadWithin + StopWithin
      BY <1>2, TimeAssumption DEF Strobe
    <2>3. c \in Byte /\ "gap" \in Places
      BY <2>1 DEF Byte, Places
    <2>4. /\ UNCHANGED <<r_state, r_command, O_CONTROL_DATA, O_DATA>>
          /\ \/ r_command = LOAD /\ r_status' = 2 /\ r_cmt_data' = c
             \/ r_command # LOAD /\ UNCHANGED <<r_status, r_cmt_data>>
      BY <1>2, <2>1, McuWriteEffect DEF Strobe
    <2>5. pc' = "gap" /\ UNCHANGED <<f_wait_time, pos, c, motor, loader, heard, clean>>
      BY <1>2 DEF Strobe, program
    <2>6. TypeOK'
      BY <2>2, <2>3, <2>4, <2>5
    <2>7. Announced'
      <3>1. /\ loader' \in {"off", "mode"} => r_command' = 0 /\ r_status' # 2
            /\ loader' \notin {"off", "mode"} => r_state' = "CMD"
            /\ loader' = "take" => r_status' = 2
            /\ pc' = "strobe" => c' # 0
        BY <2>4, <2>5 DEF LOAD
      <3>2. r_status' = 2 => r_cmt_data' \in 1 .. 63
        BY <2>1, <2>4, <2>5 DEF LOAD
      <3> QED BY <3>1, <3>2
    <2> QED BY <2>6, <2>7
  <1>3. CASE Start /\ UNCHANGED firmware
    BY <1>3, Z80AccessEffect DEF Start, firmware
  <1>4. CASE SetMode /\ UNCHANGED firmware
    <2>1. PICK byte \in {0, LOAD} : Z80Access("ctlw", byte)
      BY <1>4 DEF SetMode
    <2> QED BY <1>4, <2>1, Z80AccessEffect DEF SetMode, firmware, Quiet, IR, LOAD
  <1>5. CASE SetCommand /\ UNCHANGED firmware
    BY <1>5, Z80AccessEffect DEF SetCommand, firmware, Quiet, IR, LOAD
  <1>6. CASE MotorOn /\ UNCHANGED firmware
    BY <1>6 DEF MotorOn, firmware, sio
  <1>7. CASE PollStatus /\ UNCHANGED firmware
    BY <1>7, Z80AccessEffect DEF PollStatus, firmware
  <1>8. CASE Take /\ UNCHANGED firmware
    <2>1. O_DATA' \in 1 .. 63
      BY <1>8, Z80AccessEffect DEF Take
    <2>2. heard' \in Seq(1 .. 63)
      BY <1>8, <2>1 DEF Take
    <2> QED BY <1>8, <2>2, Z80AccessEffect, TimeAssumption DEF Take, firmware
  <1>9. CASE MotorOff /\ UNCHANGED firmware
    BY <1>9 DEF MotorOff, firmware, sio
  <1>10. CASE SioOff /\ UNCHANGED firmware
    <2>1. heard' \in Seq(1 .. 63)
      BY <1>10, NothingHeard DEF SioOff
    <2>2. /\ loader' = "off" /\ clean' = FALSE /\ motor' = motor
          /\ age' \in 0 .. ReadWithin + StopWithin
          /\ Z80Access("ctlw", IR)
      BY <1>10, TimeAssumption DEF SioOff
    <2>3. /\ r_state' \in {"MODE", "CMD"} /\ r_command' = 0 /\ r_status' = 0
          /\ O_CONTROL_DATA' \in {0, 2} /\ r_cmt_data' \in Byte /\ O_DATA' \in Byte
      BY <2>2, Z80AccessEffect
    <2>4. TypeOK'
      BY <1>10, <2>1, <2>2, <2>3 DEF firmware
    <2>5. Announced'
      BY <1>10, <2>2, <2>3 DEF firmware
    <2> QED BY <2>4, <2>5
  <1>11. CASE Tick
    <2>1. age' \in 0 .. ReadWithin + StopWithin
      BY <1>11, TimeAssumption DEF Tick, Deadline
    <2>2. f_wait_time' \in 0 .. Ticks(TrailerMs)
      BY <1>11, TicksType DEF Tick, CountDown
    <2> QED BY <1>11, <2>1, <2>2 DEF Tick, sio, program
  <1>12. CASE Reset
    <2>1. heard' \in Seq(1 .. 63)
      BY <1>12, NothingHeard DEF Reset
    <2>2. /\ loader' = "off" /\ Sio!ClearRegs
          /\ age' \in 0 .. ReadWithin + StopWithin
      BY <1>12, TimeAssumption DEF Reset
    <2>3. clean' \in BOOLEAN /\ motor' \in BOOLEAN
      BY <1>12 DEF Reset
    <2>4. /\ pc' = "poll" /\ c' = 0 /\ pos' \in 0 .. Len(File)
          /\ f_wait_time' \in 0 .. Ticks(TrailerMs)
      BY <1>12, TicksType, LenType DEF Reset
    <2>5. 0 \in Byte /\ "poll" \in Places
      BY DEF Byte, Places
    <2>6. TypeOK'
      BY <2>1, <2>2, <2>4, <2>5, <2>3 DEF Sio!ClearRegs
    <2>7. Announced'
      BY <2>2, <2>4 DEF Sio!ClearRegs
    <2> QED BY <2>6, <2>7
  <1>13. CASE UNCHANGED vars
    BY <1>13 DEF vars, sio, firmware, program
  <1> QED BY <1>1, <1>2, <1>3, <1>4, <1>5, <1>6, <1>7, <1>8, <1>9, <1>10, <1>11, <1>12, <1>13
          DEF Next, Firmware, Z80

\* Every variable keeps its type, and the Z80's program finds what it was promised.
THEOREM AnnouncedCorrect == Spec => [](TypeOK /\ Announced)
  <1>1. Init => TypeOK /\ Announced
    <2> SUFFICES ASSUME Init PROVE TypeOK /\ Announced
      OBVIOUS
    <2>1. heard \in Seq(1 .. 63)
      BY NothingHeard DEF Init
    <2>2. pos \in 0 .. Len(File) /\ f_wait_time \in 0 .. Ticks(TrailerMs)
      BY TicksType, LenType DEF Init
    <2>3. /\ age \in 0 .. ReadWithin + StopWithin /\ c = 0 /\ pc = "poll"
          /\ loader = "off"
      BY TimeAssumption DEF Init
    <2>4. clean \in BOOLEAN /\ motor \in BOOLEAN
      BY DEF Init
    <2>5. /\ r_state = "MODE" /\ r_command = 0 /\ r_status = 0 /\ r_cmt_data = 0
          /\ O_DATA = 0 /\ O_CONTROL_DATA = 0
      BY DEF Init
    <2>6. 0 \in Byte /\ "poll" \in Places
      BY DEF Byte, Places
    <2>7. TypeOK
      BY <2>1, <2>2, <2>3, <2>5, <2>6, <2>4 DEF TypeOK
    <2>8. Announced
      BY <2>3, <2>5 DEF Announced
    <2> QED BY <2>7, <2>8
  <1> QED BY <1>1, AnnouncedInductive, PTL DEF Spec

\* A program that reads every byte before the 75 ms of the firmware are over keeps
\* the two in step.
LEMMA PacedInductive ==
    ASSUME ReadWithin < Ticks(ByteGapMs),
           TypeOK, Announced, Paced, [Next]_vars
    PROVE  Paced'
  <1> USE DEF Paced
  <1>1. Ticks(ByteGapMs) \in Nat
    BY TicksType, TimeAssumption DEF Ticks, ByteGapMs, TrailerMs
  <1>2. CASE Main /\ UNCHANGED <<sio, motor, program, age>>
    <2> SUFFICES ASSUME r_status = 2
                 PROVE  /\ pc' \in {"gap", "gapwait"}
                        /\ pc' = "gapwait" => f_wait_time' + age >= Ticks(ByteGapMs)
      BY <1>2 DEF sio
    <2>1. CASE ByteGap
      BY <1>1, <2>1 DEF ByteGap, Wait, TypeOK
    <2>2. CASE Waited("gapwait", "sendok")
      BY <1>1, <2>2, TimeAssumption DEF Waited, TypeOK
    <2>3. CASE ~ByteGap /\ ~Waited("gapwait", "sendok")
      BY <1>2, <2>3 DEF Main, PollLoad, PollMotor, Open, LeadIn, Trailer, Wait, Waited,
                         Fetch, SendOk, Close
    <2> QED BY <2>1, <2>2, <2>3
  <1>3. CASE Strobe /\ UNCHANGED <<motor, program>>
    BY <1>3, TimeAssumption DEF Strobe
  <1>4. CASE Z80
    <2>1. r_status' = 2 => r_status = 2 /\ age' = age
      <3>1. CASE Start \/ SetCommand \/ PollStatus \/ Take \/ SioOff
        BY <3>1, Z80AccessEffect DEF Start, SetCommand, PollStatus, Take, SioOff
      <3>2. CASE SetMode
        <4>1. PICK byte \in {0, LOAD} : Z80Access("ctlw", byte)
          BY <3>2 DEF SetMode
        <4> QED BY <3>2, <4>1, Z80AccessEffect DEF SetMode
      <3>3. CASE MotorOn \/ MotorOff
        BY <3>3 DEF MotorOn, MotorOff, sio
      <3> QED BY <1>4, <3>1, <3>2, <3>3 DEF Z80
    <2> QED BY <1>4, <2>1 DEF Z80, firmware
  <1>5. CASE Tick
    <2>1. r_status = 2 => Due /\ Deadline = ReadWithin
      BY DEF Announced, Due, Deadline
    <2>2. r_status = 2 => age' = age + 1 /\ age' <= ReadWithin
      BY <1>5, <2>1, TimeAssumption DEF Tick, TypeOK
    <2>3. f_wait_time' >= f_wait_time - 1 /\ f_wait_time' \in Nat
      BY <1>5, TicksType DEF Tick, CountDown, TypeOK
    <2> QED BY <1>1, <1>5, <2>2, <2>3, TimeAssumption DEF Tick, sio, TypeOK
  <1>6. CASE Reset
    BY <1>6 DEF Reset, Sio!ClearRegs
  <1>7. CASE UNCHANGED vars
    BY <1>7 DEF vars, sio, firmware, program
  <1> QED BY <1>2, <1>3, <1>4, <1>5, <1>6, <1>7 DEF Next, Firmware

\* A byte is announced only while its 75 ms run, where the Z80 is prompt.
THEOREM PacedCorrect ==
    ASSUME ReadWithin < Ticks(ByteGapMs)
    PROVE  Spec => []Paced
  <1>1. Init => Paced
    BY DEF Init, Paced
  <1>2. TypeOK /\ Announced /\ Paced /\ [Next]_vars => Paced'
    BY PacedInductive
  <1> QED BY <1>1, <1>2, AnnouncedCorrect, PTL DEF Spec

\* So the firmware never starts on the next byte before the Z80 took the last one,
\* although the bit it polls (main.c:307) never makes it wait.
THEOREM SendOkWaitsCorrect ==
    ASSUME ReadWithin < Ticks(ByteGapMs)
    PROVE  Spec => SendOkWaits
  <1>1. Paced /\ [Next]_vars => [SendOk => r_status # 2]_vars
    BY DEF Paced, SendOk
  <1> QED BY <1>1, PacedCorrect, PTL DEF Spec, SendOkWaits

-----------------------------------------------------------------------------
(* What is heard is the image in order. *)

Last == heard[Len(heard)]

\* The bytes of this playing that the program can have heard: not the one the firmware
\* is about to announce, nor the one it has announced.
Sent == IF pc = "strobe" \/ r_status = 2 THEN pos - 1 ELSE pos

\* Where the firmware is in the file.
Cursor ==
    /\ Quiet \/ pc = "undefined" => pos = 0
    /\ pc \in {"strobe", "gap", "gapwait", "sendok"} => pos >= 1
    /\ pc = "strobe" => c = File[pos]
    /\ pc \in {"trail", "trailwait"} => pos = Len(File) \/ SdMayFail
    /\ r_status = 2 => pos >= 1 /\ r_cmt_data = File[pos]

\* A program that has heard something is in its loop, in which the SIO listens.
Tuned ==
    /\ loader \in {"motor", "listen", "take", "stopping"} => r_command = LOAD
    /\ heard # <<>> => loader \in {"listen", "take", "stopping"}

\* What it heard last is the last of the bytes sent, or the end of an earlier playing.
Caught == heard # <<>> =>
    IF Sent = 0 THEN SdMayFail \/ Last = File[Len(File)] ELSE Last = File[Sent]

LEMMA CursorMoves ==
    ASSUME TypeOK, Announced, Paced', Cursor, [Next]_vars
    PROVE  Cursor'
  <1> USE DEF Cursor
  <1>1. CASE Main /\ UNCHANGED <<sio, motor, program, age>>
    <2>1. r_status' = r_status /\ r_cmt_data' = r_cmt_data
      BY <1>1 DEF sio
    <2>2. r_status = 2 => pc' \in {"gap", "gapwait"}
      BY <2>1 DEF Paced
    <2>3. CASE PollLoad \/ PollMotor \/ Open \/ LeadIn
      BY <1>1, <2>1, <2>2, <2>3 DEF PollLoad, PollMotor, Open, LeadIn, Wait, Quiet
    <2>4. CASE Waited("leadwait", "fetch") \/ ByteGap \/ Waited("gapwait", "sendok") \/ SendOk
      BY <1>1, <2>1, <2>2, <2>4 DEF Waited, ByteGap, Wait, SendOk, Quiet
    <2>5. CASE Trailer \/ Close
      BY <1>1, <2>1, <2>2, <2>5 DEF Trailer, Wait, Close, Quiet
    <2>6. CASE Fetch
      <3>1. CASE pos < Len(File) /\ pos' = pos + 1 /\ c' = File[pos + 1] /\ pc' = "strobe"
        <4>1. pos' >= 1 /\ c' = File[pos'] /\ r_status # 2
          BY <2>2, <3>1, LenType DEF TypeOK
        <4> QED BY <2>1, <3>1, <4>1 DEF Quiet
      <3>2. CASE (pos = Len(File) \/ SdMayFail) /\ pc' = "trail" /\ UNCHANGED <<pos, c>>
        BY <2>1, <2>2, <3>2 DEF Quiet
      <3> QED BY <2>6, <3>1, <3>2 DEF Fetch
    <2> QED BY <1>1, <2>3, <2>4, <2>5, <2>6 DEF Main
  <1>2. CASE Strobe /\ UNCHANGED <<motor, program>>
    <2>1. c \in 1 .. 63 /\ c = File[pos] /\ pos >= 1
      BY <1>2 DEF Strobe, Announced, TypeOK
    <2>2. r_status' = 2 => r_cmt_data' = c \/ (r_status = 2 /\ r_cmt_data' = r_cmt_data)
      BY <1>2, <2>1, McuWriteEffect DEF Strobe
    <2>3. pc' = "gap" /\ pos' = pos
      BY <1>2 DEF Strobe
    <2> QED BY <2>1, <2>2, <2>3 DEF Quiet
  <1>3. CASE Z80
    <2>1. r_status' = 2 => r_status = 2 /\ r_cmt_data' = r_cmt_data
      <3>1. CASE Start \/ SetCommand \/ PollStatus \/ Take \/ SioOff
        BY <3>1, Z80AccessEffect DEF Start, SetCommand, PollStatus, Take, SioOff
      <3>2. CASE SetMode
        <4>1. PICK byte \in {0, LOAD} : Z80Access("ctlw", byte)
          BY <3>2 DEF SetMode
        <4> QED BY <3>2, <4>1, Z80AccessEffect
      <3>3. CASE MotorOn \/ MotorOff
        BY <3>3 DEF MotorOn, MotorOff, sio
      <3> QED BY <1>3, <3>1, <3>2, <3>3 DEF Z80
    <2> QED BY <1>3, <2>1 DEF Z80, firmware, Quiet
  <1>4. CASE Tick
    BY <1>4 DEF Tick, sio, Quiet
  <1>5. CASE Reset
    BY <1>5 DEF Reset, Sio!ClearRegs, Quiet
  <1>6. CASE UNCHANGED vars
    BY <1>6 DEF vars, sio, firmware, program, Quiet
  <1> QED BY <1>1, <1>2, <1>3, <1>4, <1>5, <1>6 DEF Next, Firmware

\* The Z80's accesses and the command register: IR switches it off, LOAD on.
LEMMA CommandEffect ==
    ASSUME TypeOK, NEW op \in {"ctlw", "ctlr", "datr"}, NEW byte \in {0, IR, LOAD},
           Z80Access(op, byte)
    PROVE  /\ op = "ctlw" /\ byte # IR => r_command' = byte
           /\ op # "ctlw" => r_command' = r_command
  <1>1. CASE op = "ctlw" /\ byte # IR
    BY <1>1 DEF Z80Access, Sio!Resets, Sio!ControlPort, IR
  <1>2. CASE op # "ctlw"
    BY <1>2 DEF Z80Access, Sio!Resets, Sio!ControlPort
  <1> QED BY <1>1, <1>2

LEMMA TunedStays == ASSUME TypeOK, Tuned, [Next]_vars PROVE Tuned'
  <1> USE DEF Tuned
  <1>1. CASE Main /\ UNCHANGED <<sio, motor, program, age>>
    BY <1>1 DEF sio, program
  <1>2. CASE Strobe /\ UNCHANGED <<motor, program>>
    BY <1>2 DEF Strobe, McuWrite, Sio!ControlPort, program
  <1>3. CASE Start
    BY <1>3 DEF Start
  <1>4. CASE SetMode
    BY <1>4 DEF SetMode
  <1>5. CASE SetCommand
    BY <1>5, CommandEffect DEF SetCommand, IR, LOAD
  <1>6. CASE PollStatus
    BY <1>6, CommandEffect DEF PollStatus
  <1>7. CASE Take
    BY <1>7, CommandEffect DEF Take
  <1>8. CASE MotorOn \/ MotorOff
    BY <1>8 DEF MotorOn, MotorOff, sio
  <1>9. CASE SioOff
    BY <1>9 DEF SioOff
  <1>10. CASE Tick
    BY <1>10 DEF Tick, sio, program
  <1>11. CASE Reset
    BY <1>11 DEF Reset
  <1>12. CASE UNCHANGED vars
    BY <1>12 DEF vars, sio, program
  <1> QED BY <1>1, <1>2, <1>3, <1>4, <1>5, <1>6, <1>7, <1>8, <1>9, <1>10, <1>11, <1>12
          DEF Next, Firmware, Z80

\* Where nothing is heard, nothing is taken and nothing announced, only a playing that
\* ends can change which bytes have been sent.
LEMMA CaughtStays ==
    ASSUME TypeOK, Announced, Cursor, Tuned, Caught, Paced', [Next]_vars, ~Take
    PROVE  Caught'
  <1> SUFFICES ASSUME heard' # <<>> PROVE Caught'
    BY DEF Caught
  <1>1. ASSUME UNCHANGED <<heard, pos>>,
               (pc' = "strobe" \/ r_status' = 2) <=> (pc = "strobe" \/ r_status = 2)
        PROVE  Caught'
    <2>1. Sent' = Sent /\ Last' = Last
      BY <1>1 DEF Sent, Last
    <2> QED BY <1>1, <2>1 DEF Caught
  <1>2. CASE Main /\ UNCHANGED <<sio, motor, program, age>>
    <2>1. r_status' = r_status /\ heard' = heard
      BY <1>2 DEF sio, program
    <2>2. r_status = 2 => pc' \in {"gap", "gapwait"}
      BY <2>1 DEF Paced
    <2>3. CASE PollLoad \/ PollMotor \/ LeadIn \/ Trailer \/ ByteGap
      BY <1>1, <2>1, <2>3 DEF PollLoad, PollMotor, LeadIn, Trailer, ByteGap, Wait
    <2>4. CASE Waited("leadwait", "fetch") \/ Waited("gapwait", "sendok") \/ SendOk
      BY <1>1, <2>1, <2>4 DEF Waited, SendOk
    <2>5. CASE Open
      <3>1. pos = 0 /\ pos' = 0 /\ pc # "strobe" /\ pc' # "strobe"
        BY <2>5 DEF Open, Cursor, Quiet
      <3> QED BY <1>1, <2>1, <3>1
    <2>6. CASE Close
      <3>1. /\ r_status # 2 /\ pc = "trailwait" /\ pc' = "poll" /\ pos' = 0
            /\ pos = Len(File) \/ SdMayFail
        BY <2>2, <2>6 DEF Close, Cursor
      <3>2. Sent = pos /\ Sent' = 0 /\ Last' = Last
        BY <2>1, <3>1 DEF Sent, Last
      <3>3. Len(File) >= 1
        BY FileAssumption
      <3> QED BY <2>1, <3>1, <3>2, <3>3 DEF Caught
    <2>7. CASE Fetch
      <3>1. CASE pos < Len(File) /\ pos' = pos + 1 /\ pc' = "strobe"
        <4>1. r_status # 2 /\ pc = "fetch"
          BY <2>2, <2>7, <3>1 DEF Fetch
        <4>2. Sent = pos /\ Sent' = pos /\ Last' = Last
          BY <2>1, <3>1, <4>1, LenType DEF Sent, Last, TypeOK
        <4> QED BY <2>1, <4>2 DEF Caught
      <3>2. CASE pc' = "trail" /\ UNCHANGED pos
        BY <1>1, <2>1, <2>7, <3>2 DEF Fetch
      <3> QED BY <2>7, <3>1, <3>2 DEF Fetch
    <2> QED BY <1>2, <2>3, <2>4, <2>5, <2>6, <2>7 DEF Main
  <1>3. CASE Strobe /\ UNCHANGED <<motor, program>>
    <2>1. heard' = heard /\ pos' = pos /\ pc = "strobe" /\ McuWrite(c) /\ c \in 1 .. 63
      BY <1>3 DEF Strobe, program, Announced, TypeOK
    <2>2. r_command = LOAD
      BY <2>1 DEF Tuned
    <2>3. r_status' = 2
      BY <2>1, <2>2, McuWriteEffect
    <2> QED BY <1>1, <2>1, <2>3
  <1>4. CASE Z80 /\ ~Take
    <2>1. heard' = heard /\ r_status' = r_status
      <3>1. CASE Start
        BY <3>1 DEF Start, Tuned
      <3>2. CASE SetMode
        BY <3>2 DEF SetMode, Tuned
      <3>3. CASE SetCommand
        BY <3>3 DEF SetCommand, Tuned
      <3>4. CASE PollStatus
        BY <3>4, Z80AccessEffect DEF PollStatus
      <3>5. CASE SioOff
        BY <3>5 DEF SioOff
      <3>6. CASE MotorOn \/ MotorOff
        BY <3>6 DEF MotorOn, MotorOff, sio
      <3> QED BY <1>4, <3>1, <3>2, <3>3, <3>4, <3>5, <3>6 DEF Z80
    <2> QED BY <1>1, <1>4, <2>1 DEF Z80, firmware
  <1>5. CASE Tick
    BY <1>1, <1>5 DEF Tick, sio, program
  <1>6. CASE Reset
    BY <1>6 DEF Reset
  <1>7. CASE UNCHANGED vars
    BY <1>1, <1>7 DEF vars, sio, firmware, program
  <1> QED BY <1>2, <1>3, <1>4, <1>5, <1>6, <1>7 DEF Next, Firmware

\* The program takes the byte announced, which follows the one it heard last.
LEMMA TakeCatches ==
    ASSUME TypeOK, Announced, Paced, Cursor, Caught, HeardInOrder, Take, UNCHANGED firmware
    PROVE  Caught' /\ HeardInOrder'
  <1>1. /\ r_status = 2 /\ O_DATA' = File[pos] /\ pos \in 1 .. Len(File)
        /\ r_status' = 0 /\ pc # "strobe" /\ pos' = pos /\ pc' = pc
    <2>1. r_status = 2 /\ Z80Access("datr", 0)
      BY DEF Take, Announced
    <2>2. r_status' = 0 /\ O_DATA' = r_cmt_data
      BY <2>1, Z80AccessEffect
    <2>3. pos \in Nat /\ pos <= Len(File) /\ pos >= 1 /\ r_cmt_data = File[pos] /\ pc # "strobe"
      BY <2>1, LenType DEF Cursor, TypeOK, Paced
    <2> QED BY <2>1, <2>2, <2>3, LenType DEF firmware
  <1>2. heard \in Seq(1 .. 63) /\ heard' = Append(heard, File[pos]) /\ File[pos] \in 1 .. 63
    BY <1>1, FileByte DEF Take, TypeOK
  <1>3. /\ Len(heard') = Len(heard) + 1 /\ Len(heard) \in Nat
        /\ heard'[Len(heard) + 1] = File[pos]
        /\ \A i \in 1 .. Len(heard) : heard'[i] = heard[i]
    BY <1>2
  <1>4. Caught'
    <2>1. Last' = File[pos] /\ Sent' = pos
      BY <1>1, <1>3 DEF Last, Sent
    <2> QED BY <1>1, <2>1 DEF Caught
  <1>5. ASSUME NEW i \in 1 .. Len(heard') - 1, NEW k \in 1 .. Len(File), heard'[i] = File[k]
        PROVE  \/ k < Len(File) /\ heard'[i + 1] = File[k + 1]
               \/ (k = Len(File) \/ SdMayFail) /\ heard'[i + 1] = File[1]
    <2>1. i \in 1 .. Len(heard) /\ heard'[i] = heard[i]
      BY <1>3, <1>5
    <2>2. CASE i < Len(heard)
      <3>1. i \in 1 .. Len(heard) - 1 /\ i + 1 \in 1 .. Len(heard)
        BY <1>3, <2>1, <2>2
      <3> QED BY <1>3, <1>5, <2>1, <3>1 DEF HeardInOrder
    <2>3. CASE i = Len(heard)
      <3>1. heard # <<>> /\ Last = File[k] /\ heard'[i + 1] = File[pos]
        BY <1>3, <1>5, <2>1, <2>3 DEF Last
      <3>2. Sent = pos - 1 /\ pos - 1 \in 0 .. Len(File) - 1 /\ Len(File) \in Nat
        BY <1>1, LenType DEF Sent
      <3>3. \A j \in 1 .. Len(File) : File[j] = File[k] => j = k
        BY FileAssumption
      <3>4. CASE pos = 1
        <4>1. SdMayFail \/ File[k] = File[Len(File)]
          BY <3>1, <3>2, <3>4 DEF Caught
        <4>2. Len(File) \in 1 .. Len(File)
          BY <3>2, <3>4, <1>1
        <4> QED BY <3>1, <3>3, <3>4, <4>1, <4>2
      <3>5. CASE pos # 1
        <4>1. pos - 1 \in 1 .. Len(File) /\ pos - 1 < Len(File) /\ pos - 1 + 1 = pos
          BY <1>1, <3>2, <3>5
        <4>2. File[k] = File[pos - 1]
          BY <3>1, <3>2, <4>1 DEF Caught
        <4>3. k = pos - 1
          BY <3>3, <4>1, <4>2
        <4> QED BY <3>1, <4>1, <4>3
      <3> QED BY <3>4, <3>5
    <2> QED BY <1>3, <2>1, <2>2, <2>3
  <1> QED BY <1>4, <1>5 DEF HeardInOrder

OrderInv == Cursor /\ Tuned /\ Caught /\ HeardInOrder

LEMMA TakeIsAlone == Take /\ [Next]_vars => UNCHANGED firmware /\ age' = 0 /\ motor' = motor
  BY DEF Next, Firmware, Main, Strobe, Z80, Tick, Reset, vars, firmware, Take, PollLoad, PollMotor,
         Open, LeadIn, Waited, Fetch, ByteGap, Wait, SendOk, Trailer, Close, program

LEMMA OnlyTakeHears == [Next]_vars /\ ~Take => heard' = heard \/ (heard' = <<>> /\ loader' = "off")
  BY DEF Next, Firmware, Z80, Start, SetMode, SetCommand, MotorOn, PollStatus, MotorOff, SioOff, Tick,
         Reset, vars, program

LEMMA OrderInvHolds ==
    ASSUME ReadWithin < Ticks(ByteGapMs)
    PROVE  Spec => []OrderInv
  <1>1. Init => OrderInv
    <2> SUFFICES ASSUME Init PROVE OrderInv
      OBVIOUS
    <2>1. Cursor
      BY DEF Init, Cursor
    <2>2. Tuned
      BY DEF Init, Tuned
    <2>3. Caught
      BY DEF Init, Caught
    <2>4. Len(heard) = 0
      BY NothingHeard DEF Init
    <2>5. HeardInOrder
      BY <2>4 DEF HeardInOrder
    <2> QED BY <2>1, <2>2, <2>3, <2>5 DEF OrderInv
  <1>2. TypeOK /\ Announced /\ Paced /\ Paced' /\ OrderInv /\ [Next]_vars => OrderInv'
    <2> SUFFICES ASSUME TypeOK, Announced, Paced, Paced', OrderInv, [Next]_vars PROVE OrderInv'
      OBVIOUS
    <2> USE DEF OrderInv
    <2>1. Cursor' /\ Tuned'
      BY CursorMoves, TunedStays
    <2>2. CASE Take
      BY <2>1, <2>2, TakeIsAlone, TakeCatches
    <2>3. CASE ~Take
      <3>1. Caught'
        BY <2>3, CaughtStays
      <3>2. HeardInOrder'
        <4>1. CASE heard' = heard
          BY <4>1 DEF HeardInOrder
        <4>2. CASE heard' = <<>>
          <5>1. Len(heard') = 0
            BY <4>2, NothingHeard
          <5> QED BY <5>1 DEF HeardInOrder
        <4> QED BY <2>3, <4>1, <4>2, OnlyTakeHears
      <3> QED BY <2>1, <3>1, <3>2
    <2> QED BY <2>2, <2>3
  <1> QED BY <1>1, <1>2, AnnouncedCorrect, PacedCorrect, PTL DEF Spec

\* For every image and every program that reads a byte before the 75 ms are over: what it
\* hears is the image in order, nothing twice and nothing left out (main.c:299-309).
THEOREM HeardInOrderCorrect ==
    ASSUME ReadWithin < Ticks(ByteGapMs)
    PROVE  Spec => []HeardInOrder
  <1>1. OrderInv => HeardInOrder
    BY DEF OrderInv
  <1> QED BY <1>1, OrderInvHolds, PTL

-----------------------------------------------------------------------------
(* It is heard from its first byte to its last. *)

Ends == File[Len(File)]

\* Nothing is sent to a program that is clean before it listens; once the last byte is
\* heard, no other is taken.
FromStart ==
    clean =>
        /\ heard = <<>> /\ loader \in {"motor", "listen", "take", "stopping"} => Sent = 0
        /\ heard # <<>> => heard[1] = File[1]
        /\ \A i \in 1 .. Len(heard) - 1 : heard[i] # Ends
        /\ heard # <<>> /\ loader = "take" => Last # Ends

LEMMA HasFirst == ASSUME TypeOK, heard # <<>> PROVE 1 \in 1 .. Len(heard)
  BY DEF TypeOK

\* The first byte taken is the first of the image, the others follow it.
LEMMA TakeFromStart ==
    ASSUME TypeOK, Announced, Paced, Cursor, FromStart, Take, UNCHANGED firmware
    PROVE  FromStart'
  <1> SUFFICES ASSUME clean, clean' = clean PROVE FromStart'
    BY DEF FromStart, Take
  <1>1. /\ O_DATA' = File[pos] /\ pos \in 1 .. Len(File) /\ loader = "take" /\ loader' = "listen"
        /\ r_status = 2 /\ pc # "strobe"
    <2>1. r_status = 2 /\ Z80Access("datr", 0)
      BY DEF Take, Announced
    <2>2. O_DATA' = r_cmt_data
      BY <2>1, Z80AccessEffect
    <2>3. pos \in Nat /\ pos <= Len(File) /\ pos >= 1 /\ r_cmt_data = File[pos] /\ pc # "strobe"
      BY <2>1, LenType DEF Cursor, TypeOK, Paced
    <2> QED BY <2>1, <2>2, <2>3, LenType DEF Take
  <1>2. heard \in Seq(1 .. 63) /\ heard' = Append(heard, File[pos]) /\ File[pos] \in 1 .. 63
    BY <1>1, FileByte DEF Take, TypeOK
  <1>3. /\ Len(heard') = Len(heard) + 1 /\ Len(heard) \in Nat
        /\ heard'[Len(heard) + 1] = File[pos]
        /\ \A i \in 1 .. Len(heard) : heard'[i] = heard[i]
    BY <1>2
  <1>4. heard' # <<>>
    BY <1>2
  <1>5. heard'[1] = File[1]
    <2>1. CASE heard = <<>>
      <3>1. pos - 1 = 0
        BY <1>1, <2>1 DEF FromStart, Sent
      <3>2. pos = 1 /\ Len(heard) = 0
        BY <1>1, <2>1, <3>1, NothingHeard
      <3> QED BY <1>3, <3>2
    <2>2. CASE heard # <<>>
      BY <1>3, <2>2, HasFirst DEF FromStart
    <2> QED BY <2>1, <2>2
  <1>6. ASSUME NEW i \in 1 .. Len(heard') - 1 PROVE heard'[i] # Ends
    <2>1. i \in 1 .. Len(heard) /\ heard'[i] = heard[i]
      BY <1>3
    <2>2. CASE i < Len(heard)
      <3>1. i \in 1 .. Len(heard) - 1
        BY <1>3, <2>1, <2>2
      <3> QED BY <2>1, <3>1 DEF FromStart
    <2>3. CASE i = Len(heard)
      <3>1. heard # <<>> /\ heard[i] = Last
        BY <2>1, <2>3 DEF Last
      <3> QED BY <1>1, <2>1, <3>1 DEF FromStart
    <2> QED BY <1>3, <2>1, <2>2, <2>3
  <1> QED BY <1>1, <1>4, <1>5, <1>6 DEF FromStart, Ends

LEMMA FromStartStays ==
    ASSUME TypeOK, Announced, Paced, Paced', Cursor, Cursor', Tuned, FromStart, [Next]_vars, ~Take
    PROVE  FromStart'
  <1> SUFFICES ASSUME clean' PROVE FromStart'
    BY DEF FromStart
  <1>1. CASE loader' \notin {"motor", "listen", "take", "stopping"}
    <2>1. heard' = <<>>
      <3>1. [Next]_vars => Tuned'
        BY TunedStays
      <3> QED BY <1>1, <3>1 DEF Tuned
    <2>2. Len(heard') = 0
      BY <2>1, NothingHeard
    <2> QED BY <1>1, <2>1, <2>2 DEF FromStart
  <1>2. CASE SetCommand /\ UNCHANGED firmware
    <2>1. Quiet /\ heard' = heard /\ heard = <<>> /\ loader' = "motor"
      BY <1>2 DEF SetCommand, Tuned
    <2>2. r_status' # 2 /\ pc' = pc /\ pos' = 0 /\ pc # "strobe"
      <3>1. pc' = pc /\ pos' = pos /\ pos = 0
        BY <1>2, <2>1 DEF firmware, Cursor
      <3> QED BY <2>1, <3>1 DEF Paced, Quiet
    <2>3. Sent' = 0 /\ Len(heard') = 0
      BY <2>1, <2>2, NothingHeard DEF Sent
    <2> QED BY <2>1, <2>3 DEF FromStart
  <1>3. CASE loader' \in {"motor", "listen", "take", "stopping"} /\ ~SetCommand
    <2>1. /\ clean /\ heard' = heard /\ loader \in {"motor", "listen", "take", "stopping"}
          /\ r_command = LOAD
      BY <1>3, OnlyTakeHears DEF Next, Firmware, Z80, Start, SetMode, MotorOn, PollStatus, MotorOff,
            SioOff, Tick, Reset, vars, program, Tuned
    <2>2. heard = <<>> => Sent' = 0
      <3> SUFFICES ASSUME Sent = 0, heard = <<>> PROVE Sent' = 0
        BY <2>1 DEF FromStart
      <3>1. CASE Strobe
        <4>1. pc = "strobe" /\ pos' = pos /\ McuWrite(c) /\ c \in 1 .. 63
          BY <3>1 DEF Strobe, Announced, TypeOK
        <4>2. r_status' = 2
          BY <2>1, <4>1, McuWriteEffect
        <4> QED BY <4>1, <4>2 DEF Sent
      <3>2. CASE Main /\ UNCHANGED sio
        <4>1. r_status' = r_status
          BY <3>2 DEF sio
        <4>2. CASE Fetch
          BY <4>1, <4>2, LenType DEF Fetch, Sent, TypeOK, Paced, Cursor
        <4>3. CASE Open \/ Close
          BY <4>1, <4>3 DEF Open, Close, Sent, Paced
        <4>4. CASE ~Fetch /\ ~Open /\ ~Close
          BY <3>2, <4>1, <4>4 DEF Main, PollLoad, PollMotor, LeadIn, Waited, ByteGap, SendOk, Trailer,
                                  Wait, Sent
        <4> QED BY <4>2, <4>3, <4>4
      <3>3. CASE ((MotorOn \/ MotorOff) /\ UNCHANGED firmware) \/ Tick \/ UNCHANGED vars
        BY <3>3 DEF MotorOn, MotorOff, Tick, firmware, sio, vars, Sent
      <3>4. CASE PollStatus /\ UNCHANGED firmware
        BY <3>4, Z80AccessEffect DEF PollStatus, firmware, Sent
      <3> QED BY <1>3, <3>1, <3>2, <3>3, <3>4
              DEF Next, Firmware, Z80, Start, SetMode, SioOff, Reset
    <2>3. heard # <<>> /\ loader' = "take" => Last # Ends
      <3> SUFFICES ASSUME heard # <<>>, loader' = "take" PROVE Last # Ends
        OBVIOUS
      <3>1. CASE loader = "take"
        BY <2>1, <3>1 DEF FromStart
      <3>2. CASE loader # "take"
        <4>1. ~Finished
          BY <3>2 DEF Next, Firmware, Z80, Start, SetMode, SetCommand, MotorOn, PollStatus, Take,
                      MotorOff, SioOff, Tick, Reset, vars, program
        <4>2. 1 \in 1 .. Len(heard) /\ heard[1] = File[1]
          BY <2>1, HasFirst DEF FromStart
        <4> QED BY <4>1, <4>2 DEF Finished, Last, Ends
      <3> QED BY <3>1, <3>2
    <2>4. Last' = Last
      BY <2>1 DEF Last
    <2> QED BY <2>1, <2>2, <2>3, <2>4 DEF FromStart, Ends
  <1>4. SetCommand => UNCHANGED firmware
    BY DEF Next, Firmware, Main, Strobe, Z80, Tick, Reset, vars, firmware, SetCommand, PollLoad,
           PollMotor, Open, LeadIn, Waited, Fetch, ByteGap, Wait, SendOk, Trailer, Close, program
  <1> QED BY <1>1, <1>2, <1>3, <1>4

\* For every such program that started while no image was playing: it hears the image from
\* its first byte, and no byte after the last (main.c:283-313).
THEOREM HeardFromStartCorrect ==
    ASSUME ReadWithin < Ticks(ByteGapMs)
    PROVE  Spec => []HeardFromStart
  <1>1. Init => FromStart
    BY DEF Init, FromStart
  <1>2. /\ TypeOK /\ Announced /\ Paced /\ Paced' /\ OrderInv /\ OrderInv' /\ FromStart /\ [Next]_vars
        => FromStart'
    <2> SUFFICES ASSUME TypeOK, Announced, Paced, Paced', OrderInv, OrderInv', FromStart, [Next]_vars
                 PROVE  FromStart'
      OBVIOUS
    <2>1. CASE Take
      BY <2>1, TakeIsAlone, TakeFromStart DEF OrderInv
    <2>2. CASE ~Take
      BY <2>2, FromStartStays DEF OrderInv
    <2> QED BY <2>1, <2>2
  <1>3. FromStart => HeardFromStart
    BY DEF FromStart, HeardFromStart, Ends
  <1> QED BY <1>1, <1>2, <1>3, AnnouncedCorrect, PacedCorrect, OrderInvHolds, PTL DEF Spec

-----------------------------------------------------------------------------
(* The trailer outlasts the program. *)

\* The motor runs only for a program in its loop; and one that has heard all it wants
\* stops while the image is still in its last byte or in its trailer.
Stopping ==
    /\ motor => loader \in {"listen", "take"}
    /\ loader = "take" => ~Finished
    /\ loader = "listen" /\ Finished =>
          /\ pc \in {"fetch", "strobe", "gap", "gapwait", "sendok", "trail", "trailwait"}
          /\ r_status # 2 => age <= StopWithin
          /\ pc = "trailwait" => f_wait_time + age >= Ticks(TrailerMs)

LEMMA NotFinishedAtStart == heard = <<>> => ~Finished
  BY DEF Finished

LEMMA StoppingStays ==
    ASSUME StopWithin < Ticks(TrailerMs),
           TypeOK, Announced, Paced, Paced', Tuned, Tuned', Stopping, [Next]_vars
    PROVE  Stopping'
  <1> USE DEF Stopping
  <1>1. Ticks(TrailerMs) \in Nat /\ StopWithin \in Nat /\ age \in Nat /\ f_wait_time \in Nat
    BY TicksType, TimeAssumption DEF Ticks, TrailerMs, TypeOK
  <1>2. heard' = heard => Finished' = Finished
    BY Zenon DEF Finished
  <1>3. CASE Main /\ UNCHANGED <<sio, motor, program, age>>
    <2>1. UNCHANGED <<motor, loader, age, r_status, heard>>
      BY <1>3 DEF sio, program
    <2> SUFFICES ASSUME loader = "listen", Finished
                 PROVE  /\ pc' \in {"fetch", "strobe", "gap", "gapwait", "sendok", "trail", "trailwait"}
                        /\ pc' = "trailwait" => f_wait_time' + age >= Ticks(TrailerMs)
      BY <1>2, <2>1
    <2>2. CASE Close
      <3>1. f_wait_time = 0 /\ pc = "trailwait" /\ r_status # 2
        BY <2>2 DEF Close, Paced
      <3>2. age <= StopWithin /\ age >= Ticks(TrailerMs)
        BY <1>1, <3>1
      <3> QED BY <1>1, <3>2
    <2>3. CASE Trailer
      BY <1>1, <2>3 DEF Trailer, Wait
    <2>4. CASE ~Close /\ ~Trailer
      BY <1>3, <2>4 DEF Main, PollLoad, PollMotor, Open, LeadIn, ByteGap, Wait, Waited, Fetch, SendOk
    <2> QED BY <2>2, <2>3, <2>4
  <1>4. CASE Strobe /\ UNCHANGED <<motor, program>>
    <2>1. UNCHANGED <<motor, loader, heard>> /\ pc' = "gap" /\ r_status' \in {r_status, 2}
      <3>1. c \in 1 .. 63 /\ McuWrite(c)
        BY <1>4 DEF Strobe, Announced, TypeOK
      <3> QED BY <1>4, <3>1, McuWriteEffect DEF Strobe, program
    <2>2. age' = age \/ age' = 0
      BY <1>4 DEF Strobe
    <2> QED BY <1>1, <1>2, <2>1, <2>2
  <1>5. CASE Take
    <2>1. UNCHANGED firmware /\ age' = 0 /\ motor' = motor /\ loader' = "listen"
      BY <1>5, TakeIsAlone DEF Take
    <2>2. pc \in {"gap", "gapwait"}
      BY <1>5 DEF Take, Announced, Paced
    <2> QED BY <1>1, <2>1, <2>2 DEF firmware
  <1>6. CASE MotorOff /\ UNCHANGED firmware
    BY <1>6 DEF MotorOff
  <1>7. CASE MotorOn /\ UNCHANGED firmware
    <2>1. heard' = heard /\ heard = <<>> /\ loader' = "listen"
      BY <1>7 DEF MotorOn, Tuned
    <2> QED BY <1>2, <2>1, NotFinishedAtStart
  <1>8. CASE PollStatus /\ UNCHANGED firmware
    <2>1. heard' = heard /\ ~Finished /\ motor' = motor /\ loader' \in {"take", "listen"}
      BY <1>8 DEF PollStatus
    <2> QED BY <1>2, <2>1
  <1>9. CASE (Start \/ SetMode \/ SetCommand \/ SioOff) /\ UNCHANGED firmware
    BY <1>9 DEF Start, SetMode, SetCommand, SioOff
  <1>10. CASE Tick
    <2>1. UNCHANGED <<motor, loader, heard, pc, r_status>>
      BY <1>10 DEF Tick, sio, program
    <2> SUFFICES ASSUME loader = "listen", Finished
                 PROVE  /\ r_status # 2 => age' <= StopWithin
                        /\ pc = "trailwait" => f_wait_time' + age' >= Ticks(TrailerMs)
      BY <1>2, <2>1
    <2>2. age' = age + 1 /\ (r_status # 2 => age < StopWithin)
      BY <1>10 DEF Tick, Due, Deadline
    <2>3. f_wait_time' >= f_wait_time - 1 /\ f_wait_time' \in Nat
      BY <1>10, TicksType DEF Tick, CountDown, TypeOK
    <2> QED BY <1>1, <2>2, <2>3
  <1>11. CASE Reset
    BY <1>11 DEF Reset
  <1>12. CASE UNCHANGED vars
    BY <1>2, <1>12 DEF vars, sio, firmware, program
  <1> QED BY <1>3, <1>4, <1>5, <1>6, <1>7, <1>8, <1>9, <1>10, <1>11, <1>12 DEF Next, Firmware, Z80

\* For every program that stops within the trailer: the firmware does not begin to play the
\* image again to a program that has heard it all (main.c:283, 309).
THEOREM PlayedOnceCorrect ==
    ASSUME ReadWithin < Ticks(ByteGapMs), StopWithin < Ticks(TrailerMs)
    PROVE  Spec => PlayedOnce
  <1>1. Init => Stopping
    BY NotFinishedAtStart DEF Init, Stopping
  <1>2. /\ TypeOK /\ Announced /\ Paced /\ Paced' /\ OrderInv /\ OrderInv' /\ Stopping /\ [Next]_vars
        => Stopping'
    BY StoppingStays DEF OrderInv
  <1>3. Stopping /\ [Next]_vars => [pc = "poll2" /\ pc' = "open" => ~(clean /\ Finished)]_vars
    <2> SUFFICES ASSUME Stopping, Next, pc = "poll2", pc' = "open" PROVE ~Finished
      OBVIOUS
    <2>1. motor
      BY DEF Next, Firmware, Main, Strobe, Z80, Tick, Reset, PollLoad, PollMotor, Open, LeadIn, Waited,
             Fetch, ByteGap, Wait, SendOk, Trailer, Close, firmware
    <2> QED BY <2>1 DEF Stopping
  <1> QED BY <1>1, <1>2, <1>3, AnnouncedCorrect, PacedCorrect, OrderInvHolds, PTL
          DEF Spec, PlayedOnce
=============================================================================
