----------------------------- MODULE CmtSystem -----------------------------
(***************************************************************************)
(* Loading a tape: the Nios II firmware (main.c) plays an image from the   *)
(* SD card, byte by byte, into CONTREG_8251, and a Z80 program listens.    *)
(*                                                                         *)
(* Three actors share the SIO's registers and the motor latch: the main    *)
(* loop of the firmware, its 1 ms timer interrupt, and the Z80.  The SIO   *)
(* is the transaction-level one, Sio8251, that the clocked Contreg8251     *)
(* implements: a bus cycle or a strobe is one step.                        *)
(*                                                                         *)
(* The Z80 program is external: N-BASIC's CLOAD is a ROM image.  What the  *)
(* model keeps of it is its port accesses - reset, mode, command, motor,   *)
(* then status polls and data reads - and two bounds on its pace, because  *)
(* the firmware relies on the clock and not on a handshake.                *)
(*                                                                         *)
(* Time: Tick is MsPerTick milliseconds; the waits of main.c keep their    *)
(* length in milliseconds, rounded up to ticks.                            *)
(***************************************************************************)
EXTENDS Naturals, Sequences

CONSTANTS
    File,         \* the bytes of /de0/de0_test.cmt, all different
    MsPerTick,    \* milliseconds in a tick of the model
    ReadWithin,   \* ticks the Z80 may leave an announced byte unread
    StopWithin,   \* ticks after the last byte until the Z80's program stops
    Hands,        \* what the person at the machine does: of {"stop", "reset"}
    SdMayFail     \* the card may fail to open or to read the file

ASSUME FileAssumption ==
    /\ File \in Seq(1 .. 63) /\ Len(File) >= 1
    /\ \A i, j \in 1 .. Len(File) : File[i] = File[j] => i = j
ASSUME TimeAssumption ==
    /\ MsPerTick \in Nat \ {0}
    /\ ReadWithin \in Nat /\ StopWithin \in Nat
ASSUME HandsAssumption == Hands \subseteq {"stop", "reset"} /\ SdMayFail \in BOOLEAN

VARIABLES
    \* the SIO and the motor latch of pc.v
    r_state, r_command, r_status, r_cmt_data, O_DATA, O_CONTROL_DATA, motor,
    \* the firmware: program counter, timer count, bytes of the file read, the byte c
    pc, f_wait_time, pos, c,
    \* the Z80's program: where it is, and ticks since it last had something to do
    loader, age,
    \* what the program heard since it started, and whether it started while no
    \* image was playing
    heard, clean

sio      == <<r_state, r_command, r_status, r_cmt_data, O_DATA, O_CONTROL_DATA>>
firmware == <<pc, f_wait_time, pos, c>>
program  == <<loader, heard, clean>>
vars     == <<sio, motor, firmware, program, age>>

\* Bytes: 0, the file's, and the two command bytes with a bit the SIO acts on.
IR   == 64
LOAD == 4 + 128
Byte == 0 .. 63 \cup {IR, LOAD}

Sio == INSTANCE Sio8251 WITH
    Zero <- 0, IrBytes <- {IR}, RxeBytes <- {LOAD},
    FileBytes <- 1 .. 63, Strobes <- {"write"},
    O_MCU_DATA <- 0, got <- 0,
    z80 <- [op |-> "none", data |-> 0, served |-> TRUE],
    mcu <- [op |-> "none", data |-> 0, phase |-> "none"]

\* The waits of main.c, in milliseconds: before the first byte, after each byte,
\* after the last one.
LeadInMs  == 2500
NoGapMs   == 0                           \* mutant: no wait after a byte
ByteGapMs == 75
ShortMs   == 1300                        \* mutant: what the comment says
TrailerMs == 13000

Ticks(ms) == (ms + MsPerTick - 1) \div MsPerTick

\* The firmware's places in main(), in order; "undefined" is a call on a NULL FILE.
Places == {"poll", "poll2", "open", "lead", "leadwait", "fetch", "strobe",
           "gap", "gapwait", "sendok", "trail", "trailwait", "undefined"}

\* Not a byte of the image has been sent yet.
Quiet == pc \in {"poll", "poll2", "open", "lead", "leadwait"}

TypeOK ==
    /\ r_state \in {"MODE", "CMD"} /\ r_command \in {0, LOAD}
    /\ r_status \in {0, 2} /\ O_CONTROL_DATA \in {0, 2}
    /\ r_cmt_data \in Byte /\ O_DATA \in Byte /\ motor \in BOOLEAN
    /\ pc \in Places /\ f_wait_time \in 0 .. Ticks(TrailerMs)
    /\ pos \in 0 .. Len(File) /\ c \in 0 .. 63
    /\ loader \in {"off", "mode", "command", "motor", "listen", "take", "stopping"}
    /\ age \in 0 .. ReadWithin + StopWithin
    /\ heard \in Seq(1 .. 63) /\ clean \in BOOLEAN

Init ==
    /\ r_state = "MODE" /\ r_command = 0 /\ r_status = 0 /\ r_cmt_data = 0
    /\ O_DATA = 0 /\ O_CONTROL_DATA = 0 /\ motor = FALSE
    /\ pc = "poll" /\ f_wait_time = 0 /\ pos = 0 /\ c = 0
    /\ loader = "off" /\ age = 0 /\ heard = <<>> /\ clean = FALSE

-----------------------------------------------------------------------------
(* The SIO, one transaction at a time. *)

Z80Access(op, byte) ==
    \/ Sio!Resets(op, byte) /\ Sio!ClearRegs
    \/ /\ ~Sio!Resets(op, byte)
       /\ Sio!ControlPort(op, byte) /\ Sio!DataPort(op, byte, "none", 0)
       /\ r_state' = IF op = "ctlw" THEN "CMD" ELSE r_state

McuWrite(byte) ==
    /\ Sio!ControlPort("none", 0) /\ Sio!DataPort("none", 0, "write", byte)
    /\ UNCHANGED r_state

O_CMT_LOAD == r_command = LOAD

-----------------------------------------------------------------------------
(* The firmware. *)

\* P_CMT_GPIO_RD() is read twice, once for LOAD and once for MOTOR.
PollLoad ==
    /\ pc = "poll" /\ O_CMT_LOAD
    /\ pc' = "poll2"
    /\ UNCHANGED <<f_wait_time, pos, c>>

PollMotor ==
    /\ pc = "poll2"
    /\ pc' = IF motor THEN "open" ELSE "poll"
    /\ UNCHANGED <<f_wait_time, pos, c>>

\* Where fopen fails the firmware prints "nofiles" and goes on with fseek(NULL).
Open ==
    /\ pc = "open"
    /\ pc' \in {"lead"} \cup (IF SdMayFail THEN {"undefined"} ELSE {})
    /\ pos' = 0
    /\ UNCHANGED <<f_wait_time, c>>

\* f_wait_time = time, the first half of wait_ms().
Wait(at, ms, then) ==
    /\ pc = at
    /\ f_wait_time' = Ticks(ms)
    /\ pc' = then
    /\ UNCHANGED <<pos, c>>

LeadIn  == Wait("lead", LeadInMs, "leadwait")
ByteGap == Wait("gap", ByteGapMs, "gapwait")
Trailer == Wait("trail", TrailerMs, "trailwait")

\* while( f_wait_time != 0 ), the second half.
Waited(at, then) ==
    /\ pc = at /\ f_wait_time = 0
    /\ pc' = then
    /\ UNCHANGED <<f_wait_time, pos, c>>

\* fgetc: the next byte, or EOF at the end of the file and where the card fails.
Fetch ==
    /\ pc = "fetch"
    /\ \/ /\ pos < Len(File)
          /\ pos' = pos + 1 /\ c' = File[pos + 1] /\ pc' = "strobe"
       \/ /\ pos = Len(File) \/ SdMayFail
          /\ pc' = "trail" /\ UNCHANGED <<pos, c>>
    /\ UNCHANGED f_wait_time

\* P_CMT_GPIO_WR(ASSERT), P_CMT_DOUT_WR(c), P_CMT_GPIO_WR(NEGATE).
Strobe ==
    /\ pc = "strobe"
    /\ McuWrite(c)
    /\ pc' = "gap"
    /\ age' = IF r_status = 2 THEN age ELSE 0
    /\ UNCHANGED <<f_wait_time, pos, c>>

\* while( P_CMT_GPIO_RD() & P_CMT_TxRDY ): bit 1 of the port is r_status[0].
RxRdyBit == r_status = 2                 \* mutant: the bit that would wait
TxRdyBit == r_status % 2 = 1

SendOk ==
    /\ pc = "sendok" /\ ~TxRdyBit
    /\ pc' = "fetch"
    /\ UNCHANGED <<f_wait_time, pos, c>>

Close ==
    /\ pc = "trailwait" /\ f_wait_time = 0
    /\ pc' = "poll" /\ pos' = 0 /\ c' = 0
    /\ UNCHANGED f_wait_time

\* All of main() that does not touch the SIO.
Main == PollLoad \/ PollMotor \/ Open \/ LeadIn \/ Waited("leadwait", "fetch") \/ Fetch
        \/ ByteGap \/ Waited("gapwait", "sendok") \/ SendOk \/ Trailer \/ Close

Firmware == \/ Main /\ UNCHANGED <<sio, motor, program, age>>
            \/ Strobe /\ UNCHANGED <<motor, program>>

-----------------------------------------------------------------------------
(* The Z80's program: external, seen through its port accesses. *)

\* It has heard the image from its first byte to its last; or it gives up.
Finished == /\ heard # <<>>
            /\ \/ /\ heard[Len(heard)] = File[Len(File)]
                  /\ \E i \in 1 .. Len(heard) : heard[i] = File[1]
               \/ Len(heard) >= 2 * Len(File)

Start == /\ loader = "off" /\ loader' = "mode"
         /\ Z80Access("ctlw", IR)
         /\ UNCHANGED <<motor, heard, clean, age>>

SetMode == /\ loader = "mode" /\ loader' = "command"
           /\ \E byte \in {0, LOAD} : Z80Access("ctlw", byte)
           /\ clean' = Quiet
           /\ UNCHANGED <<motor, heard, age>>

SetCommand == /\ loader = "command" /\ loader' = "motor"
              /\ Z80Access("ctlw", LOAD)
              /\ clean' = (clean /\ Quiet)
              /\ UNCHANGED <<motor, heard, age>>

MotorOn == /\ loader = "motor" /\ loader' = "listen"
           /\ motor' = TRUE
           /\ UNCHANGED <<sio, heard, clean, age>>

PollStatus == /\ loader = "listen" /\ ~Finished
              /\ Z80Access("ctlr", 0)
              /\ loader' = IF O_CONTROL_DATA' = 2 THEN "take" ELSE "listen"
              /\ UNCHANGED <<motor, heard, clean, age>>

Take == /\ loader = "take" /\ loader' = "listen"
        /\ Z80Access("datr", 0)
        /\ heard' = Append(heard, O_DATA')
        /\ age' = 0
        /\ UNCHANGED <<motor, clean>>

MotorOff == /\ \/ loader = "listen" /\ Finished
               \/ "stop" \in Hands /\ loader \in {"motor", "listen", "take"}
            /\ loader' = "stopping"
            /\ motor' = FALSE
            /\ UNCHANGED <<sio, heard, clean, age>>

SioOff == /\ loader = "stopping" /\ loader' = "off"
          /\ Z80Access("ctlw", IR)
          /\ heard' = <<>> /\ clean' = FALSE /\ age' = 0
          /\ UNCHANGED motor

Z80 == /\ \/ Start \/ SetMode \/ SetCommand \/ MotorOn
          \/ PollStatus \/ Take \/ MotorOff \/ SioOff
       /\ UNCHANGED firmware

-----------------------------------------------------------------------------
(* Time, and the reset button. *)

\* How long the Z80's program may leave what it has to do now.
Deadline == IF r_status = 2 THEN ReadWithin ELSE StopWithin
Due == loader # "off" /\ (r_status = 2 \/ Finished)

\* if( f_wait_time>0) --f_wait_time;
CountAround == IF f_wait_time > 0 THEN f_wait_time - 1 ELSE Ticks(TrailerMs)     \* mutant
CountDown   == IF f_wait_time > 0 THEN f_wait_time - 1 ELSE 0

\* alt_timer_Interrupt(), MsPerTick times.
Tick ==
    /\ Due => age < Deadline
    /\ age' = IF Due THEN age + 1 ELSE 0
    /\ f_wait_time' = CountDown
    /\ UNCHANGED <<sio, motor, pc, pos, c, program>>

\* The button resets the SIO, the motor, the Z80 and the Nios II.
Reset ==
    /\ "reset" \in Hands
    /\ Sio!ClearRegs /\ motor' = FALSE
    /\ pc' = "poll" /\ f_wait_time' = 0 /\ pos' = 0 /\ c' = 0
    /\ loader' = "off" /\ age' = 0 /\ heard' = <<>> /\ clean' = FALSE

Next == Firmware \/ Z80 \/ Tick \/ Reset

Spec == Init /\ [][Next]_vars

\* The processors run and the timer ticks; nothing says the Z80 ever asks for a tape.
Fairness == /\ WF_vars(Firmware) /\ WF_vars(Tick)
            /\ WF_vars(Z80 /\ loader # "off")

FairSpec == Spec /\ Fairness

-----------------------------------------------------------------------------
(* Properties. *)

\* What the Z80's program may rely on: the SIO is off until it is told otherwise,
\* a byte it was promised is still there, and is one of the image's
\* (8251ContReg.v:206-266, main.c:299-305).
Announced ==
    /\ loader \in {"off", "mode"} => r_command = 0 /\ r_status # 2
    /\ loader \notin {"off", "mode"} => r_state = "CMD"
    /\ loader = "take" => r_status = 2
    /\ pc = "strobe" => c # 0
    /\ r_status = 2 => r_cmt_data \in 1 .. 63

\* Why the clock can stand in for a handshake: a byte is announced only while its
\* 75 ms run, and together with the time the Z80 has left it unread they still
\* make up the 75 ms (main.c:302-307).
Paced ==
    /\ r_status = 2 => age <= ReadWithin /\ pc \in {"gap", "gapwait"}
    /\ r_status = 2 /\ pc = "gapwait" => f_wait_time + age >= Ticks(ByteGapMs)

\* What the program hears is the image in order, nothing twice and nothing left
\* out: after a byte comes the next one of the file, or the first where the
\* playing ended, at the end of the file or where the card failed, and another
\* began (main.c:299-309).
HeardInOrder ==
    \A i \in 1 .. Len(heard) - 1 : \A k \in 1 .. Len(File) :
        heard[i] = File[k] =>
            \/ k < Len(File) /\ heard[i + 1] = File[k + 1]
            \/ (k = Len(File) \/ SdMayFail) /\ heard[i + 1] = File[1]

\* A program that started while no image was playing hears it from its first
\* byte, and never hears another playing after the last byte: it stops within the
\* trailer (main.c:283-313).
HeardFromStart ==
    clean /\ heard # <<>> =>
        /\ heard[1] = File[1]
        /\ \A i \in 1 .. Len(heard) - 1 : heard[i] # File[Len(File)]

\* The trailer outlasts the program: the firmware does not begin to play the
\* image again to a program that has heard it all (main.c:283, 309).
PlayedOnce == [][pc = "poll2" /\ pc' = "open" => ~(clean /\ Finished)]_vars

\* "wait for send ok" (main.c:307): the firmware leaves the loop for the next
\* byte only when the Z80 has taken the one before, or does not listen.
SendOkWaits == [][SendOk => r_status # 2]_vars

\* An image once started is played to its end, whatever the Z80 does meanwhile,
\* and the firmware polls again (main.c:283-329).
PlayEnds == pc = "open" ~> pc = "poll"

\* A program that waits for an image hears all of it, unless the STOP key cuts it
\* short; and the motor is turned off.
LoadCompletes ==
    /\ loader = "listen" /\ clean ~> \/ loader = "listen" /\ heard = File
                                     \/ loader = "stopping" /\ ~Finished
    /\ motor ~> ~motor
=============================================================================
