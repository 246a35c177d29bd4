-------------------------------- MODULE Ps2 --------------------------------
(***************************************************************************)
(* The PS/2 receiver (ps2.v) and the poller that empties it                *)
(* (keyborad.v:134-160), clock by clock.                                   *)
(*                                                                         *)
(* A step is one rising edge of I_CLK.  The keyboard is external: it puts  *)
(* a bit on IO_PS2DATA while IO_PS2CLK is high and lowers the clock, eleven*)
(* times for a byte: a start bit 0, eight bits from the lowest, the parity *)
(* bit and a stop bit 1.  Each phase of its clock is at least MinPhase     *)
(* steps long (30 us, 750 steps, on the real line).                        *)
(*                                                                         *)
(* Left out are the states that send (CLKLOW, STBIT, SENDBIT): they are    *)
(* entered by a write to address 2, and the poller writes to address 0     *)
(* only.  The register empty is written and never read.  Of sft the eight  *)
(* bits that are read are kept.                                            *)
(***************************************************************************)
EXTENDS Naturals

CONSTANTS
    Code,         \* the bytes the keyboard sends
    None,
    MinPhase      \* least number of steps in a phase of IO_PS2CLK

ASSUME CodeAssumption  == Code \subseteq 0 .. 255 /\ None \notin 0 .. 255
ASSUME PhaseAssumption == MinPhase \in Nat /\ MinPhase >= 2

VARIABLES
    \* the keyboard: byte being sent, number of its bit, steps since the pins changed
    sending, n, age, IO_PS2CLK, IO_PS2DATA,
    \* the receiver
    sreg, cur, bitcnt, sft, valid, ps2rdata,
    \* the poller
    r_ps2_addr, r_ps2_data_en, r_ps2_write_en, r_ps2_state,
    \* history: the byte begun and not yet handed over
    owed

line     == <<sending, n, age, IO_PS2CLK, IO_PS2DATA>>
receiver == <<sreg, cur, bitcnt, sft, valid, ps2rdata>>
poller   == <<r_ps2_addr, r_ps2_data_en, r_ps2_write_en, r_ps2_state>>
vars     == <<line, receiver, poller, owed>>

BitOf(byte, i) == (byte \div 2^i) % 2

\* Odd parity over the eight bits.
Parity(byte) ==
    (1 + BitOf(byte, 0) + BitOf(byte, 1) + BitOf(byte, 2) + BitOf(byte, 3)
       + BitOf(byte, 4) + BitOf(byte, 5) + BitOf(byte, 6) + BitOf(byte, 7)) % 2

FrameBit(byte, i) ==
    IF i = 0 THEN 0
    ELSE IF i \in 1 .. 8 THEN BitOf(byte, i - 1)
    ELSE IF i = 9 THEN Parity(byte)
    ELSE 1

\* {sreg[1:0], IO_PS2CLK}, and sreg[2] & ~sreg[1].
clkfall == sreg \div 2 = 2

\* The status register in one address, the byte in the other.
w_ps2_data == IF r_ps2_addr = "STATUS" THEN valid ELSE ps2rdata

TypeOK ==
    /\ sending \in Code \cup {None} /\ owed \in Code \cup {None}
    /\ n \in 0 .. 10 /\ age \in 0 .. MinPhase
    /\ IO_PS2CLK \in {0, 1} /\ IO_PS2DATA \in {0, 1}
    /\ sreg \in 0 .. 7 /\ bitcnt \in 0 .. 15
    /\ cur \in {"HALT", "GETBIT", "SETFLG", "WAITCLK"}
    /\ sft \in 0 .. 255 /\ ps2rdata \in 0 .. 255 /\ valid \in {0, 1}
    /\ r_ps2_addr \in {"STATUS", "READ"}
    /\ r_ps2_data_en \in {0, 1} /\ r_ps2_write_en \in {0, 1}
    /\ r_ps2_state \in 0 .. 2

Init ==
    /\ sending = None /\ n = 0 /\ age = 0 /\ IO_PS2CLK = 1 /\ IO_PS2DATA = 1
    /\ sreg = 0 /\ cur = "HALT" /\ bitcnt = 0 /\ sft = 0 /\ valid = 0 /\ ps2rdata = 0
    /\ r_ps2_addr = "STATUS" /\ r_ps2_data_en = 0
    /\ r_ps2_write_en = 0 /\ r_ps2_state = 0
    /\ owed = None

-----------------------------------------------------------------------------
(* The keyboard's half of a step. *)

Rest ==
    /\ age' = IF age < MinPhase THEN age + 1 ELSE age
    /\ UNCHANGED <<sending, n, IO_PS2CLK, IO_PS2DATA>>

StartBit ==
    /\ sending = None /\ age = MinPhase
    /\ sending' \in Code
    /\ n' = 0 /\ age' = 0 /\ IO_PS2DATA' = 0
    /\ UNCHANGED IO_PS2CLK

ClockLow ==
    /\ sending # None /\ age = MinPhase /\ IO_PS2CLK = 1
    /\ IO_PS2CLK' = 0 /\ age' = 0
    /\ UNCHANGED <<sending, n, IO_PS2DATA>>

\* With the clock's rising edge comes the next bit, or the line is idle.
ClockHigh ==
    /\ age = MinPhase /\ IO_PS2CLK = 0
    /\ IO_PS2CLK' = 1 /\ age' = 0
    /\ \/ /\ n < 10 /\ n' = n + 1
          /\ IO_PS2DATA' = FrameBit(sending, n + 1)
          /\ UNCHANGED sending
       \/ /\ n = 10 /\ n' = 0
          /\ IO_PS2DATA' = 1 /\ sending' = None

Pins == Rest \/ StartBit \/ ClockLow \/ ClockHigh

-----------------------------------------------------------------------------
(* The receiver's. *)

TwoBitsLate == bitcnt = 9                   \* mutant: waits for two bits more
LastBit     == bitcnt = 7

nxt ==
    IF cur = "HALT" /\ clkfall /\ IO_PS2DATA = 0 THEN "GETBIT"
    ELSE IF cur = "GETBIT" /\ clkfall /\ LastBit THEN "SETFLG"
    ELSE IF cur = "SETFLG" /\ clkfall THEN "WAITCLK"
    ELSE IF cur = "WAITCLK" /\ clkfall THEN "HALT"
    ELSE cur

ClearsValid == r_ps2_addr = "STATUS" /\ r_ps2_write_en = 1

Sampled == (2 * sreg + IO_PS2CLK) % 8

Receive ==
    /\ sreg' = Sampled
    /\ cur' = nxt
    /\ bitcnt' = IF cur = "HALT" THEN 0
                  ELSE IF cur = "GETBIT" /\ clkfall THEN (bitcnt + 1) % 16
                  ELSE bitcnt
    /\ sft' = IF cur = "GETBIT" /\ clkfall THEN 128 * IO_PS2DATA + sft \div 2 ELSE sft
    /\ valid' = IF ClearsValid THEN 0
                 ELSE IF cur = "SETFLG" /\ clkfall THEN 1
                 ELSE valid
    /\ ps2rdata' = IF cur = "SETFLG" /\ clkfall THEN sft ELSE ps2rdata

-----------------------------------------------------------------------------
(* The poller's, and the whole step. *)

\* State 0 sees valid, state 1 has the byte on the bus and clears valid, state 2
\* takes the write back.
KeepsValid == IF r_ps2_state = 2 THEN 0 ELSE r_ps2_write_en     \* mutant: no clear
WriteEn    == IF r_ps2_state = 1 THEN 1 ELSE KeepsValid

Poll ==
    /\ r_ps2_write_en' = WriteEn
    /\ \/ /\ r_ps2_state = 0 /\ w_ps2_data % 2 = 1
          /\ r_ps2_addr' = "READ" /\ r_ps2_data_en' = 1 /\ r_ps2_state' = 1
       \/ /\ r_ps2_state = 0 /\ w_ps2_data % 2 = 0
          /\ UNCHANGED <<r_ps2_addr, r_ps2_data_en, r_ps2_state>>
       \/ /\ r_ps2_state = 1
          /\ r_ps2_addr' = "STATUS" /\ r_ps2_data_en' = 0 /\ r_ps2_state' = 2
       \/ /\ r_ps2_state = 2 /\ r_ps2_state' = 0
          /\ UNCHANGED <<r_ps2_addr, r_ps2_data_en>>

Owe == owed' = IF sending = None /\ sending' # None THEN sending'
               ELSE IF r_ps2_data_en' = 1 THEN None
               ELSE owed

Clock == Pins /\ Receive /\ Poll /\ Owe

\* The reset button, while the line is idle.  A reset in the middle of a frame takes
\* the receiver out of step with the line, and it has no time-out to find back.
Idle == sending = None /\ age = MinPhase

Reset ==
    /\ Idle
    /\ sreg' = 0 /\ cur' = "HALT" /\ bitcnt' = 0 /\ sft' = 0 /\ valid' = 0 /\ ps2rdata' = 0
    /\ r_ps2_addr' = "STATUS" /\ r_ps2_data_en' = 0
    /\ r_ps2_write_en' = 0 /\ r_ps2_state' = 0
    /\ owed' = None
    /\ UNCHANGED line

Next == Clock \/ Reset

Spec == Init /\ [][Next]_vars

\* The crystal runs, and the keyboard ends a byte it has begun; it need not begin one.
Fairness == WF_vars(Clock /\ Rest) /\ WF_vars(Clock /\ (ClockLow \/ ClockHigh))

FairSpec == Spec /\ Fairness

-----------------------------------------------------------------------------
(* Properties. *)

\* Every byte sent is handed to the keyboard controller once, unchanged and in
\* order, in a pulse of one clock: the hand-over of ps2.v:165-202 to
\* keyborad.v:134-160 implements Ps2Link.
Link == INSTANCE Ps2Link WITH
    code <- IF r_ps2_data_en = 1 THEN w_ps2_data ELSE None

HandsOver == Link!Spec

\* Between two frames the receiver waits in HALT with a cleared bit counter and has
\* nothing left to hand over: the eleven edges it counts are the eleven of one frame
\* (ps2.v:109-163).
InStep ==
    Idle /\ sreg = 7 => cur = "HALT" /\ bitcnt \in {0, 8} /\ valid = 0 /\ owed = None

\* A byte once begun arrives (ps2.v:121-163, keyborad.v:134-160).
Arrives == owed # None ~> owed = None
=============================================================================
