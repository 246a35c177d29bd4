------------------------------- MODULE MmcSpi -------------------------------
(***************************************************************************)
(* The SPI interface (avalonif_mmc.v), clock by clock, under the byte      *)
(* routines of mmc_spi.c.                                                  *)
(*                                                                         *)
(* A step is one rising edge of clk, in which the processor makes at most  *)
(* one access to the registers.  The interface takes writes to its status  *)
(* and divider registers while it is IDLE only, and the program writes     *)
(* some of them without looking.                                           *)
(*                                                                         *)
(* The card is external: it samples MMC_SDO where MMC_SCK rises, gives its *)
(* next bit where it falls, and starts a byte anew when it is deselected.  *)
(* A byte is the sequence of its bits, bit 7 first.  The interrupt (never  *)
(* enabled) and the card-detect pins are left out.                         *)
(***************************************************************************)
EXTENDS Naturals, Sequences

CONSTANTS
    Byte,                  \* the bytes sent and given, FFh among them
    None,
    IdentDiv, TransDiv,    \* clock dividers: 50 and 1 (mmc_spi.c:137-147)
    Wait                   \* mmc_timecount_100us

Ones == <<1, 1, 1, 1, 1, 1, 1, 1>>

ASSUME ByteAssumption == Byte \subseteq [1 .. 8 -> {0, 1}] /\ Ones \in Byte /\ None \notin Byte
ASSUME NoneAssumption == None \notin [ncs : SUBSET {0, 1}, byte : [1 .. 8 -> {0, 1}]]
ASSUME DivAssumption  == IdentDiv \in 0 .. 255 /\ TransDiv \in 0 .. 255 /\ Wait \in Nat

VARIABLES
    \* the interface
    state, bitcount, divref_reg, divcount, rxddata, txddata, exit_reg, ncs_reg,
    sck_reg, sdo_reg, frc_reg,
    \* the program: place in mmc_spi.c, byte to send, its static variable, results
    pc, data, mmc_spi_ncs, ret,
    \* the card: bits sampled of the byte in transfer, selects seen, the byte it gives
    sampled, selects, give,
    \* history: the byte the card gave last, the divider asked for, the clocks since the
    \* timer was set
    reply, div, elapsed

interface == <<state, bitcount, divref_reg, divcount, rxddata, txddata, exit_reg,
               ncs_reg, sck_reg, sdo_reg, frc_reg>>
program   == <<pc, data, mmc_spi_ncs, ret>>
card      == <<sampled, selects, give, reply>>
vars      == <<interface, program, card, div, elapsed>>

TypeOK ==
    /\ state \in {"IDLE", "SDO", "SDI", "DONE"} /\ bitcount \in 0 .. 8
    /\ divref_reg \in 0 .. 255 /\ divcount \in 0 .. 255
    /\ {rxddata, txddata} \subseteq [1 .. 8 -> {0, 1}]
    /\ {exit_reg, ncs_reg, sck_reg, sdo_reg, mmc_spi_ncs} \subseteq {0, 1}
    /\ frc_reg \in 0 .. Wait /\ elapsed \in 0 .. Wait
    /\ pc \in {"ready", "send", "send start", "recv", "recv start", "recv poll",
               "init", "init cs", "init clock", "trans clock", "wait", "wait poll"}
    /\ data \in Byte /\ ret \in [1 .. 8 -> {0, 1}] \cup {None}
    /\ sampled \in Seq({0, 1}) /\ Len(sampled) <= 7
    /\ selects \subseteq {0, 1} /\ give \in Byte

Init ==
    /\ state = "IDLE" /\ divref_reg = 255 /\ exit_reg = 1 /\ ncs_reg = 1
    /\ sck_reg = 1 /\ sdo_reg = 1 /\ frc_reg = 0
    /\ bitcount = 0 /\ divcount = 0 /\ txddata \in Byte /\ rxddata \in Byte
    /\ pc = "init" /\ data = Ones /\ mmc_spi_ncs = 0 /\ ret = None
    /\ sampled = <<>> /\ selects = {} /\ give = Ones /\ reply = Ones
    /\ div = 255 /\ elapsed = 0

-----------------------------------------------------------------------------
(* avalonif_mmc.v: what one access does, and one clock. *)

NoWrite         == [reg |-> "none"]
Status(e, c, b) == [reg |-> "status", exit |-> e, ncs |-> c, byte |-> b]
ClkDiv(d)       == [reg |-> "clkdiv", div |-> d]
Timer(t)        == [reg |-> "timer", count |-> t]

Shift(reg, bit) == Append(Tail(reg), bit)
MMC_SDI         == IF ncs_reg = 1 THEN 1 ELSE give[Len(sampled) + 1]

Idle(w) ==
    /\ state = "IDLE"
    /\ IF w.reg = "status"
       THEN /\ ncs_reg' = w.ncs /\ txddata' = w.byte
            /\ IF w.exit = 0
               THEN state' = "SDO" /\ bitcount' = 0 /\ divcount' = divref_reg /\ exit_reg' = 0
               ELSE UNCHANGED <<state, bitcount, divcount, exit_reg>>
       ELSE UNCHANGED <<state, bitcount, divcount, exit_reg, ncs_reg, txddata>>
    /\ divref_reg' = IF w.reg = "clkdiv" THEN w.div ELSE divref_reg
    /\ UNCHANGED <<rxddata, sck_reg, sdo_reg, card>>

Hold == /\ divcount > 0 /\ divcount' = divcount - 1
        /\ UNCHANGED <<state, bitcount, txddata, rxddata, exit_reg, sck_reg, sdo_reg, card>>

\* Falling edge: the interface puts its bit out, and so does the card.
BitOut ==
    /\ state = "SDO" /\ divcount = 0
    /\ state' = "SDI" /\ divcount' = divref_reg /\ sck_reg' = 1 - sck_reg
    /\ sdo_reg' = Head(txddata) /\ txddata' = Shift(txddata, 0)
    /\ IF sampled = <<>> THEN give' \in Byte ELSE UNCHANGED give
    /\ UNCHANGED <<bitcount, rxddata, exit_reg, sampled, selects, reply>>

EighthBit == bitcount = 7

\* Rising edge: both sample.
BitIn ==
    LET bits == Append(sampled, sdo_reg)
        cs   == selects \cup {ncs_reg} IN
    /\ state = "SDI" /\ divcount = 0
    /\ state' = IF EighthBit THEN "DONE" ELSE "SDO"
    /\ bitcount' = bitcount + 1 /\ divcount' = divref_reg /\ sck_reg' = 1 - sck_reg
    /\ rxddata' = Shift(rxddata, MMC_SDI)
    /\ IF Len(bits) < 8
       THEN sampled' = bits /\ selects' = cs /\ UNCHANGED <<give, reply>>
       ELSE sampled' = <<>> /\ selects' = {} /\ give' = Ones
            /\ reply' = IF ncs_reg = 1 THEN Ones ELSE give
    /\ UNCHANGED <<txddata, exit_reg, sdo_reg>>

ExitStays == exit_reg                          \* mutant: the end is not signalled
ExitSet   == 1

Done ==
    /\ state = "DONE" /\ divcount = 0
    /\ state' = "IDLE" /\ sck_reg' = 1 /\ sdo_reg' = 1 /\ exit_reg' = ExitSet
    /\ UNCHANGED <<bitcount, divcount, txddata, rxddata, card>>

\* mutant: the timer is written like the other registers
TimerIdle(w) == frc_reg' = IF w.reg = "timer" /\ state = "IDLE" THEN w.count
                           ELSE IF frc_reg # 0 THEN frc_reg - 1 ELSE 0
FreeRun(w) == frc_reg' = IF w.reg = "timer" THEN w.count
                         ELSE IF frc_reg # 0 THEN frc_reg - 1 ELSE 0

NcsAnyTime(w)    == IF w.reg = "status" THEN w.ncs ELSE ncs_reg     \* mutant: always written
NcsInTransfer(w) == ncs_reg

Transfer(w) ==
    /\ state # "IDLE"
    /\ Hold \/ BitOut \/ BitIn \/ Done
    /\ ncs_reg' = NcsInTransfer(w)
    /\ UNCHANGED divref_reg

Avalon(w) == Idle(w) \/ Transfer(w)

-----------------------------------------------------------------------------
(* mmc_spi.c: one access to the registers a step. *)

Goto(p)  == pc' = p /\ UNCHANGED <<data, mmc_spi_ncs, ret>>
Sent == pc' = "ready" /\ data' = Ones /\ UNCHANGED <<mmc_spi_ncs, ret>>
SetNcs(c, p) == mmc_spi_ncs' = c /\ pc' = p /\ UNCHANGED <<data, ret>>

AnyTime == TRUE                                \* mutant: after a byte still in transfer
\* Where the card layer calls: SetTransClock right after deselect (mmcbb.c:461-463),
\* whose Recvbyte has seen the transfer end.
ClockMayChange == state = "IDLE"

Call ==
    /\ pc = "ready"
    /\ \/ pc' \in {"recv", "init", "wait"} /\ UNCHANGED data
       \/ pc' = "send" /\ data' \in Byte
       \/ ClockMayChange /\ pc' = "trans clock" /\ UNCHANGED data
    /\ ret' = None /\ UNCHANGED mmc_spi_ncs

\* while( !(IORD(status) & mmc_commexit) ) {}, before a byte and after it.
CommExit  == exit_reg = 1

NoAwait ==                                     \* mutant: a byte is started in a transfer
    \E p \in {<<"send", "send start">>, <<"recv", "recv start">>, <<"init", "init cs">>} :
        pc = p[1] /\ Goto(p[2])

AwaitExit ==
    \E p \in {<<"send", "send start">>, <<"recv", "recv start">>, <<"init", "init cs">>} :
        pc = p[1] /\ CommExit /\ Goto(p[2])

Poll == pc = "recv poll" /\ CommExit /\ pc' = "ready" /\ ret' = rxddata
        /\ UNCHANGED <<data, mmc_spi_ncs>>

WaitOver == pc = "wait poll" /\ frc_reg = 0 /\ Goto("ready")

\* A clock in which the processor writes w, or nothing.
Clock(w) ==
    /\ Avalon(w) /\ FreeRun(w)
    /\ div' = IF w.reg = "clkdiv" THEN w.div ELSE div
    /\ elapsed' = IF pc' # "wait poll" \/ w.reg = "timer" THEN 0
                  ELSE IF elapsed < Wait THEN elapsed + 1 ELSE elapsed

Access ==
    \/ (Call \/ AwaitExit \/ Poll \/ WaitOver) /\ Clock(NoWrite)
    \/ \E c \in {0, 1} : pc = "ready" /\ SetNcs(c, "ready") /\ Clock(Status(1, c, Ones))
    \/ pc = "send start" /\ Sent /\ Clock(Status(0, mmc_spi_ncs, data))
    \/ pc = "recv start" /\ Goto("recv poll") /\ Clock(Status(0, mmc_spi_ncs, Ones))
    \/ pc = "init cs" /\ SetNcs(1, "init clock") /\ Clock(Status(1, 1, Ones))
    \/ pc = "init clock" /\ Goto("ready") /\ Clock(ClkDiv(IdentDiv))
    \/ pc = "trans clock" /\ Goto("ready") /\ Clock(ClkDiv(TransDiv))
    \/ pc = "wait" /\ Goto("wait poll") /\ Clock(Timer(Wait))

\* Between two accesses, and while a loop finds that it has to go on.
Pass == UNCHANGED program /\ Clock(NoWrite)

\* One button resets the interface and the processor, whose program starts again.
Reset ==
    /\ state' = "IDLE" /\ divref_reg' = 255 /\ exit_reg' = 1 /\ ncs_reg' = 1
    /\ sck_reg' = 1 /\ sdo_reg' = 1 /\ frc_reg' = 0
    /\ pc' = "init" /\ mmc_spi_ncs' = 0 /\ sampled' = <<>> /\ selects' = {}
    /\ div' = 255 /\ elapsed' = 0
    /\ UNCHANGED <<bitcount, divcount, txddata, rxddata, data, ret, give, reply>>

Next == Access \/ Pass \/ Reset

Spec == Init /\ [][Next]_vars

\* The interface's clock runs; the processor goes on with a call it has begun.
Fairness == WF_vars(Pass) /\ WF_vars(Access /\ pc # "ready")

FairSpec == Spec /\ Fairness

-----------------------------------------------------------------------------
(* Properties. *)

\* The byte in transfer: its bits on the wire so far, and those still in txddata.
InTransfer ==
    LET left == IF state = "SDI" THEN <<sdo_reg>> \o txddata ELSE txddata IN
    [i \in 1 .. 8 |-> IF i <= Len(sampled) THEN sampled[i] ELSE left[i - Len(sampled)]]

\* The routine in progress, of the two that exchange a byte, and its byte until started.
Routine == IF pc \in {"send", "send start"} THEN "Sendbyte"
           ELSE IF pc \in {"recv", "recv start", "recv poll"} THEN "Recvbyte" ELSE "none"
Asked   == IF pc \in {"send", "send start"} THEN data
           ELSE IF pc \in {"recv", "recv start"} THEN Ones ELSE None

\* Every byte a routine is called with goes out, once and whole, under the select set
\* last before it and no other, and what Recvbyte returns is the card's answer to that
\* very call's byte: no start is lost in a transfer, although the select is written
\* without looking (avalonif_mmc.v:126-186, mmc_spi.c:19-55).
Link == INSTANCE SpiBytes WITH
    ncs <- mmc_spi_ncs, call <- Routine, asked <- Asked,
    box <- IF state \in {"SDO", "SDI"} \/ sampled # <<>>
           THEN [ncs |-> selects \cup {ncs_reg}, byte |-> InTransfer] ELSE None

BytesExchanged == Link!Spec

\* The divider is the one asked for last: no write to it falls into a transfer, where
\* it would be lost (avalonif_mmc.v:139-141, mmc_spi.c:137-147).
ClockAsAsked == divref_reg = div

\* A wait lasts as long as it says, although bytes may be in transfer meanwhile
\* (avalonif_mmc.v:189-193, mmc_spi.c:169-174).
WaitsInFull == [][pc = "wait poll" /\ pc' = "ready" => elapsed = Wait]_vars

\* Every call comes back, the busy loops included, and InitSocket's after a reset, unless
\* the button is pressed again and again (mmc_spi.c:35-55, 169-185).
CallsReturn == []<><<Reset>>_vars \/ (pc # "ready" ~> pc = "ready")
=============================================================================
