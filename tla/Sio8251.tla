------------------------------ MODULE Sio8251 ------------------------------
(***************************************************************************)
(* What the tape interface CONTREG_8251 (src/project/rtl/8251ContReg.v)    *)
(* promises to its two users, one transaction at a time:                   *)
(*                                                                         *)
(*   - the Z80, which runs one bus cycle after another on ports 20h (data) *)
(*     and 21h (control); a cycle is served exactly once before it ends,   *)
(*     and a read cycle returns what was latched when it was served;       *)
(*   - the Nios II firmware, which raises a strobe, drives its byte and    *)
(*     lowers the strobe; the strobe is served once, after it is lowered.  *)
(*                                                                         *)
(* The registers keep the names of the Verilog.  Contreg8251, the          *)
(* clock-by-clock model, implements this specification.                    *)
(***************************************************************************)
EXTENDS Naturals

CONSTANTS    \* assumed of them: DataAssumption of Contreg8251
    Byte,        \* the bytes the two sides exchange
    Zero,        \* 8'h00
    IrBytes,     \* the command bytes with bit 6 (internal reset) set
    RxeBytes,    \* the command bytes with bit 2 (receive enable) set
    FileBytes,   \* the bytes the firmware sends
    Strobes      \* which strobes the firmware raises: {"write"} or {"write", "read"}

VARIABLES
    r_state,         \* "MODE" or "CMD": P_SIO_STATE_MODE_SETTING / CMD_SETTING
    r_command,       \* the command register
    r_status,        \* the status register: 0, 2 (RxRDY) or 5 (TxE, TxRDY)
    r_cmt_data,      \* the one byte in flight, in either direction
    O_DATA,          \* what port 20h shows the Z80
    O_CONTROL_DATA,  \* what port 21h shows the Z80
    O_MCU_DATA,      \* what the firmware reads back
    z80,             \* the Z80's bus cycle: [op, data, served]
    got,             \* what the Z80 sampled in its last SIO read cycle
    mcu              \* the firmware's strobe: [op, data, phase]

regs == <<r_state, r_command, r_status, r_cmt_data, O_DATA, O_CONTROL_DATA, O_MCU_DATA>>
vars == <<regs, z80, got, mcu>>

Status == {0, 2, 5}
SioOps == {"ctlw", "ctlr", "datw", "datr"}   \* OUT 21h, IN 21h, OUT 20h, IN 20h

\* No bus cycle on the SIO's ports, no strobe.
IdleCycle == [op |-> "none", data |-> Zero, served |-> TRUE]

TypeOK ==
    /\ r_state \in {"MODE", "CMD"}
    /\ r_command \in Byte /\ r_cmt_data \in Byte
    /\ r_status \in Status /\ O_CONTROL_DATA \in Status
    /\ O_DATA \in Byte /\ O_MCU_DATA \in Byte
    /\ z80 \in [op : SioOps \cup {"none"}, data : Byte, served : BOOLEAN]
    /\ got \in Byte \cup Status
    /\ mcu \in [op : {"none", "write", "read"}, data : Byte, phase : {"none", "open", "pending"}]

Init ==
    /\ r_state = "MODE" /\ r_command = Zero /\ r_status = 0 /\ r_cmt_data = Zero
    /\ O_DATA = Zero /\ O_CONTROL_DATA = 0 /\ O_MCU_DATA = Zero
    /\ z80 = IdleCycle
    /\ got = Zero
    /\ mcu = [op |-> "none", data |-> Zero, phase |-> "none"]

-----------------------------------------------------------------------------
(* The registers, when the Z80's operation z (with byte d) and the         *)
(* firmware's strobe m (with byte e) are served; "none" is neither.        *)

\* Every register of the w_reset domain; O_MCU_DATA is not in it.
ClearRegs ==
    /\ r_state' = "MODE" /\ r_command' = Zero /\ O_CONTROL_DATA' = 0
    /\ r_status' = 0 /\ O_DATA' = Zero /\ r_cmt_data' = Zero

\* A control write with bit 6 set resets the SIO: the bit resets its own register.
Resets(z, d) == z = "ctlw" /\ d \in IrBytes

\* A control write, the byte that ends mode setting included, is a command.
ControlPort(z, d) ==
    /\ r_command' = IF z = "ctlw" THEN d ELSE r_command
    /\ O_CONTROL_DATA' = IF z = "ctlr" /\ r_state = "CMD" THEN r_status ELSE O_CONTROL_DATA

\* The firmware's strobe decides where both sides are served at once.
DataPort(z, d, m, e) ==
    LET fill == m = "write" /\ r_command \in RxeBytes
    IN  /\ O_DATA' = IF z = "datr" THEN r_cmt_data ELSE O_DATA
        /\ r_cmt_data' = IF fill THEN e
                          ELSE IF z = "datr" THEN Zero
                          ELSE IF z = "datw" THEN d
                          ELSE r_cmt_data
        /\ r_status' = IF m = "read" THEN 5
                        ELSE IF fill THEN 2
                        ELSE IF z \in {"datr", "datw"} THEN 0
                        ELSE r_status

Serve(z, d, m, e) ==
    /\ O_MCU_DATA' = IF m = "read" THEN r_cmt_data ELSE O_MCU_DATA
    /\ \/ Resets(z, d) /\ ClearRegs
       \/ /\ ~Resets(z, d)
          /\ z = "ctlw" => r_state = "CMD"
          /\ ControlPort(z, d) /\ DataPort(z, d, m, e)
          /\ \/ r_state' = r_state
             \/ /\ z = "none" /\ z80.op = "ctlw" /\ ~z80.served   \* leaves mode setting
                /\ r_state' = "CMD"

-----------------------------------------------------------------------------
(* The two users. *)

\* The Z80 ends a cycle that has been served (or was not the SIO's) and
\* starts another; a read cycle has sampled its port by then.
Z80Turn ==
    /\ z80.served
    /\ z80' \in [op : SioOps, data : Byte, served : {FALSE}] \cup
                [op : {"none"}, data : Byte, served : {TRUE}]
    /\ got' = IF z80.op = "datr" THEN O_DATA
               ELSE IF z80.op = "ctlr" THEN O_CONTROL_DATA
               ELSE got

Z80Served == /\ ~z80.served
             /\ z80' = [z80 EXCEPT !.served = TRUE]
             /\ UNCHANGED got

Z80Waits == UNCHANGED <<z80, got>>

McuRaise == /\ mcu.phase = "none"
            /\ \E s \in Strobes : mcu' = [mcu EXCEPT !.op = s, !.phase = "open"]

McuDrive == /\ mcu.phase = "open" /\ mcu.op = "write"
            /\ \E b \in FileBytes : mcu' = [mcu EXCEPT !.data = b]

\* A reset of the firmware's processor clears its byte as it lowers the strobe.
McuLower == /\ mcu.phase = "open"
            /\ \E b \in {mcu.data, Zero} :
                  mcu' = [mcu EXCEPT !.data = b, !.phase = "pending"]

McuServed == /\ mcu.phase = "pending"
             /\ mcu' = [mcu EXCEPT !.op = "none", !.phase = "none"]

Step ==
    \/ /\ Serve("none", Zero, "none", Zero)
       /\ Z80Turn \/ Z80Waits
       /\ McuRaise \/ McuDrive \/ McuLower \/ UNCHANGED mcu
    \/ /\ Serve(z80.op, z80.data, "none", Zero) /\ Z80Served
       /\ \/ McuRaise \/ McuDrive \/ McuLower \/ UNCHANGED mcu
          \/ McuServed /\ Resets(z80.op, z80.data)     \* a reset drops the strobe
    \/ /\ Serve("none", Zero, mcu.op, mcu.data) /\ McuServed
       /\ Z80Turn \/ Z80Waits
    \/ Serve(z80.op, z80.data, mcu.op, mcu.data) /\ Z80Served /\ McuServed

\* I_RST: both sides start again; the firmware's pins are not the SIO's to reset.
Reset ==
    /\ ClearRegs /\ UNCHANGED <<O_MCU_DATA, got>>
    /\ z80' \in [op : {"none"}, data : Byte, served : {TRUE}]
    /\ \/ McuServed
       \/ mcu.phase # "pending" /\ UNCHANGED mcu

Next == Step \/ Reset

Spec == Init /\ [][Next]_vars
=============================================================================
