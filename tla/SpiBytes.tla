------------------------------ MODULE SpiBytes ------------------------------
(***************************************************************************)
(* What the card driver may believe of the byte routines of mmc_spi.c:     *)
(* every byte it asks to be sent reaches the card once and whole, under    *)
(* the chip select set last before it, and Recvbyte returns what the card  *)
(* gave in exchange for the byte of that very call.                        *)
(*                                                                         *)
(* A call leaves its byte in asked; only putting it on the line takes it   *)
(* out again, and the next call cannot begin before.  So no byte is lost,  *)
(* none goes out twice, and none goes out that nobody asked for.           *)
(*                                                                         *)
(* MmcSpi implements this module with the registers of avalonif_mmc.v; the *)
(* byte exchanges of MmcDisk are its Exchange.                             *)
(***************************************************************************)
CONSTANTS
    Byte,
    Ones,      \* FFh, what the line gives while no card drives it
    None

VARIABLES
    ncs,       \* the chip select the driver has set: 0 selects the card
    call,      \* the routine in progress, if it exchanges a byte, or "none"
    asked,     \* that routine's byte until it is on the line, then None
    box,       \* the exchange in progress, with the selects the card sees in it, or None
    reply,     \* what the card gave in the last one
    ret        \* what Recvbyte returned, until the next call

Init == /\ ncs = 0 /\ call = "none" /\ asked = None
        /\ box = None /\ reply = Ones /\ ret = None

-----------------------------------------------------------------------------
(* The driver's side, which may come while a byte is on its way. *)

Begins(routine, b) == /\ call = "none" /\ call' = routine /\ asked' = b
                      /\ ret' = None /\ UNCHANGED ncs

Sendbyte == \E b \in Byte : Begins("Sendbyte", b)
Recvbyte == Begins("Recvbyte", Ones)
Select   == /\ call = "none" /\ ncs' \in {0, 1} /\ ret' \in {ret, None}
            /\ UNCHANGED <<call, asked>>

Driver == Sendbyte \/ Recvbyte \/ Select \/ UNCHANGED <<ncs, call, asked, ret>>

Goes == Driver /\ UNCHANGED <<box, reply>>

-----------------------------------------------------------------------------
(* The exchange. *)

Put == /\ asked # None /\ box = None
       /\ box' = [ncs |-> {ncs}, byte |-> asked] /\ asked' = None
       /\ call' = IF call = "Sendbyte" THEN "none" ELSE call
       /\ UNCHANGED <<ncs, reply, ret>>

Exchange == /\ box # None /\ box' = None
            /\ reply' \in IF box.ncs = {0} THEN Byte ELSE {Ones}
            /\ Driver

\* Recvbyte's byte has been put on the line and its exchange is over.
Return == /\ call = "Recvbyte" /\ asked = None /\ box = None
          /\ ret' = reply /\ call' = "none"
          /\ UNCHANGED <<ncs, asked, box, reply>>

\* The reset button cuts a call and an exchange short.
Reset == /\ call' = "none" /\ asked' = None /\ box' = None /\ ncs' = 0
         /\ UNCHANGED <<reply, ret>>

Next == Goes \/ Put \/ Exchange \/ Return \/ Reset

Spec == Init /\ [][Next]_<<ncs, call, asked, box, reply, ret>>
=============================================================================
