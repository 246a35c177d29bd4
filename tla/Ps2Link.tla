------------------------------ MODULE Ps2Link ------------------------------
(***************************************************************************)
(* What the keyboard controller may believe of the PS/2 receiver: each     *)
(* byte the keyboard sends is handed over once, unchanged, in a pulse of   *)
(* one clock, before the keyboard sends the next.                          *)
(*                                                                         *)
(* Ps2 implements this module with the registers of ps2.v and the poller   *)
(* of keyborad.v; Keyboard takes its codes from it.                        *)
(***************************************************************************)
CONSTANTS
    Code,      \* the bytes a keyboard sends
    None       \* no byte

VARIABLES
    owed,      \* the byte on its way from the keyboard
    code       \* w_ps2_data while r_ps2_data_en is 1

Init == owed = None /\ code = None

Quiet    == code' = None /\ UNCHANGED owed
Begin    == owed = None /\ owed' \in Code /\ code' = None
HandOver == owed # None /\ code' = owed /\ owed' = None

\* The reset button loses the byte on its way.
Reset    == owed' = None /\ code' = None

Next == Quiet \/ Begin \/ HandOver \/ Reset

Spec == Init /\ [][Next]_<<owed, code>>
=============================================================================
