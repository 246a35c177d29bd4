------------------------------ MODULE CardDisk ------------------------------
(***************************************************************************)
(* What FatFs may believe of the disk functions of mmcbb.c while cards     *)
(* come and go: STA_NOINIT is cleared by an initialisation only, and a     *)
(* call that comes back with the disk usable, or with RES_OK, has found a  *)
(* card that was ready at some moment of that very call.                   *)
(*                                                                         *)
(* MmcDisk implements this module with the commands it sends; the disk of  *)
(* MmcFs is its calls, each taken as one step.                             *)
(***************************************************************************)
VARIABLES
    present,   \* is a card in the socket
    ready,     \* has it been through its initialisation since it was pushed in
    noinit,    \* STA_NOINIT of Stat
    op,        \* the call in progress: one that asks for the status, initialises, moves blocks
    saw,       \* has it found the card ready
    good       \* did the last call return RES_OK

card == <<present, ready>>
vars == <<card, noinit, op, saw, good>>

Init ==
    /\ present \in BOOLEAN /\ ready = FALSE
    /\ noinit = TRUE /\ op = "none" /\ saw = FALSE /\ good = FALSE

\* The hand at the socket; an answer on its way is lost.
Hand ==
    /\ present' = ~present /\ ready' = FALSE
    /\ saw' \in {saw, FALSE} /\ UNCHANGED <<noinit, op, good>>

Begin ==
    /\ op = "none" /\ op' \in {"ask", "initialize", "move"}
    /\ saw' = FALSE /\ good' = FALSE /\ UNCHANGED <<card, noinit>>

\* CMD0 sends the card back to its idle state; later it is ready again, or never.
Sleeps == op = "initialize" /\ ready' = FALSE /\ saw' = FALSE /\ UNCHANGED <<present, noinit, op, good>>
Wakes  == op = "initialize" /\ present /\ ready' = TRUE /\ UNCHANGED <<present, noinit, op, saw, good>>

Sees  == op # "none" /\ ready /\ saw' = TRUE /\ UNCHANGED <<card, noinit, op, good>>
Finds == op # "none" /\ noinit' = TRUE /\ UNCHANGED <<card, op, saw, good>>

Ends ==
    /\ op # "none" /\ op' = "none" /\ saw' = FALSE
    /\ noinit' \in IF op = "initialize" THEN {~saw, TRUE} ELSE {noinit}
    /\ op = "ask" => saw \/ noinit
    /\ good' \in {FALSE, op # "initialize" /\ saw /\ ~noinit}
    /\ UNCHANGED card

Next == Hand \/ Begin \/ Sleeps \/ Wakes \/ Sees \/ Finds \/ Ends

Spec == Init /\ [][Next]_vars
=============================================================================
