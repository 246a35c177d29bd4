--------------------------- MODULE MCContreg8251 ---------------------------
(***************************************************************************)
(* Small instances of Contreg8251 for TLC, with two variables more: the    *)
(* way the firmware is built, and the state in which the Z80's current     *)
(* machine cycle found the SIO.                                            *)
(***************************************************************************)
EXTENDS Contreg8251

VARIABLES
    build,     \* the strobe this firmware has: main.c:316-327 is compiled in or out
    found

mcvars == <<vars, build, found>>

MCInit == Init /\ build \in Strobes /\ found = "MODE"
MCNext ==
    /\ Next
    /\ pio' = "asserted" => build = "write"
    /\ pio' = "reading"  => build = "read"
    /\ found' = IF cyc' = 0 THEN r_state' ELSE found
    /\ UNCHANGED build
MCSpec == MCInit /\ [][MCNext]_mcvars

\* "Z80 is first, send RST command. If receive it, first state to "MODE Setting"
\* next to "CMD Setting"" (8251ContReg.v:122-124): the byte that ends mode
\* setting is the mode, it is not loaded into the command register.
ModeByteIsNotCommand ==
    [][r_command' # Zero /\ r_command' # r_command => found = "CMD"]_mcvars
=============================================================================
