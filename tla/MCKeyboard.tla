---------------------------- MODULE MCKeyboard ----------------------------
(***************************************************************************)
(* An instance of Keyboard for TLC: all ten rows, some keys; and, as       *)
(* history, the reads of the port since a key was presented.               *)
(***************************************************************************)
EXTENDS Keyboard, TLC

Key(addr, bit, shift) == [addr |-> addr, bit |-> bit, shift |-> shift]

\* A and DOWN.
MCKeyMap == 28 :> Key(2, 1, FALSE) @@ 114 :> Key(8, 1, TRUE)

\* All the rows.
MCScan == <<0, 1, 2, 3, 4, 5, 6, 7, 8, 9>>

VARIABLES
    reads,     \* reads that ended since the key presented came on
    spoilt     \* a code came in the clock that would have counted this read

mcvars == <<vars, reads, spoilt>>

MCInit == Init /\ reads = 0 /\ spoilt = FALSE
MCNext ==
    /\ Next
    /\ reads' = IF key' = None \/ ~counted' THEN 0
                ELSE IF ReadEnds /\ ~spoilt THEN reads + 1 ELSE reads
    /\ spoilt' = (cyc' # 0 /\ (spoilt \/ (w_cpu_iorq_rise /\ code # None)))
MCSpec == MCInit /\ [][MCNext]_mcvars

\* No key sticks: released or not, repeated or not, it is gone after fourteen reads,
\* as long as no code outside the matrix interferes (keyborad.v:247-253).
KeyGoes == reads <= 14
=============================================================================
