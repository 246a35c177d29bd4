------------------------------ MODULE MCMmcSpi ------------------------------
(***************************************************************************)
(* An instance of MmcSpi for TLC.                                          *)
(***************************************************************************)
EXTENDS MmcSpi

\* FFh, and one in which no shift of the bits gives the other.
MCByte == {Ones, <<0, 1, 0, 0, 1, 1, 1, 0>>}
=============================================================================
