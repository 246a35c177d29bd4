---------------------------- MODULE MCCmtSystem ----------------------------
(***************************************************************************)
(* An instance of CmtSystem for TLC: an image of three bytes.              *)
(***************************************************************************)
EXTENDS CmtSystem

MCFile == <<11, 12, 13>>
=============================================================================
