---------------------------- MODULE MCAddressing ----------------------------
(***************************************************************************)
(* Instances of Addressing for TLC; the configurations give the constants  *)
(* their values.                                                           *)
(***************************************************************************)
EXTENDS Addressing
=============================================================================
