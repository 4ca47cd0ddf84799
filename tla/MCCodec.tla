------------------------------ MODULE MCCodec ------------------------------
(***************************************************************************)
(* Instances of Codec for TLC; the configurations give the constants their *)
(* values.                                                                 *)
(***************************************************************************)
EXTENDS Codec
=============================================================================
