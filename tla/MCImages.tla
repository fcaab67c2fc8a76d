------------------------------ MODULE MCImages ------------------------------
(***************************************************************************)
(* Instances of Images for TLC.                                            *)
(***************************************************************************)
EXTENDS Images

CONSTANT g1

OneImage == {g1}
=============================================================================
