--------------------------- MODULE MCGroupReimage ---------------------------
(***************************************************************************)
(* Instances of GroupReimage for TLC.                                      *)
(***************************************************************************)
EXTENDS GroupReimage

CONSTANTS n1, n2

TwoNodes == {n1, n2}
=============================================================================
