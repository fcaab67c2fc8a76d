----------------------------- MODULE MCReimage -----------------------------
(***************************************************************************)
(* Instances of Reimage for TLC: requests are numbered from 1, options and *)
(* operator calls are chosen per run.                                      *)
(***************************************************************************)
EXTENDS Reimage

CONSTANTS n1, i1

OneNode  == {n1}
NoProxmox == {}
OneImage == {i1}
PlainOnly == {{}}
DryOrPlain == {{}, {"dry"}}
DryOnly == {{"dry"}}
BiosOrPlain == {{}, {"bios"}}
=============================================================================
