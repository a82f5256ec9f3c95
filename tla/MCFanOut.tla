------------------------------ MODULE MCFanOut -------------------------------
(***************************************************************************)
(* Small instances of FanOut.                                              *)
(***************************************************************************)
EXTENDS FanOut, TLC

ClientSymmetry == Permutations(Clients)
==============================================================================
