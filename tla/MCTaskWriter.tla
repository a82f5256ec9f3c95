---------------------------- MODULE MCTaskWriter -----------------------------
(***************************************************************************)
(* Small instances of TaskWriter.                                          *)
(***************************************************************************)
EXTENDS TaskWriter, TLC
==============================================================================
