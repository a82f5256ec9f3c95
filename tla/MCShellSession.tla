---------------------------- MODULE MCShellSession ---------------------------
(***************************************************************************)
(* Small instances of ShellSession.                                        *)
(***************************************************************************)
EXTENDS ShellSession, TLC
==============================================================================
