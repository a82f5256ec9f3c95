---------------------------- MODULE MCShellServer ----------------------------
(***************************************************************************)
(* Small instances of ShellServer.                                         *)
(***************************************************************************)
EXTENDS ShellServer, TLC

==============================================================================
