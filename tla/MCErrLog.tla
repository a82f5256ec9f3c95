------------------------------ MODULE MCErrLog -------------------------------
(***************************************************************************)
(* Small instances of ErrLog: two tasks with a connection each, and two    *)
(* processes of one task that share a connection.                          *)
(***************************************************************************)
EXTENDS ErrLog, TLC

CONSTANTS c1, c2, p1, p2

OwnConnections == [p \in Procs |-> IF p = p1 THEN c1 ELSE c2]
OneConnection == [p \in Procs |-> c1]
==============================================================================
