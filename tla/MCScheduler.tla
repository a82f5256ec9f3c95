----------------------------- MODULE MCScheduler -----------------------------
(***************************************************************************)
(* Small instances of Scheduler.                                           *)
(***************************************************************************)
EXTENDS Scheduler

CONSTANTS normal, special

E(t, c) == [stime |-> t, command |-> c]

(* A good file whose lines are out of order, one that changes the default, *)
(* and one that load_schedule rejects because it has no default.           *)
MCBodies ==
  { << E(1, special), E(DefaultTime, normal) >>,
    << E(DefaultTime, special) >>,
    << E(1, special) >> }

(* Two entries that may both fall due while a program is being stopped.    *)
TwoDueBodies ==
  { << E(DefaultTime, normal), E(1, special), E(2, normal) >> }

(* A file with nothing but a default. *)
DefaultBodies == { << E(DefaultTime, normal) >> }
==============================================================================
