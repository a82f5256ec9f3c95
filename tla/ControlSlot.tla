----------------------------- MODULE ControlSlot -----------------------------
(***************************************************************************)
(* What the scheduler promises to the radar: one slot in which at most one *)
(* control program runs.  A program enters only an empty slot, and only by *)
(* an entry of the schedule in force whose time has come; it may leave at  *)
(* any moment, by dying or by being stopped.                               *)
(***************************************************************************)
EXTENDS Integers

CONSTANTS Idle, Entries

VARIABLES running, schedule, now

vars == <<running, schedule, now>>

Init == running = Idle /\ schedule = {} /\ now = 0

Start ==
  /\ running = Idle
  /\ \E e \in schedule : e.stime <= now /\ running' = e.command
  /\ UNCHANGED <<schedule, now>>

Leave ==
  /\ running' = Idle
  /\ UNCHANGED <<schedule, now>>

Revise ==
  /\ schedule' \in SUBSET Entries
  /\ UNCHANGED <<running, now>>

Tick ==
  /\ now' = now + 1
  /\ UNCHANGED <<running, schedule>>

Next == Start \/ Leave \/ Revise \/ Tick

Spec == Init /\ [][Next]_vars
==============================================================================
