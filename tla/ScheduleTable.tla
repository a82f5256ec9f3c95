---------------------------- MODULE ScheduleTable ----------------------------
(***************************************************************************)
(* The schedule table of the scheduler daemon: what load_schedule builds   *)
(* from a schedule file, and the two functions that find the place of the  *)
(* clock in it.  A table is a sequence of entries [stime, command]; the    *)
(* code indexes entries from 0, so entry[c] of the code is es[c + 1] here. *)
(* A "body" is the list of the lines of a file that parse, in file order:  *)
(* what a line looks like is not modelled.                                 *)
(***************************************************************************)
EXTENDS Integers, Sequences, Functions

CONSTANTS Programs,       \* command lines of control programs
          MaxEntries      \* SCHED_MAX_ENTRIES

ASSUME MaxEntriesAssumption == MaxEntries \in Nat \ {0}

(* stime of the "default" line, before every date. *)
DefaultTime == -1

Entry == [stime : Nat \cup {DefaultTime}, command : Programs]

(* The lines load_schedule keeps: it stops reading at MaxEntries. *)
Kept(body) ==
  IF Len(body) <= MaxEntries THEN body ELSE SubSeq(body, 1, MaxEntries)

(* load_schedule returns 0 only if one of the lines kept was a default. *)
Loads(body) ==
  \E i \in DOMAIN Kept(body) : Kept(body)[i].stime = DefaultTime

InOrder(es) ==
  \A i, j \in DOMAIN es : i < j => es[i].stime <= es[j].stime

(* qsort by stime.  It is not stable: entries of the same date come out in *)
(* any order.                                                              *)
Sorted(es) ==
  { t \in { [i \in DOMAIN es |-> es[p[i]]] : p \in Bijection(DOMAIN es, DOMAIN es) } :
      InOrder(t) }

(* set_schedule: the number of leading entries that are due at time t. *)
DueCount(es, t) ==
  CHOOSE c \in 0..Len(es) :
    /\ \A i \in 1..c : es[i].stime <= t
    /\ c < Len(es) => es[c + 1].stime > t

NextIsDue_early(es, c, t) ==
  /\ c # 0
  /\ c # Len(es)
  /\ es[c + 1].stime <= t + 1

(* test_schedule: the next entry exists and is due. *)
NextIsDue(es, c, t) ==
  /\ c # 0
  /\ c # Len(es)
  /\ es[c + 1].stime <= t
==============================================================================
