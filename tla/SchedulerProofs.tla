--------------------------- MODULE SchedulerProofs ---------------------------
(***************************************************************************)
(* Proofs about the scheduler daemon: types and table, the only child, and *)
(* the implementation of ControlSlot.                                      *)
(***************************************************************************)
EXTENDS Scheduler, ScheduleTableProofs

USE PidsAssumption, NumbersAssumption
USE DEF At, Goto, kernelVars, timerVars, envVars, tableVars, fileVars, callVars

(* What set_schedule returns now. *)
LEMMA CountNow ==
  ASSUME TypeOK
  PROVE  /\ DueCount(entries, now) \in 0..Len(entries)
         /\ \A i \in 1..DueCount(entries, now) : entries[i].stime <= now
<1>1. entries \in Seq(Entry) /\ now \in Int
  BY DEF TypeOK
<1>2. QED
  BY <1>1, DueCountProperties

(* What a successful load_schedule puts in the table. *)
LEMMA LoadNow ==
  ASSUME TypeOK, file # NoFile, Loads(file.body), NEW es \in Sorted(Kept(file.body))
  PROVE  es \in Seq(Entry) /\ Len(es) > 0 /\ es[1].stime = DefaultTime
<1>1. file.body \in Seq(Entry)
  BY BodiesAssumption DEF TypeOK
<1>2. QED
  BY <1>1, LoadedTable

LEMMA TypeStep ==
  ASSUME TypeOK, TableInv, NoEarlyStart, [Next]_vars
  PROVE  TypeOK'
<1> USE DEF TypeOK, Labels, NoPid, Null
<1>1. CASE Tick
  BY <1>1 DEF Tick
<1>2. CASE EditFile
  BY <1>2 DEF EditFile
<1>3. CASE RemoveFile
  BY <1>3 DEF RemoveFile
<1>4. CASE Boot
  <2>1. CASE file # NoFile /\ Loads(file.body)
    BY <1>4, <2>1, LoadNow DEF Boot, TableInv
  <2>2. CASE ~(file # NoFile /\ Loads(file.body))
    BY <1>4, <2>2 DEF Boot
  <2>3. QED
    BY <2>1, <2>2
<1>5. CASE Count
  BY <1>5, CountNow DEF Count, Call
<1>6. CASE Loop
  BY <1>6 DEF Loop, Call
<1>7. CASE Check
  BY <1>7 DEF Check
<1>8. CASE Stop
  BY <1>8 DEF Stop
<1>9. CASE Terminate
  BY <1>9 DEF Terminate
<1>10. CASE Signal
  BY <1>10 DEF Signal
<1>11. CASE WaitReturns
  BY <1>11 DEF WaitReturns, Waited, Reap, AfterWait
<1>12. CASE Expired
  BY <1>12 DEF Expired
<1>13. CASE SigKill
  BY <1>13 DEF SigKill
<1>14. CASE ResetFlag
  BY <1>14 DEF ResetFlag
<1>15. CASE Disarm
  BY <1>15 DEF Disarm
<1>16. CASE Fork
  <2>1. arg + 1 \in 1..Len(entries) /\ entries[arg + 1] \in Entry
    BY <1>16 DEF Fork, NoEarlyStart, InCheckProgram, TableInv
  <2>2. CASE Spawn(arg)
    BY <1>16, <2>1, <2>2 DEF Fork, Spawn, Entry
  <2>3. CASE ForkFails /\ Goto(IF ConfirmProgram(0) THEN "fallback" ELSE ret)
    BY <1>16, <2>3 DEF Fork, ForkFails
  <2>4. QED
    BY <1>16, <2>2, <2>3 DEF Fork
<1>17. CASE Fallback
  <2>1. 1 \in 1..Len(entries) /\ entries[0 + 1] \in Entry
    BY <1>17 DEF Fallback, NoEarlyStart, InCheckProgram, TableInv
  <2>2. CASE Spawn(0)
    BY <1>17, <2>1, <2>2 DEF Fallback, Spawn, Entry
  <2>3. CASE ForkFails /\ Goto(ret)
    BY <1>17, <2>3 DEF Fallback, ForkFails
  <2>4. QED
    BY <1>17, <2>2, <2>3 DEF Fallback
<1>18. CASE Assign
  <2>1. arg + 1 \in 1..Len(entries) /\ entries[arg + 1] \in Entry
    BY <1>18 DEF Assign, NoEarlyStart, InCheckProgram
  <2>2. QED
    BY <1>18, <2>1 DEF Assign, Entry
<1>19. CASE TestRefresh
  BY <1>19 DEF TestRefresh, Slot
<1>20. CASE Stat1
  BY <1>20 DEF Stat1, Garbage
<1>21. CASE Stat2
  BY <1>21 DEF Stat2, Garbage
<1>22. CASE Restat1
  BY <1>22 DEF Restat1
<1>23. CASE Restat2
  BY <1>23 DEF Restat2
<1>24. CASE Open
  <2>1. CASE file # NoFile /\ Loads(file.body)
    BY <1>24, <2>1, LoadNow DEF Open
  <2>2. CASE ~(file # NoFile /\ Loads(file.body))
    BY <1>24, <2>2 DEF Open
  <2>3. QED
    BY <2>1, <2>2
<1>25. CASE Restore
  BY <1>25 DEF Restore
<1>26. CASE Recount
  BY <1>26, CountNow DEF Recount, Call
<1>27. CASE TestSchedule
  BY <1>27 DEF TestSchedule, Call
<1>28. CASE Advance
  BY <1>28, CountNow DEF Advance
<1>29. CASE ChildHandler
  <2>1. proc' \in [Pids -> {"free", "run", "doomed", "zombie"}]
    BY <1>29 DEF ChildHandler, Reap
  <2>2. prog' \in [Pids -> Programs \cup {Null}]
    BY <1>29 DEF ChildHandler, Reap
  <2>3. pc' \in Labels
    BY <1>29 DEF ChildHandler, Interrupt, AfterWait
  <2>4. QED
    BY <1>29, <2>1, <2>2, <2>3 DEF ChildHandler
<1>30. CASE Alarm
  <2>1. pc' \in Labels
    BY <1>30 DEF Alarm, AfterWait
  <2>2. QED
    BY <1>30, <2>1 DEF Alarm
<1>31. ASSUME NEW p \in Pids, Exit(p) PROVE TypeOK'
  BY <1>31 DEF Exit, Live
<1>32. CASE UNCHANGED vars
  BY <1>32 DEF vars
<1>33. QED
  BY <1>1, <1>2, <1>3, <1>4, <1>5, <1>6, <1>7, <1>8, <1>9, <1>10, <1>11, <1>12, <1>13, <1>14, <1>15, <1>16, <1>17, <1>18, <1>19, <1>20, <1>21, <1>22, <1>23, <1>24, <1>25, <1>26, <1>27, <1>28, <1>29, <1>30, <1>31, <1>32 DEF Next, Main, CheckProgram, Reload, Environment

(***************************************************************************)
(* The table and the index check_program is given.                         *)
(***************************************************************************)
DataInv == TypeOK /\ TableInv /\ NoEarlyStart

(* A call of check_program is given the first entry or one that is due.    *)
LEMMA CallIsDue ==
  ASSUME TypeOK, TableInv, pc \notin {"boot", "exit"},
         NEW c \in 0..Len(entries), \A i \in 1..c : entries[i].stime <= now,
         NEW a, a = IF c - 1 < 0 THEN 0 ELSE c - 1
  PROVE  a < Len(entries) /\ entries[a + 1].stime <= now
<1>1. CASE c = 0
  BY <1>1 DEF TypeOK, TableInv, DefaultTime
<1>2. CASE c # 0
  <2>1. a = c - 1 /\ a + 1 \in 1..c /\ a + 1 = c
    BY <1>2
  <2>2. QED
    BY <2>1
<1>3. QED
  BY <1>1, <1>2

LEMMA DataStep ==
  ASSUME DataInv, [Next]_vars
  PROVE  TableInv' /\ NoEarlyStart'
<1> USE DEF DataInv, InCheckProgram
<1>1. ASSUME UNCHANGED <<now, entries, cnt>>,
             pc' = "boot" => pc = "boot",
             pc = "exit" => pc' = "exit",
             pc = "boot" => pc' \in {"boot", "exit"},
             \/ pc' \notin InCheckProgram
             \/ pc \in InCheckProgram /\ arg' = arg
      PROVE  TableInv' /\ NoEarlyStart'
  BY <1>1 DEF TableInv, NoEarlyStart
<1>2. CASE Tick
  <2>1. now' = now + 1 /\ UNCHANGED <<entries, cnt, arg, pc>> /\ now \in Int
    BY <1>2 DEF Tick, TypeOK
  <2>2. ASSUME NEW i \in 1..Len(entries)
        PROVE  entries[i].stime \in Int
    <3>1. entries[i] \in Entry
      BY DEF TypeOK
    <3>2. QED
      BY <3>1 DEF Entry, DefaultTime
  <2>3. TableInv'
    BY <2>1, <2>2 DEF TableInv, TypeOK
  <2>4. NoEarlyStart'
    BY <2>1, <2>2 DEF NoEarlyStart, TypeOK
  <2>5. QED
    BY <2>3, <2>4
<1>3. CASE Boot
  <2>1. CASE file # NoFile /\ Loads(file.body)
    BY <1>3, <2>1, LoadNow DEF Boot, TableInv, NoEarlyStart
  <2>2. CASE ~(file # NoFile /\ Loads(file.body))
    BY <1>3, <2>2 DEF Boot, TableInv, NoEarlyStart
  <2>3. QED
    BY <2>1, <2>2
<1>4. CASE Open
  <2>1. CASE file # NoFile /\ Loads(file.body)
    BY <1>4, <2>1, LoadNow DEF Open, TableInv, NoEarlyStart
  <2>2. CASE ~(file # NoFile /\ Loads(file.body))
    BY <1>4, <2>2, <1>1 DEF Open
  <2>3. QED
    BY <2>1, <2>2
<1>5. CASE Count \/ Recount
  <2>1. /\ cnt' = DueCount(entries, now) /\ arg' = (IF cnt' - 1 < 0 THEN 0 ELSE cnt' - 1)
        /\ pc' = "check" /\ UNCHANGED <<now, entries>> /\ pc \notin {"boot", "exit"}
    BY <1>5 DEF Count, Recount, Call
  <2>2. cnt' \in 0..Len(entries) /\ \A i \in 1..cnt' : entries[i].stime <= now
    BY <2>1, CountNow
  <2>3. arg' < Len(entries) /\ entries[arg' + 1].stime <= now
    BY <2>1, <2>2, CallIsDue
  <2>4. QED
    BY <2>1, <2>2, <2>3 DEF TableInv, NoEarlyStart
<1>6. CASE Advance
  BY <1>6, CountNow DEF Advance, TableInv, NoEarlyStart
<1>7. CASE Loop
  <2>1. CASE pid = NoPid
    <3>1. cnt \in 0..Len(entries) /\ \A i \in 1..cnt : entries[i].stime <= now
      BY DEF TypeOK, TableInv
    <3>2. arg' = (IF cnt - 1 < 0 THEN 0 ELSE cnt - 1) /\ pc = "loop"
          /\ UNCHANGED <<now, entries, cnt>> /\ pc' = "check"
      BY <1>7, <2>1 DEF Loop, Call
    <3>3. arg' < Len(entries) /\ entries[arg' + 1].stime <= now
      BY <3>1, <3>2, CallIsDue
    <3>4. QED
      BY <3>2, <3>3 DEF TableInv, NoEarlyStart
  <2>2. CASE pid # NoPid
    BY <1>7, <2>2, <1>1 DEF Loop
  <2>3. QED
    BY <2>1, <2>2
<1>8. CASE TestSchedule
  <2>1. CASE NextIsDue(entries, cnt, now)
    BY <1>8, <2>1 DEF TestSchedule, Call, NextIsDue, TypeOK, TableInv, NoEarlyStart
  <2>2. CASE ~NextIsDue(entries, cnt, now)
    BY <1>8, <2>2, <1>1 DEF TestSchedule
  <2>3. QED
    BY <2>1, <2>2
<1>9. CASE EditFile \/ RemoveFile \/ Alarm \/ ChildHandler
  BY <1>9, <1>1 DEF EditFile, RemoveFile, Alarm, ChildHandler, Interrupt, AfterWait
<1>10. ASSUME NEW p \in Pids, Exit(p) PROVE TableInv' /\ NoEarlyStart'
  BY <1>10, <1>1 DEF Exit
<1>11. CASE CheckProgram
  <2>1. CASE Check \/ Stop \/ Terminate \/ Signal \/ Expired \/ SigKill \/ ResetFlag \/ Disarm
    BY <2>1, <1>1 DEF Check, Stop, Terminate, Signal, Expired, SigKill, ResetFlag, Disarm, TypeOK
  <2>2. CASE WaitReturns
    BY <2>2, <1>1 DEF WaitReturns, AfterWait
  <2>3. CASE Fork \/ Fallback \/ Assign
    BY <2>3, <1>1 DEF Fork, Fallback, Assign, Spawn, ForkFails, TypeOK
  <2>4. QED
    BY <1>11, <2>1, <2>2, <2>3 DEF CheckProgram
<1>12. CASE TestRefresh \/ Stat1 \/ Stat2 \/ Restat1 \/ Restat2 \/ Restore
  BY <1>12, <1>1 DEF TestRefresh, Stat1, Stat2, Restat1, Restat2, Restore
<1>13. CASE UNCHANGED vars
  BY <1>13, <1>1 DEF vars
<1>14. QED
  BY <1>2, <1>3, <1>4, <1>5, <1>6, <1>7, <1>8, <1>9, <1>10, <1>11, <1>12, <1>13
  DEF Next, Main, Reload, Environment

(* Init establishes the invariants. *)
LEMMA DataInit == Init => DataInv
<1> SUFFICES ASSUME Init PROVE DataInv
  OBVIOUS
<1>1. entries \in Seq(Entry) /\ Len(entries) = 0
  BY DEF Init
<1>2. file \in [mtime : Nat, body : Bodies] \cup {NoFile}
  BY DEF Init
<1>3. TypeOK
  <2>1. cnt \in 0..Len(entries) /\ now \in 0..MaxTime /\ forkFailures \in 0..MaxForkFailures
    BY <1>1 DEF Init
  <2>2. /\ proc \in [Pids -> {"free", "run", "doomed", "zombie"}]
        /\ prog \in [Pids -> Programs \cup {Null}]
    BY DEF Init
  <2>3. /\ {sigchld, timer, resetflg} \subseteq BOOLEAN
        /\ pc \in Labels /\ ret \in {"loop", "refresh", "due", "advance"}
    BY DEF Init, Labels
  <2>4. /\ {pid, saved, target, child} \subseteq Pids \cup {NoPid}
        /\ arg \in Nat /\ command \in Programs \cup {Null}
        /\ {tval, slot, nstat1, nstat2} \subseteq Int
    BY DEF Init
  <2>5. QED
    BY <1>1, <1>2, <2>1, <2>2, <2>3, <2>4 DEF TypeOK
<1>4. TableInv /\ NoEarlyStart
  BY DEF Init, TableInv, NoEarlyStart, InCheckProgram
<1>5. QED
  BY <1>3, <1>4 DEF DataInv

(* The invariant is kept, for all values of the constants. *)
THEOREM DataInvariant == Spec => []DataInv
<1>1. DataInv /\ [Next]_vars => DataInv'
  BY TypeStep, DataStep DEF DataInv
<1>2. QED
  BY DataInit, <1>1, PTL DEF Spec

(* Type correctness. *)
THEOREM TypeCorrect == Spec => []TypeOK
<1>1. DataInv => TypeOK
  BY DEF DataInv
<1>2. QED
  BY DataInvariant, <1>1, PTL

(***************************************************************************)
(* One child at most, and the daemon knows which.                          *)
(***************************************************************************)
Terminating == {"signal", "wait", "expired", "sigkill", "wait2"}
Childless == {"reset", "disarm", "fork", "fallback"}

(* Reaping the only child leaves none. *)
LEMMA ReapOnly ==
  ASSUME TypeOK, OnlyChild, NEW p \in Pids, Reap(p)
  PROVE  \A q \in Pids : proc'[q] = "free"
BY DEF TypeOK, OnlyChild, Reap, Taken

(* Without a child, everything but the naming of a new one is kept. *)
LEMMA NoChildSuffices ==
  ASSUME \A q \in Pids : proc'[q] = "free"
  PROVE  ChildInv'
BY DEF ChildInv, OnlyChild, SavedPid, TargetIsChild, ChildGone, NoChild, Taken

LEMMA ChildStep ==
  ASSUME TypeOK, ChildInv, [Next]_vars
  PROVE  ChildInv'
<1> USE DEF ChildInv, OnlyChild, SavedPid, TargetIsChild, ChildGone, NoChild, Taken
(* A step that only moves main() between places where nothing is claimed. *)
<1>1. ASSUME UNCHANGED <<proc, pid>>,
             pc # "assign", pc' \notin Terminating \cup Childless \cup {"assign", "restore"}
      PROVE  ChildInv'
  BY <1>1 DEF Terminating, Childless
<1>2. ASSUME UNCHANGED <<proc, pid, pc, saved, child, target, timer, resetflg>>
      PROVE  ChildInv'
  BY <1>2
<1>3. CASE Tick \/ EditFile \/ RemoveFile
  BY <1>3, <1>2 DEF Tick, EditFile, RemoveFile
<1>4. ASSUME NEW p \in Pids, Exit(p)
      PROVE  ChildInv'
  <2>1. /\ Taken(p) /\ \A q \in Pids : proc'[q] # "free" => Taken(q)
        /\ UNCHANGED <<pc, pid, saved, child, target, timer, resetflg>>
    BY <1>4 DEF Exit, Live, TypeOK
  <2>2. QED
    BY <2>1
<1>5. CASE ChildHandler
  <2>1. CASE pid = NoPid
    <3>1. UNCHANGED <<proc, pid, saved, child, target, timer, resetflg>>
      BY <1>5, <2>1 DEF ChildHandler
    <3>2. CASE pc = "assign"
      BY <1>5, <3>1, <3>2 DEF ChildHandler, Interrupt, AfterWait
    <3>3. CASE pc # "assign"
      <4>1. \A q \in Pids : proc'[q] = "free"
        BY <2>1, <3>1, <3>3, PidsAssumption DEF NoPid
      <4>2. QED
        BY <4>1, NoChildSuffices
    <3>4. QED
      BY <3>2, <3>3
  <2>2. CASE pid # NoPid
    <3>1. \A q \in Pids : proc'[q] = "free"
      BY <1>5, <2>2, ReapOnly DEF ChildHandler
    <3>2. QED
      BY <3>1, NoChildSuffices
  <2>3. QED
    BY <2>1, <2>2
<1>6. CASE Alarm
  <2>1. UNCHANGED <<proc, pid, saved, child, target>> /\ timer /\ ~timer' /\ resetflg'
    BY <1>6 DEF Alarm, TypeOK
  <2>2. \/ pc' = pc
        \/ pc = "wait" /\ pc' = "expired"
        \/ pc = "wait2" /\ pc' = "reset"
    BY <1>6 DEF Alarm, AfterWait
  <2>3. QED
    BY <2>1, <2>2
<1>7. CASE WaitReturns
  <2>1. \A q \in Pids : proc'[q] = "free"
    <3>1. ASSUME NEW p \in Waited, Reap(p)
          PROVE  \A q \in Pids : proc'[q] = "free"
      BY <3>1, ReapOnly DEF Waited
    <3>2. CASE Waited = {} /\ UNCHANGED proc
      BY <1>7, <3>2 DEF WaitReturns, Waited, AfterWait, TypeOK
    <3>3. QED
      BY <1>7, <3>1, <3>2 DEF WaitReturns
  <2>2. QED
    BY <2>1, NoChildSuffices
<1>8. CASE Boot \/ Count \/ Loop \/ TestSchedule \/ Advance
  BY <1>8, <1>1 DEF Boot, Count, Loop, Call, TestSchedule, Advance, Terminating, Childless
<1>9. CASE Check \/ Stop
  <2>1. CASE Check
    BY <2>1, <1>1 DEF Check, TypeOK, Terminating, Childless
  <2>2. CASE Stop
    BY <2>2, PidsAssumption DEF Stop, NoPid
  <2>3. QED
    BY <1>9, <2>1, <2>2
<1>10. CASE Terminate \/ Signal \/ Expired
  BY <1>10 DEF Terminate, Signal, Expired
<1>11. CASE SigKill
  <2>1. \A q \in Pids : proc'[q] = "free" <=> proc[q] = "free"
    BY <1>11 DEF SigKill
  <2>2. QED
    BY <1>11, <2>1 DEF SigKill
<1>12. CASE ResetFlag \/ Disarm
  BY <1>12 DEF ResetFlag, Disarm
<1>13. CASE Fork \/ Fallback
  <2>1. NoChild
    BY <1>13 DEF Fork, Fallback
  <2>2. ASSUME NEW i, Spawn(i)
        PROVE  ChildInv'
    BY <2>1, <2>2 DEF Spawn, TypeOK
  <2>3. CASE ForkFails
    BY <2>1, <2>3, NoChildSuffices DEF ForkFails
  <2>4. QED
    BY <1>13, <2>2, <2>3 DEF Fork, Fallback
<1>14. CASE Assign
  BY <1>14 DEF Assign, TypeOK
<1>15. CASE TestRefresh \/ Stat1 \/ Stat2 \/ Restat1 \/ Restat2 \/ Recount
  BY <1>15, <1>1 DEF TestRefresh, Stat1, Stat2, Restat1, Restat2, Recount, Call,
                     Terminating, Childless
<1>16. CASE Open \/ Restore
  BY <1>16 DEF Open, Restore
<1>17. CASE UNCHANGED vars
  BY <1>17, <1>2 DEF vars
<1>18. QED
  BY <1>3, <1>4, <1>5, <1>6, <1>7, <1>8, <1>9, <1>10, <1>11, <1>12, <1>13, <1>14, <1>15,
     <1>16, <1>17 DEF Next, Main, CheckProgram, Reload, Environment

(* There is one child at most, and main() knows it at every point. *)
THEOREM ChildInvariant == Spec => []ChildInv
<1>1. Init => ChildInv
  BY DEF Init, ChildInv, OnlyChild, SavedPid, TargetIsChild, ChildGone, Taken
<1>2. TypeOK /\ ChildInv /\ [Next]_vars => ChildInv'
  BY ChildStep
<1>3. DataInv => TypeOK
  BY DEF DataInv
<1>4. QED
  BY DataInvariant, <1>1, <1>2, <1>3, PTL DEF Spec

(* Two programs started by the daemon are never alive together, under      *)
(* every interleaving of main, the handler, time outs and deaths.          *)
THEOREM OneProgramCorrect == Spec => []OneProgram
<1>1. ChildInv => OneProgram
  BY DEF ChildInv, OnlyChild, OneProgram, Taken, Live
<1>2. QED
  BY ChildInvariant, <1>1, PTL

(* A program that is alive is never lost: pid names it, also after a       *)
(* reload that failed has put the old pid back.                            *)
THEOREM TrackedCorrect == Spec => []Tracked
<1>1. ChildInv => Tracked
  BY DEF ChildInv, OnlyChild, Tracked, Taken, Live
<1>2. QED
  BY ChildInvariant, <1>1, PTL

(* No program starts before its time, from a table that is replaced at     *)
(* will, for every schedule and every number of entries.                   *)
THEOREM NoEarlyStartCorrect == Spec => []NoEarlyStart
<1>1. DataInv => NoEarlyStart
  BY DEF DataInv
<1>2. QED
  BY DataInvariant, <1>1, PTL

(***************************************************************************)
(* "command" is what runs.                                                 *)
(***************************************************************************)
LEMMA CommandStep ==
  ASSUME TypeOK, ChildInv, CommandInv, [Next]_vars
  PROVE  CommandInv'
<1> USE DEF CommandInv, Taken
<1>1. ASSUME UNCHANGED <<proc, prog, command, forkFailures>>,
             pc # "assign", pc' \notin {"assign", "fallback"}
      PROVE  CommandInv'
  BY <1>1
<1>2. ASSUME UNCHANGED <<prog, command, forkFailures, pc, entries, arg>>,
             \A q \in Pids : proc[q] = "free" => proc'[q] = "free"
      PROVE  CommandInv'
  BY <1>2
<1>3. ASSUME \A q \in Pids : proc'[q] = "free",
             forkFailures' = 0 => forkFailures = 0 /\ pc' # "fallback"
      PROVE  CommandInv'
  BY <1>3
<1>4. CASE Environment
  <2>1. CASE Tick \/ EditFile \/ RemoveFile
    BY <2>1, <1>2 DEF Tick, EditFile, RemoveFile
  <2>2. ASSUME NEW p \in Pids, Exit(p)
        PROVE  CommandInv'
    BY <2>2, <1>2 DEF Exit, Live, TypeOK
  <2>3. QED
    BY <1>4, <2>1, <2>2 DEF Environment
<1>5. CASE Alarm
  BY <1>5 DEF Alarm, AfterWait
<1>6. ASSUME NEW p \in Pids, Reap(p), ChildHandler \/ WaitReturns
      PROVE  CommandInv'
  <2>1. \A q \in Pids : proc'[q] = "free"
    BY <1>6, ReapOnly DEF ChildInv
  <2>2. forkFailures' = forkFailures /\ (pc' = "fallback" => pc = "fallback")
    BY <1>6 DEF ChildHandler, WaitReturns, Interrupt, AfterWait
  <2>3. QED
    BY <2>1, <2>2, <1>3
<1>7. CASE ChildHandler
  <2>1. CASE UNCHANGED <<proc, prog>>
    BY <1>7, <2>1 DEF ChildHandler, Interrupt, AfterWait
  <2>2. QED
    BY <1>6, <1>7, <2>1 DEF ChildHandler
<1>8. CASE WaitReturns
  <2>1. CASE UNCHANGED <<proc, prog>>
    BY <1>8, <2>1, <1>1 DEF WaitReturns, AfterWait
  <2>2. QED
    BY <1>6, <1>8, <2>1 DEF WaitReturns, Waited
<1>9. CASE Boot \/ Count \/ Loop \/ TestSchedule \/ Advance \/ Reload
  BY <1>9, <1>1 DEF Boot, Count, Loop, Call, TestSchedule, Advance, Reload, TestRefresh, Stat1,
                    Stat2, Restat1, Restat2, Open, Restore, Recount
<1>10. CASE Check \/ Stop \/ Terminate \/ Signal \/ Expired \/ ResetFlag \/ Disarm
  BY <1>10, <1>1 DEF Check, Stop, Terminate, Signal, Expired, ResetFlag, Disarm, TypeOK
<1>11. CASE SigKill
  BY <1>11 DEF SigKill
<1>12. CASE Fork \/ Fallback
  <2>1. NoChild
    BY <1>12 DEF Fork, Fallback, ChildInv, ChildGone
  <2>2. CASE ForkFails
    BY <2>1, <2>2, <1>3 DEF ForkFails, NoChild, TypeOK
  <2>3. CASE Fork /\ Spawn(arg)
    BY <2>1, <2>3 DEF Fork, Spawn, NoChild, TypeOK
  <2>4. CASE Fallback
    <3>1. forkFailures # 0
      BY <2>4 DEF Fallback
    <3>2. forkFailures' # 0
      BY <3>1, <2>4 DEF Fallback, Spawn, ForkFails, TypeOK
    <3>3. QED
      BY <3>2
  <2>5. QED
    BY <1>12, <2>2, <2>3, <2>4 DEF Fork
<1>13. CASE Assign
  BY <1>13 DEF Assign, TypeOK
<1>14. CASE UNCHANGED vars
  BY <1>14, <1>2 DEF vars
<1>15. QED
  BY <1>4, <1>5, <1>7, <1>8, <1>9, <1>10, <1>11, <1>12, <1>13, <1>14
  DEF Next, Main, CheckProgram

(* As long as no fork fails, check_program compares the wanted command     *)
(* line with the one the process was really started with.                  *)
THEOREM CommandCorrect == Spec => []CommandIsRunning
<1>1. Init => CommandInv
  BY DEF Init, CommandInv, Taken
<1>2. TypeOK /\ ChildInv /\ CommandInv /\ [Next]_vars => CommandInv'
  BY CommandStep
<1>3. CommandInv => CommandIsRunning
  BY DEF CommandInv, CommandIsRunning, Taken, Live
<1>4. DataInv => TypeOK
  BY DEF DataInv
<1>5. QED
  BY DataInvariant, ChildInvariant, <1>1, <1>2, <1>3, <1>4, PTL DEF Spec

(***************************************************************************)
(* The daemon implements the one-program slot.                             *)
(***************************************************************************)
RunningFacts ==
  /\ \A p \in Pids : Live(p) => Running = prog[p]
  /\ (\A p \in Pids : ~Live(p)) => Running = Null

LEMMA RunningIs == ChildInv => RunningFacts
<1> SUFFICES ASSUME ChildInv PROVE RunningFacts
  OBVIOUS
<1>1. \A p, q \in Pids : Live(p) /\ Live(q) => p = q
  BY DEF ChildInv, OnlyChild, Taken, Live
<1>2. ASSUME NEW p \in Pids, Live(p)
      PROVE  Running = prog[p]
  <2>1. (CHOOSE q \in Pids : Live(q)) = p
    BY <1>1, <1>2
  <2>2. QED
    BY <1>2, <2>1 DEF Running
<1>3. QED
  BY <1>2 DEF Running, RunningFacts

LEMMA RunningNext == ChildInv' => RunningFacts'
BY RunningIs, PTL

(* A step that keeps who is alive keeps Running. *)
LEMMA RunningKept ==
  ASSUME ChildInv, ChildInv', \A p \in Pids : Live(p)' <=> Live(p),
         \A p \in Pids : Live(p) => prog'[p] = prog[p]
  PROVE  Running' = Running
<1>1. CASE \E p \in Pids : Live(p)
  <2>1. PICK p \in Pids : Live(p)
    BY <1>1
  <2>2. Running = prog[p]
    BY <2>1, RunningIs DEF RunningFacts
  <2>3. Running' = prog'[p]
    BY <2>1, RunningNext DEF RunningFacts
  <2>4. QED
    BY <2>1, <2>2, <2>3
<1>2. CASE ~ \E p \in Pids : Live(p)
  BY <1>2, RunningIs, RunningNext DEF RunningFacts
<1>3. QED
  BY <1>1, <1>2

LEMMA SlotStep ==
  ASSUME DataInv, DataInv', ChildInv, ChildInv', [Next]_vars
  PROVE  [Slots!Next]_(Slots!vars)
<1> USE DEF Slots!vars
<1>1. ASSUME UNCHANGED <<proc, prog, entries, now>>
      PROVE  UNCHANGED Slots!vars
  <2>1. Running' = Running
    BY <1>1, RunningKept DEF Live
  <2>2. QED
    BY <1>1, <2>1
<1>2. ASSUME UNCHANGED <<entries, now>>, NoChild', \A p \in Pids : ~Live(p)
      PROVE  UNCHANGED Slots!vars
  <2>1. Running' = Running
    BY <1>2, RunningKept DEF NoChild, Taken, Live
  <2>2. QED
    BY <1>2, <2>1
<1>3. CASE Tick
  <2>1. Running' = Running
    BY <1>3, RunningKept DEF Tick, kernelVars, Live
  <2>2. Slots!Tick
    BY <1>3, <2>1 DEF Tick, Slots!Tick
  <2>3. QED
    BY <2>2 DEF Slots!Next
<1>4. CASE Boot \/ Open
  <2>1. Running' = Running
    BY <1>4, RunningKept DEF Boot, Open, kernelVars, Live
  <2>2. Range(entries') \subseteq Entry
    BY DEF DataInv, TypeOK, Range
  <2>3. now' = now
    BY <1>4 DEF Boot, Open
  <2>4. Slots!Revise
    BY <2>1, <2>2, <2>3 DEF Slots!Revise
  <2>5. QED
    BY <2>4 DEF Slots!Next
<1>5. ASSUME NEW p \in Pids, Exit(p)
      PROVE  Slots!Next
  <2>1. \A q \in Pids : ~Live(q)'
    <3>1. \A q \in Pids : Live(q) => q = p
      BY <1>5 DEF ChildInv, OnlyChild, Exit, Live, Taken
    <3>2. QED
      BY <1>5, <3>1 DEF Exit, Live, DataInv, TypeOK
  <2>2. Running' = Null
    BY <2>1, RunningNext DEF RunningFacts
  <2>3. Slots!Leave
    BY <1>5, <2>2 DEF Exit, Slots!Leave
  <2>4. QED
    BY <2>3 DEF Slots!Next
<1>6. ASSUME NEW p \in Pids, Reap(p), UNCHANGED <<entries, now>>
      PROVE  UNCHANGED Slots!vars
  <2>1. NoChild'
    BY <1>6, ReapOnly DEF ChildInv, DataInv, NoChild, Taken
  <2>2. \A q \in Pids : ~Live(q)
    BY <1>6 DEF Reap, ChildInv, OnlyChild, Taken, Live
  <2>3. QED
    BY <1>6, <2>1, <2>2, <1>2
<1>7. CASE ChildHandler
  BY <1>7, <1>6, <1>1 DEF ChildHandler
<1>8. CASE WaitReturns
  BY <1>8, <1>6, <1>1 DEF WaitReturns, Waited
<1>9. CASE SigKill
  <2>1. \A p \in Pids : Live(p)' <=> Live(p)
    BY <1>9 DEF SigKill, Live
  <2>2. Running' = Running
    BY <1>9, <2>1, RunningKept DEF SigKill
  <2>3. QED
    BY <1>9, <2>2 DEF SigKill
<1>10. ASSUME NEW i \in {arg, 0}, Spawn(i), Fork \/ Fallback
       PROVE  Slots!Next
  <2>1. NoChild /\ UNCHANGED <<entries, now>>
    BY <1>10 DEF Fork, Fallback, ChildInv, ChildGone
  <2>2. Running = Null
    BY <2>1, RunningIs DEF RunningFacts, NoChild, Taken, Live
  <2>3. i + 1 \in DOMAIN entries /\ entries[i + 1].stime <= now
    BY SMTT(30), <1>10 DEF Fork, Fallback, DataInv, TypeOK, TableInv, NoEarlyStart, InCheckProgram,
                 DefaultTime
  <2>4. Running' = entries[i + 1].command
    <3>1. PICK p \in Pids : proc' = [proc EXCEPT ![p] = "run"]
                            /\ prog' = [prog EXCEPT ![p] = entries[i + 1].command]
      BY <1>10 DEF Spawn
    <3>2. Live(p)' /\ prog'[p] = entries[i + 1].command
      BY <3>1 DEF DataInv, TypeOK, Live
    <3>3. QED
      BY <3>2, RunningNext DEF RunningFacts
  <2>5. Slots!Start
    BY <2>1, <2>2, <2>3, <2>4 DEF Slots!Start, Range
  <2>6. QED
    BY <2>5 DEF Slots!Next
<1>11. CASE Fork \/ Fallback
  <2>1. CASE ForkFails
    BY <1>11, <2>1, <1>1 DEF Fork, Fallback, ForkFails
  <2>2. QED
    BY <1>11, <2>1, <1>10 DEF Fork, Fallback
<1>12. CASE Count \/ Loop \/ TestSchedule \/ Advance
  BY <1>12, <1>1 DEF Count, Loop, TestSchedule, Advance
<1>13. CASE Check \/ Stop \/ Terminate \/ Signal \/ Expired \/ ResetFlag \/ Disarm \/ Assign
  BY <1>13, <1>1 DEF Check, Stop, Terminate, Signal, Expired, ResetFlag, Disarm, Assign
<1>14. CASE TestRefresh \/ Stat1 \/ Stat2 \/ Restat1 \/ Restat2 \/ Restore \/ Recount
  BY <1>14, <1>1 DEF TestRefresh, Stat1, Stat2, Restat1, Restat2, Restore, Recount
<1>15. CASE Alarm \/ EditFile \/ RemoveFile
  BY <1>15, <1>1 DEF Alarm, EditFile, RemoveFile
<1>16. CASE UNCHANGED vars
  BY <1>16, <1>1 DEF vars
<1>17. QED
  BY <1>3, <1>4, <1>5, <1>7, <1>8, <1>9, <1>11, <1>12, <1>13, <1>14, <1>15, <1>16
  DEF Next, Main, CheckProgram, Reload, Environment

(* The daemon, with its signals, time outs and reloads, implements the     *)
(* one-program slot: a program enters only an empty slot, by an entry of   *)
(* the schedule in force whose time has come.                              *)
THEOREM SlotCorrect == Spec => SlotSpec
<1>1. Init => Slots!Init
  BY DEF Init, Slots!Init, Running, Live, Range
<1>2. DataInv /\ DataInv' /\ ChildInv /\ ChildInv' /\ [Next]_vars => [Slots!Next]_(Slots!vars)
  BY SlotStep
<1>3. QED
  BY DataInvariant, ChildInvariant, <1>1, <1>2, PTL DEF Spec, SlotSpec, Slots!Spec
==============================================================================
