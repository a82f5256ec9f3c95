------------------------------ MODULE Scheduler ------------------------------
(***************************************************************************)
(* The scheduler daemon (codebase/superdarn/src.bin/os/schedule.1.4): it   *)
(* starts the control program a schedule file names for the present time,  *)
(* replaces it when the next entry is due, restarts it when it dies, and   *)
(* reloads the file.                                                       *)
(*                                                                         *)
(* The daemon is one process: main() and the functions it calls are        *)
(* broken into steps at the points where the SIGCHLD handler can matter,   *)
(* that is between two accesses to the scd_blk it shares with the handler. *)
(* The kernel's process table, its interval timer and the schedule file    *)
(* are modelled from how the code uses them.                               *)
(***************************************************************************)
EXTENDS ScheduleTable, FiniteSets

CONSTANTS Pids,             \* process ids the kernel may give to a child
          Installed,        \* programs fopen finds below USR_BINPATH
          Bodies,           \* contents the schedule file may be given
          Vanish,           \* TRUE: the file may be removed for a while
          Refresh,          \* seconds between two unconditional reloads
          MaxTime,          \* bound: the clock stops here
          MaxForkFailures   \* bound: how often fork may fail

NoPid == -1
Null == "Null"
NoFile == [mtime |-> -1, body |-> <<>>]

ASSUME PidsAssumption == Pids \subseteq Nat \ {0} /\ IsFiniteSet(Pids)
ASSUME InstalledAssumption == Installed \subseteq Programs
ASSUME BodiesAssumption == Bodies \subseteq Seq(Entry)
ASSUME NumbersAssumption ==
  /\ Refresh \in Nat \ {0}
  /\ MaxTime \in Nat
  /\ MaxForkFailures \in Nat
  /\ Vanish \in BOOLEAN

VARIABLES
  now,        \* the clock
  file,       \* the schedule file: [mtime, body], or NoFile
  proc,       \* the kernel's table: "free", "run", "doomed" (SIGKILL sent), "zombie"
  prog,       \* the command line each live or dead process was given
  sigchld,    \* SIGCHLD is pending
  timer,      \* the ITIMER_REAL of terminate is armed
  forkFailures, \* how often fork has failed
  pc,         \* where main() and its callees are
  pid, cnt, command, entries,  \* fields of the scd_blk "schedule"
  saved,      \* save_sched.pid: the only field a restore can change
  tval, slot, \* refresh.c: file time last acted on; then and tdy together
  resetflg,   \* execute.c: the time out of terminate has passed
  nstat1, nstat2, \* the st_mtime of the two locals of main()
  arg, ret,   \* check_program: its cnt, and the point it returns to
  target,     \* terminate: its prog_id
  child       \* what fork returned, before it is assigned to pid

kernelVars == <<proc, prog, sigchld, forkFailures>>
timerVars  == <<timer, resetflg>>
envVars    == <<now, file>>
tableVars  == <<entries, cnt>>
fileVars   == <<saved, tval, slot, nstat1, nstat2>>
callVars   == <<arg, ret, target, child>>
vars == <<now, file, proc, prog, sigchld, timer, forkFailures, pc, pid, cnt, command,
          entries, saved, tval, slot, resetflg, nstat1, nstat2, arg, ret, target, child>>

Live(p) == proc[p] \in {"run", "doomed"}

(* getpriority(PRIO_PROCESS, pid) succeeds for a zombie too. *)
Exists(p) == p \in Pids /\ proc[p] # "free"

(* fopen of the program file succeeds. *)
ConfirmProgram(c) == entries[c + 1].command \in Installed

Labels == { "boot", "count", "loop", "check", "stop", "terminate", "signal", "wait",
            "expired", "sigkill", "wait2", "reset", "disarm", "fork", "fallback", "assign",
            "refresh", "stat1", "stat2", "restat1", "restat2", "open", "restore",
            "recount", "due", "advance", "exit" }

Init ==
  /\ now = 0
  /\ file \in [mtime : {0}, body : Bodies] \cup (IF Vanish THEN {NoFile} ELSE {})
  /\ proc = [p \in Pids |-> "free"]
  /\ prog = [p \in Pids |-> Null]
  /\ sigchld = FALSE /\ timer = FALSE /\ forkFailures = 0
  /\ pc = "boot"
  /\ pid = NoPid /\ cnt = 0 /\ command = Null /\ entries = <<>>
  /\ saved = NoPid /\ tval = -1 /\ slot = -1 /\ resetflg = FALSE
  /\ nstat1 = -1 /\ nstat2 = -1
  /\ arg = 0 /\ ret = "loop" /\ target = NoPid /\ child = NoPid

(***************************************************************************)
(* The kernel and the users of the machine.                                *)
(***************************************************************************)
Tick ==
  /\ now < MaxTime
  /\ now' = now + 1
  /\ UNCHANGED <<file, kernelVars, timerVars, pc, pid, command, tableVars, fileVars, callVars>>

(* Somebody writes the file: its st_mtime is the second of the writing. *)
EditFile ==
  /\ \E b \in Bodies : file' = [mtime |-> now, body |-> b]
  /\ UNCHANGED <<now, kernelVars, timerVars, pc, pid, command, tableVars, fileVars, callVars>>

RemoveFile ==
  /\ Vanish
  /\ file' = NoFile
  /\ UNCHANGED <<now, kernelVars, timerVars, pc, pid, command, tableVars, fileVars, callVars>>

(* A control program ends, by itself or by a signal, and becomes a zombie. *)
Exit(p) ==
  /\ Live(p)
  /\ proc' = [proc EXCEPT ![p] = "zombie"]
  /\ sigchld' = TRUE
  /\ UNCHANGED <<prog, forkFailures, envVars, timerVars, pc, pid, command, tableVars,
                 fileVars, callVars>>

(***************************************************************************)
(* Signal handlers.                                                        *)
(***************************************************************************)
(* A waited-for child leaves the process table. *)
Reap(p) ==
  /\ proc[p] = "zombie"
  /\ proc' = [proc EXCEPT ![p] = "free"]
  /\ prog' = [prog EXCEPT ![p] = Null]

AfterWait ==
  [label \in {"wait", "wait2"} |-> IF label = "wait" THEN "expired" ELSE "reset"]

(* A handler that runs while main() is blocked in waitpid makes it return  *)
(* EINTR; one that runs just before the call does not.                     *)
Interrupt == 
  \/ pc' = pc
  \/ pc \in DOMAIN AfterWait /\ pc' = AfterWait[pc]

(* child_handler: the wait(NULL) reaps some zombie, fails at once if there *)
(* is no child at all, and blocks while all the children are alive.        *)
ChildHandler ==
  /\ sigchld
  /\ IF pid = NoPid
     THEN UNCHANGED <<proc, prog>>
     ELSE \/ \E p \in Pids : Reap(p)
          \/ (\A p \in Pids : proc[p] = "free") /\ UNCHANGED <<proc, prog>>
  /\ pid' = NoPid
  /\ sigchld' = FALSE
  /\ Interrupt
  /\ UNCHANGED <<forkFailures, envVars, timerVars, command, tableVars, fileVars, callVars>>

(* terminate_signal_handler.  The ten seconds are taken to be longer than  *)
(* the two system calls between setitimer and the blocking in waitpid.     *)
Alarm ==
  /\ timer
  /\ pc # "signal"
  /\ pc \in DOMAIN AfterWait => pc' = AfterWait[pc]
  /\ pc \notin DOMAIN AfterWait => pc' = pc
  /\ timer' = FALSE
  /\ resetflg' = TRUE
  /\ UNCHANGED <<kernelVars, envVars, pid, command, tableVars, fileVars, callVars>>

(***************************************************************************)
(* The steps of main().  A pending SIGCHLD is delivered when a system call *)
(* returns, before the next statement: every step but the return from      *)
(* waitpid needs ~sigchld.                                                 *)
(***************************************************************************)
At(label) == pc = label /\ ~sigchld
Goto(label) == pc' = label

(* check_program(&schedule, index), which returns to the label back. *)
Call(index, back) ==
  /\ arg' = IF index < 0 THEN 0 ELSE index
  /\ ret' = back
  /\ Goto("check")

(***************************************************************************)
(* Faulty variants of some of the steps below, as a slip in the code would *)
(* make them: no specification uses them, they show that the properties    *)
(* can fail.                                                               *)
(***************************************************************************)
Loop_noRestart ==
  /\ At("loop")
  /\ Goto("refresh")
  /\ UNCHANGED <<kernelVars, timerVars, envVars, pid, command, tableVars, fileVars, callVars>>

Stop_notTheOld ==
  /\ At("stop")
  /\ Goto("fork")
  /\ UNCHANGED <<kernelVars, timerVars, envVars, pid, command, tableVars, fileVars, callVars>>

Expired_noSigKill == 
  /\ At("expired")
  /\ Goto("disarm")
  /\ UNCHANGED <<kernelVars, timerVars, envVars, pid, command, tableVars, fileVars, callVars>>

SigKill_again ==
  /\ At("sigkill")
  /\ Goto("wait2")
  /\ UNCHANGED <<kernelVars, timerVars, envVars, pid, command, tableVars, fileVars, callVars>>

Assign_noStrcpy ==
  /\ At("assign")
  /\ pid' = child
  /\ child' = NoPid
  /\ Goto(ret)
  /\ UNCHANGED <<command, kernelVars, timerVars, envVars, tableVars, fileVars, arg, ret, target>>

Restore_stalePid ==
  /\ At("restore")
  /\ pid' = NoPid
  /\ Goto("recount")
  /\ UNCHANGED <<kernelVars, timerVars, envVars, command, tableVars, fileVars, callVars>>

Advance_sameCnt ==
  /\ At("advance")
  /\ Goto("loop")
  /\ UNCHANGED <<kernelVars, timerVars, envVars, pid, command, tableVars, fileVars, callVars>>

(***************************************************************************)
(* Start of main() and the top of its loop.                                *)
(***************************************************************************)
Boot ==
  /\ At("boot")
  /\ IF file # NoFile /\ Loads(file.body)
     THEN /\ entries' \in Sorted(Kept(file.body))
          /\ Goto("count")
     ELSE UNCHANGED entries /\ Goto("exit")
  /\ UNCHANGED <<cnt, kernelVars, timerVars, envVars, pid, command, fileVars, callVars>>

Count ==
  /\ At("count")
  /\ cnt' = DueCount(entries, now)
  /\ Call(cnt' - 1, "loop")
  /\ UNCHANGED <<entries, kernelVars, timerVars, envVars, pid, command, fileVars, target, child>>

(* The top of the loop, with the sleep(5) of a dead program. *)
Loop ==
  /\ At("loop")
  /\ IF pid = NoPid
     THEN Call(cnt - 1, "refresh")
     ELSE Goto("refresh") /\ UNCHANGED <<arg, ret>>
  /\ UNCHANGED <<kernelVars, timerVars, envVars, pid, command, tableVars, fileVars, target, child>>

(***************************************************************************)
(* check_program, with terminate and execute inlined.                      *)
(***************************************************************************)
Check ==
  /\ At("check")
  /\ IF \/ Exists(pid) /\ command = entries[arg + 1].command
        \/ ~ConfirmProgram(arg)
     THEN Goto(ret)
     ELSE Goto("stop")
  /\ UNCHANGED <<kernelVars, timerVars, envVars, pid, command, tableVars, fileVars, callVars>>

Stop ==
  /\ At("stop")
  /\ Goto(IF pid = NoPid THEN "fork" ELSE "terminate")
  /\ UNCHANGED <<kernelVars, timerVars, envVars, pid, command, tableVars, fileVars, callVars>>

(* terminate(ptr->pid): pid is read again, after a line has been logged. *)
Terminate ==
  /\ At("terminate")
  /\ target' = pid
  /\ timer' = TRUE
  /\ Goto("signal")
  /\ UNCHANGED <<resetflg, kernelVars, envVars, pid, command, tableVars, fileVars, arg, ret, child>>

(* kill(prog_id, SIGUSR1).  What a program does of it is up to the         *)
(* program: Exit(p) may follow or not.                                     *)
Signal ==
  /\ At("signal")
  /\ Goto("wait")
  /\ UNCHANGED <<kernelVars, timerVars, envVars, pid, command, tableVars, fileVars, callVars>>

(* The children waitpid(target) waits for: -1 stands for any child. *)
Waited == { p \in Pids : proc[p] # "free" /\ target \in {p, NoPid} }

WaitReturns ==
  /\ pc \in DOMAIN AfterWait
  /\ \/ \E p \in Waited : Reap(p)
     \/ Waited = {} /\ ~sigchld /\ UNCHANGED <<proc, prog>>
  /\ Goto(AfterWait[pc])
  /\ UNCHANGED <<sigchld, forkFailures, timerVars, envVars, pid, command, tableVars,
                 fileVars, callVars>>

Expired ==
  /\ At("expired")
  /\ Goto(IF resetflg THEN "sigkill" ELSE "disarm")
  /\ UNCHANGED <<kernelVars, timerVars, envVars, pid, command, tableVars, fileVars, callVars>>

SigKill ==
  /\ At("sigkill")
  /\ proc' = [p \in Pids |-> IF proc[p] = "run" /\ target \in {p, NoPid} THEN "doomed" ELSE proc[p]]
  /\ Goto("wait2")
  /\ UNCHANGED <<prog, sigchld, forkFailures, timerVars, envVars, pid, command, tableVars,
                 fileVars, callVars>>

ResetFlag ==
  /\ At("reset")
  /\ resetflg' = FALSE
  /\ Goto("disarm")
  /\ UNCHANGED <<timer, kernelVars, envVars, pid, command, tableVars, fileVars, callVars>>

(* The end of terminate.  A time out that fires between the test of        *)
(* resetflg and this point leaves it set for the next call.                *)
Disarm ==
  /\ At("disarm")
  /\ timer' = FALSE
  /\ target' = NoPid
  /\ Goto("fork")
  /\ UNCHANGED <<resetflg, kernelVars, envVars, pid, command, tableVars, fileVars, arg, ret,
                 child>>

(* execute(): fork gives some unused pid, or fails.  A child whose execv   *)
(* fails exits at once, which Exit(p) covers.                              *)
Spawn(index) ==
  /\ \E p \in Pids :
       /\ proc[p] = "free"
       /\ proc' = [proc EXCEPT ![p] = "run"]
       /\ prog' = [prog EXCEPT ![p] = entries[index + 1].command]
       /\ child' = p
  /\ Goto("assign")
  /\ UNCHANGED <<forkFailures, pid>>

ForkFails ==
  /\ forkFailures < MaxForkFailures
  /\ forkFailures' = forkFailures + 1
  /\ pid' = NoPid
  /\ UNCHANGED <<proc, prog, child>>

Fork ==
  /\ At("fork")
  /\ Spawn(arg) \/ (ForkFails /\ Goto(IF ConfirmProgram(0) THEN "fallback" ELSE ret))
  /\ UNCHANGED <<sigchld, timerVars, envVars, command, tableVars, fileVars, arg, ret, target>>

(* The default program is tried when the wanted one could not be forked. *)
Fallback ==
  /\ At("fallback")
  /\ Spawn(0) \/ (ForkFails /\ Goto(ret))
  /\ UNCHANGED <<sigchld, timerVars, envVars, command, tableVars, fileVars, arg, ret, target>>

(* pid is given what fork returned; command is the wanted program even     *)
(* when it is the default one that was started.                            *)
Assign ==
  /\ At("assign")
  /\ pid' = child
  /\ child' = NoPid
  /\ command' = entries[arg + 1].command
  /\ Goto(ret)
  /\ UNCHANGED <<kernelVars, timerVars, envVars, tableVars, fileVars, arg, ret, target>>

(***************************************************************************)
(* test_refresh and the reloading of the file.                             *)
(***************************************************************************)
Slot == now \div Refresh

TestRefresh ==
  /\ At("refresh")
  /\ IF file = NoFile
     THEN Goto("stat1") /\ UNCHANGED <<tval, slot>>
     ELSE /\ tval' = file.mtime
          /\ slot' = Slot
          /\ Goto(IF tval \notin {-1, file.mtime} \/ slot \notin {-1, Slot}
                  THEN "stat1" ELSE "due")
  /\ UNCHANGED <<saved, nstat1, nstat2, kernelVars, timerVars, envVars, pid, command,
                 tableVars, callVars>>

(* A stat that fails leaves the local as it was: the first time, an        *)
(* uninitialized value, which may be any time at all.                      *)
Garbage == -1..MaxTime

Stat1 ==
  /\ At("stat1")
  /\ nstat1' \in (IF file = NoFile THEN Garbage ELSE {file.mtime})
  /\ Goto("stat2")
  /\ UNCHANGED <<saved, tval, slot, nstat2, kernelVars, timerVars, envVars, pid, command,
                 tableVars, callVars>>

Stat2 ==
  /\ At("stat2")
  /\ nstat2' \in (IF file = NoFile THEN Garbage ELSE {file.mtime})
  /\ Goto(IF nstat1 = nstat2' THEN "open" ELSE "restat1")
  /\ UNCHANGED <<saved, tval, slot, nstat1, kernelVars, timerVars, envVars, pid, command,
                 tableVars, callVars>>

(* The loop that waits for the file to stay unchanged for ten seconds. *)
Restat1 ==
  /\ At("restat1")
  /\ nstat1' = IF file = NoFile THEN nstat1 ELSE file.mtime
  /\ Goto("restat2")
  /\ UNCHANGED <<saved, tval, slot, nstat2, kernelVars, timerVars, envVars, pid, command,
                 tableVars, callVars>>

Restat2 ==
  /\ At("restat2")
  /\ nstat2' = IF file = NoFile THEN nstat2 ELSE file.mtime
  /\ Goto(IF nstat1 = nstat2' THEN "open" ELSE "restat1")
  /\ UNCHANGED <<saved, tval, slot, nstat1, kernelVars, timerVars, envVars, pid, command,
                 tableVars, callVars>>

(* fopen, the copy to save_sched and load_schedule.  When the loading      *)
(* fails the table is garbage until the copy is put back, before anything  *)
(* reads it; so it is left alone here.                                     *)
Open ==
  /\ At("open")
  /\ IF file = NoFile
     THEN Goto("recount") /\ UNCHANGED <<saved, tableVars>>
     ELSE /\ saved' = pid
          /\ IF Loads(file.body)
             THEN entries' \in Sorted(Kept(file.body)) /\ cnt' = 0 /\ Goto("recount")
             ELSE UNCHANGED tableVars /\ Goto("restore")
  /\ UNCHANGED <<tval, slot, nstat1, nstat2, kernelVars, timerVars, envVars, pid, command,
                 callVars>>

(* The whole structure is put back, with the pid it had: a SIGCHLD handled *)
(* in between is undone.                                                   *)
Restore ==
  /\ At("restore")
  /\ pid' = saved
  /\ Goto("recount")
  /\ UNCHANGED <<kernelVars, timerVars, envVars, command, tableVars, fileVars, callVars>>

Recount ==
  /\ At("recount")
  /\ cnt' = DueCount(entries, now)
  /\ Call(cnt' - 1, "due")
  /\ nstat1' = -1 /\ nstat2' = -1 /\ saved' = NoPid
  /\ UNCHANGED <<tval, slot, entries, kernelVars, timerVars, envVars, pid, command, target, child>>

(***************************************************************************)
(* test_schedule, and the change to the next entry.                        *)
(***************************************************************************)
TestSchedule ==
  /\ At("due")
  /\ IF NextIsDue(entries, cnt, now)
     THEN Call(cnt, "advance")
     ELSE Goto("loop") /\ UNCHANGED <<arg, ret>>
  /\ UNCHANGED <<kernelVars, timerVars, envVars, pid, command, tableVars, fileVars, target, child>>

Advance ==
  /\ At("advance")
  /\ cnt' = DueCount(entries, now)
  /\ Goto("loop")
  /\ UNCHANGED <<entries, kernelVars, timerVars, envVars, pid, command, fileVars, callVars>>

CheckProgram ==
  \/ Check \/ Stop \/ Terminate \/ Signal \/ WaitReturns \/ Expired \/ SigKill \/ ResetFlag
  \/ Disarm \/ Fork \/ Fallback \/ Assign

Reload ==
  TestRefresh \/ Stat1 \/ Stat2 \/ Restat1 \/ Restat2 \/ Open \/ Restore \/ Recount

Main == Boot \/ Count \/ Loop \/ CheckProgram \/ Reload \/ TestSchedule \/ Advance

Environment == Tick \/ EditFile \/ RemoveFile \/ \E p \in Pids : Exit(p)

Next == Main \/ ChildHandler \/ Alarm \/ Environment

(***************************************************************************)
(* The daemon and its handlers keep running, the clock ticks, the timer    *)
(* fires and SIGKILL kills.  Nothing is assumed of a program that is left  *)
(* alone or sent SIGUSR1, nor of the users who edit the file.              *)
(***************************************************************************)
Fairness ==
  /\ WF_vars(Main)
  /\ WF_vars(ChildHandler)
  /\ WF_vars(Alarm)
  /\ WF_vars(Tick)
  /\ \A p \in Pids : WF_vars(proc[p] = "doomed" /\ Exit(p))

Spec == Init /\ [][Next]_vars
FairSpec == Spec /\ Fairness

(***************************************************************************)
(* What the daemon promises.                                               *)
(***************************************************************************)
TypeOK ==
  /\ now \in 0..MaxTime
  /\ file \in [mtime : Nat, body : Bodies] \cup {NoFile}
  /\ proc \in [Pids -> {"free", "run", "doomed", "zombie"}]
  /\ prog \in [Pids -> Programs \cup {Null}]
  /\ sigchld \in BOOLEAN /\ timer \in BOOLEAN /\ resetflg \in BOOLEAN
  /\ forkFailures \in 0..MaxForkFailures
  /\ pc \in Labels
  /\ {pid, saved, target, child} \subseteq Pids \cup {NoPid}
  /\ cnt \in 0..Len(entries) /\ arg \in Nat
  /\ command \in Programs \cup {Null}
  /\ entries \in Seq(Entry)
  /\ {tval, slot, nstat1, nstat2} \subseteq Int
  /\ ret \in {"loop", "refresh", "due", "advance"}

(* The radar has one transmitter: however deaths, time outs and reloads    *)
(* interleave with terminate and execute, two programs started by the      *)
(* daemon are never alive together.                                        *)
OneProgram == \A p, q \in Pids : Live(p) /\ Live(q) => p = q

(* The daemon never loses a program that is alive: the SIGCHLD handler, and *)
(* the copying back of the whole scd_blk when a reload fails, overwrite pid *)
(* only when the program it names is dead.                                 *)
Tracked == \A p \in Pids : Live(p) => p \in {pid, child}

InCheckProgram == { "check", "stop", "terminate", "signal", "wait", "expired", "sigkill",
                    "wait2", "reset", "disarm", "fork", "fallback", "assign" }

(* check_program is given the index of an entry that exists and is due: no *)
(* program starts before its time, though the clock moves on and the table *)
(* is replaced between the computing of cnt and the fork.                  *)
NoEarlyStart ==
  pc \in InCheckProgram => arg < Len(entries) /\ entries[arg + 1].stime <= now

(* As long as no fork has failed, "command", by which check_program decides *)
(* that nothing has to change, is what the process "pid" was started with. *)
CommandIsRunning ==
  forkFailures = 0 /\ pc # "assign" => \A p \in Pids : Live(p) /\ p = pid => prog[p] = command

(* terminate always comes to an end, even for a program that ignores       *)
(* SIGUSR1.                                                                *)
TerminateReturns == pc = "signal" ~> pc = "fork"

(* A death the handler has recorded in pid, at whatever point of the loop, *)
(* is followed by a new start.                                             *)
RecordedDeathRestarted ==
  pc \notin {"boot", "exit"} /\ pid = NoPid /\ child = NoPid ~> \E p \in Pids : Live(p)

(* An entry that becomes due does not stay pending.                        *)
DueEntryTaken == cnt > 0 /\ NextIsDue(entries, cnt, now) ~> ~NextIsDue(entries, cnt, now)

(***************************************************************************)
(* The inductive invariant behind the safety properties.                   *)
(***************************************************************************)
Taken(p) == proc[p] # "free"
NoChild == \A p \in Pids : ~Taken(p)

(* There is at most one child, and the daemon knows it by this name: what  *)
(* fork returned until it is assigned, pid after that.                     *)
OnlyChild == \A p \in Pids : Taken(p) => p = IF pc = "assign" THEN child ELSE pid

(* save_sched names the same child. *)
SavedPid == pc = "restore" => \A p \in Pids : Taken(p) => p = saved

(* terminate waits for the child there is. *)
TargetIsChild ==
  pc \in {"signal", "wait", "expired", "sigkill", "wait2"} =>
    \A p \in Pids : Taken(p) => p = target

(* terminate leaves no child: if the first waitpid did not get it, the     *)
(* time out has passed, and no second one can interrupt the second wait.   *)
ChildGone ==
  /\ pc \in {"reset", "disarm", "fork", "fallback"} => NoChild
  /\ pc = "expired" /\ ~resetflg => NoChild
  /\ pc \in {"expired", "sigkill", "wait2"} /\ timer => NoChild

ChildInv == OnlyChild /\ SavedPid /\ TargetIsChild /\ ChildGone

(* The child runs what "command" says, or will say once Assign has run.    *)
CommandInv ==
  forkFailures = 0 =>
    /\ pc # "fallback"
    /\ \A p \in Pids : Taken(p) =>
         prog[p] = IF pc = "assign" THEN entries[arg + 1].command ELSE command

(* A table that is in use starts with a default entry, and the entries     *)
(* before cnt are due.                                                     *)
TableInv ==
  /\ pc = "boot" => cnt = 0
  /\ pc \notin {"boot", "exit"} => Len(entries) > 0 /\ entries[1].stime = DefaultTime
  /\ \A i \in 1..cnt : entries[i].stime <= now

(***************************************************************************)
(* What the documentation, the comments and the log messages say and the   *)
(* code does not do in every behaviour.                                    *)
(***************************************************************************)
RunsPid == pid \in Pids /\ proc[pid] = "run"

(* schedule.doc.xml: the file says "what time and date a program is due to *)
(* start".  Back at the top of its loop, the daemon runs the entry that was *)
(* due when it last looked at the clock.                                   *)
FollowsSchedule ==
  pc = "loop" /\ RunsPid =>
    command = entries[IF cnt = 0 THEN 1 ELSE cnt].command

(* schedule.c: "Control program not running - Failed or Died", "trying to  *)
(* restart": when no program is alive, one is started.                     *)
DeathRestarted ==
  (pc \notin {"boot", "exit"} /\ \A p \in Pids : ~Live(p)) ~> \E p \in Pids : Live(p)

(* The daemon implements the one-program slot.                             *)
Running ==
  IF \E p \in Pids : Live(p) THEN prog[CHOOSE p \in Pids : Live(p)] ELSE Null

Slots == INSTANCE ControlSlot
           WITH Idle <- Null, Entries <- Entry, running <- Running, schedule <- Range(entries)

SlotSpec == Slots!Spec
==============================================================================
