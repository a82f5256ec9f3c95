# TLA+ models of the SuperDARN radar operating software

This directory is the formal side of `rst-ros`, the software that operates a SuperDARN radar:
TLA+ specifications of the programs that run beside the radar, TLC configurations that check
them on small instances, and proofs, checked by TLAPS, of what holds for every instance.
Everything is translated from the C code under `src/`; each definition names the lines it stands
for in `PROJECT.json` ("map").

Contents

1. The system: parts, state, operations, interactions
2. Modules and plan
3. The scheduler
4. The server of the real-time data (the child of rtserver)
5. The shell server
6. The record writers
7. From the control program to the clients' server (rtserver)
8. The error log
9. The link to the radar
10. What is proved, and how
11. Where the code and its documents part
12. What is only model-checked, and what is not modelled

How to run: `tlc -config MCScheduler_safety.cfg MCScheduler`, and likewise for the other
configurations (a run's module and configuration are listed under "runs" in `PROJECT.json`);
`tlapm SchedulerProofs.tla`, and likewise for the other `*Proofs` modules.


## 1. The system

    schedule file                              users
         |                                       |
     scheduler --fork, SIGUSR1, SIGKILL-->  control program <--poll--> shellserver <--> radarshell
                                             |    |    |
                     commands to the radar --+    |    +-- ErrLog messages --> errlog
                     (radar, ROS server)          |
                                        rmsg requests over TCP
                               +----------+-------+------+-------------+
                            iqwrite  rawacfwrite  fitacfwrite      rtserver
                               |          |           |          (parent: operate)
                             files      files       files              | pipe
                                                                 rtserver's child
                                                                   | | |  TCP
                                                              clients, relays

A radar has one transmitter, hence one control program at a time. It scans the sky beam by beam;
after each beam (an integration) it sends the record to four tasks and polls the shell server.
All the daemons are long-lived, serve each connection from a forked child or from a `select`
loop, and share state with signal handlers or through mapped memory. There are no locks.
Nothing is persistent but the data files, the schedule file and the logs.

### Components

Paths: `os/` is `codebase/superdarn/src.bin/os/`, `lib/` is `codebase/superdarn/src.lib/os/`,
`usr/` is `usr/codebase/superdarn/`.

**Scheduler daemon** (`os/schedule.1.4`). State: `scd_blk` (the table of entries, the number
`cnt` of those that are due, the pid and the command line of the running program), written by
`main()` and by the SIGCHLD handler; two clocks of `refresh.c`; the time-out flag and timer of
`execute.c`. Operations: load, sort and reload the file, find the entry for the time, start, stop
and restart a program. Hard: the handler may run between any two statements and waits for a
child itself; a stop may take a SIGUSR1, ten seconds and a SIGKILL; the reload saves and restores
the whole structure, the pid included; a file may vanish or be half written. Correct: one program
at a time, the daemon never loses it, none starts early, a dead one is restarted, an entry that
falls due is taken, a stop ends.

**rtserver's parent** (`os/rtserver.1.5/rtserver.c`, `fork.c`, `fitpacket.c`), with Connex
(`base/src.lib/tcpip/cnx.1.17`). State, per connection of a control program: the last record of
each kind, the end of a pipe, the child behind it. Operations: fork the child, the tasks'
protocol, each wanted record framed and written into a pipe that does not block. Hard: a pipe that
is full in the middle of a frame, whose reader may be slow, gone, or have no port because the
child of the run before still holds it; a program that waits for the next answer. Correct: the
pipe carries the frames of the run's records in order, a cut one lacks its tail only, nothing is
lost while somebody reads fast enough, the program is never held up, the port is handed on.

**rtserver's child** (`os/rtserver.1.5/socket.c`, `connect.c`, `msgmem.c`). State: a list of
client sockets with a buffer of bytes each. Operations: accept, read the pipe, copy to all the
buffers, write what the sockets take, close. Hard: clients come and go between `select` and the
use of its answer; slots are reused; slow clients; a full list. Correct: bytes in order and
once, only the oldest are lost, every slot in use is served, waiting clients are answered,
leaving ones noticed, the process ends with its parent.

**shellserver** (`os/shellserver.1.3`), with `RadarShell` of `lib/rshell.1.1` in the control
programs and **radarshell** (`os/radarshell.1.1`). State: a mapped structure with two state words
and the parameters, shared by all the children. Operations: a control program polls, and is told
to go on, to send its parameters, or to take new ones; a shell asks for them and leaves new ones.
Hard: the children share the structure without a lock; a shell may be killed, a program stopped,
at every point. Correct: the parties never lose step, a poll is always answered, the parameters
a user sees are whole and current, those uploaded are applied, once.

**Record writers** `fitacfwrite`, `rawacfwrite`, and **iqwrite** (`os/*write.1.*`), with the
libraries `lib/rmsgsnd.1.1`, `lib/rmsgrcv.1.1`, `lib/tcpipmsg.1.1` and `lib/fio.1.2`. State, per
connection: the file name, a flag that a file was asked for, the blocks of the last message.
Operations: reset, open, close, data, each answered; make a new file, append a record. Hard: a
program stopped in the middle of a request; the child of a stopped program that works on beside
that of the next; the answer given before the record is stored; files made in the same second;
failing calls. Correct: a file belongs to one run, holds its records in order and once, at most
one damaged record, at the end; what was answered is stored; iqwrite's samples are those of the
record's own integration.

**Control programs** (`usr/src.bin/os/cp`), the **operations library** (`usr/src.lib/os/ops.1.10`),
and the **site library** (`usr/src.lib/os/site.ros.1.0`) with the **radar simulator**
(`os/radar.1.3`). State: the place in the scan, the file period, the connection to the radar and
a flag for a pending exit. Operations: set-up, integrate, poll the shell, send records, re-open
files; commands to the radar and their answers; an exit on SIGINT, SIGUSR1 or SIGPIPE. Hard: an
exit from a signal handler in the middle of a command of a protocol whose bytes carry no label; a
radar that refuses or fails; the day rollover. Correct: command and answer stay in step, a stop
ends the program, the radar is released, files change at the period.

**errlog** (`os/errlog.1.3`), with `ErrLog` of `lib/errlog.1.2` in every other program. State: a
child per connection, a file per day that all the children write to. Operations: a message in six
pieces, an answer, the line appended, a new file on a new day. Hard: callers wait for the answer;
a task may end in the middle of a message; two children may make the day's file; the processes a
task forks share its connection. Correct: a line is one report, whole and in order, an answer is
for the report it follows, no line is lost, a call returns.

**Shared memory** (`base/src.lib/memory/shmem.1.2`): the samples between the site library and
iqwrite. **Relays**: `ipserver`, `buffer_server`, `rtpoll`, `rtmultiplex`, `fitacfserver` and the
format converters, off-site relatives of rtserver's child. **Scripts** `start.radar`,
`stop.radar`. **Frequency table**, **mktsg**: no state. **Data formats, processing, plotting,
IDL**: sequential computations on data files.

The hazards of each, at their lines, are listed in `PROJECT.json` ("hazards") with the properties
that would catch them, or with the reason why none does yet.


## 2. Modules and plan

| module | models | extends or instantiates |
|---|---|---|
| `ScheduleTable` | the table: `load_schedule`, `set_schedule`, `test_schedule` | |
| `Scheduler` | the daemon, its handlers, the kernel's process table | `ScheduleTable`; refines `ControlSlot` |
| `ControlSlot` | abstract: a slot for one program | |
| `FanOut` | rtserver's child and its clients | |
| `ShellServer` | the children of shellserver, control programs, shells | |
| `ShellSession` | the same with the history of a user's session | `ShellServer` |
| `TaskWriter` | a control program and the children of a writer | |
| `RecordFeed` | rtserver's parents, their pipes and when their children come and go | |
| `ErrLog` | `ErrLog` in the tasks, the children of errlog and the files | |
| `RadarLink` | the site library, its signal handler, the radar | |
| `MC*` | instances for TLC | the module of the name |
| `*Proofs` | theorems (`ShellServerProofs` those of `ShellSession` too, which it extends) | the module of the name, TLAPS |

The order follows importance: what keeps a radar on the air first (scheduler), then what carries
the data out (fan-out, writers), then what the operators use (shell).

Then what stands between them: the feed of the server, the log that all the tasks wait for, the
link to the radar.

Written: the modules above, with the proofs of section 10. To come, in this order:

1. An abstract store of records (a log per run, of which any suffix may be missing while faults
   are allowed) that `TaskWriter` is shown to implement, step by step from its proved invariants.
2. `SampleShare`: `iqwrite` and the shared memory it reads samples from after its answer, on top
   of `TaskWriter`: whether the samples stored with a record are those of its integration, and
   what becomes of the child when a program that ends has removed the memory.
3. `RecordFeed` composed with `FanOut`, so that the bytes a client gets have frames: one that
   keeps up and was there from the first byte receives whole frames.
4. `Operations`: `OpsFindSkip` with its overflow of microseconds, `OpsReOpen` against a calendar,
   as operators checked against reference definitions.
5. The differences of the relays; `buffer_server`.

The runs are few: each answers a question of its own, and a later module takes the place of a run
whose question a theorem or a stronger run has come to answer.

| run | instance | question |
|---|---|---|
| `scheduler_safety` | `MCScheduler_safety.cfg` | is there one program, the right one, never lost, never early? |
| `scheduler_live` | `MCScheduler_live.cfg` | does a stop end, is a death repaired, an entry taken? |
| `scheduler_zombie` | `MCScheduler_zombie.cfg` | violation: is every death repaired? |
| `fanout_safety` | `MCFanOut_safety.cfg` | what do clients receive, which slots are served? |
| `fanout_live` | `MCFanOut_live.cfg` | is everybody served, does the child end? |
| `shell_safety` | `MCShellServer_safety.cfg` | do the parties stay in step, does the radar go on? |
| `shell_session` | `MCShellSession_live.cfg` | what may a single user count on? |
| `writer_records` | `MCTaskWriter_pass.cfg` | what is in the files? |
| `feed` | `MCRecordFeed_pass.cfg` | what is in the pipe, is the program held up, is the port handed on? |
| `feed_restart` | `MCRecordFeed_restart.cfg` | violation: is a serving child that ended replaced? |
| `errlog` | `MCErrLog_pass.cfg` | what is in the log, do calls return the right answer? |
| `radar` | `MCRadarLink_pass.cfg` | do the two ends stay in step, does a stop end? |

Six more configurations are refutations that section 11 describes and the list leaves out. All
but that of `radar` say `CHECK_DEADLOCK FALSE`: the clock, the stream, the records and the runs
are bounded, and a daemon may end (the scheduler without a usable file, rtserver's child
with its parent), so that states without a successor are part of every instance. That nobody
waits for ever is stated by the liveness properties instead. In `radar` nothing is bounded that
the two ends need, so deadlock is checked, and only the end of both is allowed to be final.

The type invariants are proved rather than run. Every invariant that a run checks is also a theorem,
and so are the action properties `RefusedWhenFull` and `AppliedOnce`.

Definitions with a suffix (`Loop_noRestart`, `CloseSocks_shrink`, ...) are faulty variants of the
definition they are named for. No specification uses them; put in the place of the original each
makes the property named beside it in `PROJECT.json` ("mutants") fail, which shows that the
property depends on that piece of the code.


## 3. The scheduler: `ScheduleTable`, `Scheduler`, `ControlSlot`

### State and actions

`ScheduleTable` is the data of the daemon. A schedule file is a sequence of the lines that parse
(`Bodies`); `Sorted` gives every table `qsort`, which is not stable, may leave; `Loads` says
whether the file has a default line; `DueCount` and `NextIsDue` are `set_schedule` and
`test_schedule`.

`Scheduler` has the variables of the program (`pid`, `cnt`, `command`, `entries` of the `scd_blk`;
`saved`, the copy made for a reload, of which only the pid can differ from the original;
`tval` and `slot` of `refresh.c`, where `slot` merges the two numbers `then` and `tdy`;
`resetflg` of `execute.c`; the two `st_mtime` of `main`), a program counter `pc`, and the
kernel's part: the process table `proc` with the states *free*, *run*, *doomed* (SIGKILL was sent)
and *zombie*, a pending SIGCHLD, the interval timer, the clock and the file.

`main` and the functions it calls are broken into steps where the handler of SIGCHLD can matter:
between two accesses to the structure it writes. So `Check`, `Stop` and `Terminate` read `pid` one
after the other, `Fork` and `Assign` are two steps, and `Open` and `Restore` are two.

| action | code |
|---|---|
| `Boot`, `Count`, `Loop` | `schedule.c` 183-206 |
| `Check`, `Stop`, `Fork`, `Fallback`, `Assign` | `check_program` |
| `Terminate` ... `Disarm` | `terminate`: SIGUSR1, wait, time out, SIGKILL, wait |
| `TestRefresh`, `Stat1` ... `Restat2`, `Open`, `Restore`, `Recount` | the reload, 208-237 |
| `TestSchedule`, `Advance` | the next entry, 239-243 |
| `ChildHandler`, `Alarm` | the signal handlers |
| `Exit`, `Tick`, `EditFile`, `RemoveFile` | programs, clock, users |

Assumptions. A pending SIGCHLD is delivered when a system call returns, before the next
statement (`At` needs `~sigchld`), except that it may come together with the return of `waitpid`.
The ten seconds of the timer are longer than the two calls between `setitimer` and the blocking
in `waitpid`. `kill(-1, SIGKILL)`, when the target was overwritten, reaches the daemon's own
child; what else it reaches is not modelled. The uninitialized `st_mtime` that `main` compares
when `stat` fails is any time. When a load fails the table is garbage until `Restore`; nothing
reads it in between, so it is left alone. The daily log is left out.

### Properties

- `OneProgram`: two programs started by the daemon are never alive together. `Tracked`: a living
  one is always named by `pid` (or by the result of a `fork` not yet assigned).
- `NoEarlyStart`: `check_program` is only given the index of an entry that exists and is due,
  although the clock moves and the table is replaced between its computation and its use.
- `CommandIsRunning`: as long as no `fork` has failed, `command`, on which the decision to leave a
  program alone rests, is what the process was started with. (After a failing `fork` it need not
  be: the code records the wanted program's name when it starts the default.)
- `SlotSpec`: the daemon implements `ControlSlot`, in which a program enters only an empty slot,
  by an entry of the schedule in force whose time has come.
- `TerminateReturns`, `RecordedDeathRestarted`, `DueEntryTaken`: a stop ends, even for a program
  that ignores SIGUSR1; a recorded death is followed by a start; a due entry does not stay
  pending.

### Runs, bounds, fairness

`scheduler_safety`: two pids, so that a second program could be started beside the first, or a
pid be used again; three bodies of up to two lines (a good file out of order, one with another
default, one that is rejected); the file may vanish; one failing `fork`; a clock of three seconds
with a refresh every two, so that an entry falls due, a refresh boundary passes and an edit in the
same second as a load goes unnoticed. `scheduler_live`: one pid, a file that stays and a `fork`
that works, since nothing is promised otherwise: the loop that waits for a stable file goes on
while there is none, and a `fork` that fails leaves the radar off until the next turn.

Fairness: weak for `main` (one process that is scheduled), for the handler and for the timer
(the kernel delivers signals), for the clock, and for the death of a process that was sent
SIGKILL. None for a program's reaction to SIGUSR1, nor for the users.


## 4. The server of the real-time data: `FanOut`

### State and actions

A byte is the number of its place in the stream the child has read from its parent. The pipe is
thus a count, a client's buffer `out[i]` a sequence of numbers, and the order or the loss of bytes
can be read off. `sock[i]` is the client at the other end of slot `i`, `msgmax` the number of
slots the loops of `msgmem.c` look at; `fdset` is what `select` returned and may be old when it is
used; `inflight` is what the kernel holds of a connection. `since` and `sent` are the history of a
connection: the stream's length when it was accepted, and the last byte written to it.

| action | code |
|---|---|
| `Select` | `pollsock` and `select`, with a zero time out if `poll` |
| `OpenSock` | `opensock`: accept into the first free slot, refuse if there is none |
| `ReadPipe`, `NoPipe`, `EndOfPipe` | the read of the parent's pipe and `writeraw` |
| `WriteSock` | `writesock`: each client's write takes what the kernel has room for, or fails |
| `ReadSock` | `readsock`: the end of a connection |
| `While`, `TrapReset` | the loop's condition and SIGUSR1 |
| `Produce`, `CloseParent`, `Connect`, `Disconnect`, `Drain` | the parent and the clients |

The functions the loop calls are one step each, because the process is sequential and the others
act only through the kernel; within `WriteSock` the clients of a slot are independent. `CloseSocks` closes several slots in the order the code
does: `msgmax` goes down at most by one, when the last listed slot is closed. The buffers of
closed slots keep and collect bytes, as in the code (`writeraw` tests the socket against 0, free
slots have -1), so that the next client in a slot is first sent what is left there. `poll` is set
only by a write that took a part: one that fails for lack of room is not counted.

Signals: SIGUSR1 may come at any time but between the test of `runloop` and the call of `select`;
a polling `select` that it interrupts leaves `fdset` full.

Assumptions. `ErrLog` returns. Clients only read: the readers of the real-time data in the repository
(`fitacfclient` and its relatives, `rtgrid`, `rtcfit`, `rtsnd`, the relays) write nothing to their
connection; `dmapclient`, which reads from `rtmultiplex`, writes one byte. What a client does write goes
to `in_buf`, which nothing looks at. The branch for more of it than fits (`msgmem.c` 92-98) is not
modelled: it sets `out_sze`, the size of the other buffer, so that `InOrder` and `RecentKept` say nothing of a
client that writes `BUF_SIZE` bytes. `accept` fails only for a client that has gone: the process needs
descriptors for its 16 slots and few more, and the two calls of `fcntl` (`connect.c` 100-117) do not fail
on a socket that was just accepted. If they did, a client would be turned away with a slot free.

### Properties

- `OpenIsListed`: every open connection is below `msgmax`, however slots are freed and reused.
- `InOrder`: a client's buffer is in the order of the stream and after all it was sent: no byte
  twice, none out of order, whatever part of it each write takes and whenever it overflows.
- `RecentKept`: of what has come since a client connected and was not sent to it, the last
  `BufSize` bytes are in its buffer: a slow client loses its oldest bytes only.
- `RefusedWhenFull`: a waiting client is turned away only when all the slots are taken.
- `EndsWithParent`, `Answered`, `GoneNoticed`: the process ends after its parent; a client
  that connects is served or turned away; the slot of one that has gone is freed without
  new data. All three unless SIGUSR1 stops the server, which may leave it blocked in `accept`.

No liveness is claimed for bytes in a buffer: those of a client whose write gave EAGAIN wait
for the next data.

### Runs, bounds, fairness

`fanout_safety`: three clients for two slots, so that one is refused and slots are reused in every
order; a buffer of two bytes, a socket of one, a stream of three: cut writes, overflow with room
for a part, and a message as large as the buffer. Clients are interchangeable (symmetry; no
liveness in this run). `fanout_live`: two clients for one slot, SIGUSR1 allowed. Fairness is weak
for the server's steps only: `FairSpec` assumes nothing of parent, clients or signals.


## 5. The shell server: `ShellServer`, `ShellSession`

### State and actions

The children of shellserver share `cpstate`, `rsstate` and `buffer`. `child[e]` is where the child
of connection `e` is, `client[e]` where the program at its other end is, `up` and `down` what is
on the way. The parameters are cut into `Parts` pieces, in which `send`, `recv` and the copies
move them, so that a reader may see a mixture. `params` are the variables of a control program,
`held` those a shell was given; the control program changes its own by integrating (`Poll` takes
an integration and the call of `RadarShell` after it together).

`StartProgram`, `AnswerPoll`, `Take`, `Stored`, `Give`, `Replied`, `EndProgram` are `operateCP`;
`StartShell`, `AskedToSend`, `Wait`, `Give`, `Sent`, `AskedToReply`, `Take`, `Left`, `Await`,
`EndShell` are `operateRS`; each step ends where the other children can see or change something.
`Poll`, `Ignored`, `SendParams`, `Apply` are `RadarShell` and its callees; `ConnectShell`,
`Download`, `NoParameters`, `Reply`, `Upload` are radarshell. `Leave` ends a program at any
point, after any number of pieces of its answer; `Break` is what its child makes of it.

Assumptions. A test of a shared word that the code writes several times in a row is one load, as
in the optimised build (`-O3`); with a load each, a poll could go unanswered, which is the mutant
of `PollAnswered`. All control programs register the same table of variables. The server itself
stays up and its `fork` works. `Prompt` is a timing assumption for the questions about one user:
the children, which look every 50 ms, have settled before somebody types or an integration of
seconds ends. What one user may count on rests on it and on being the only one (`OneUser`).

`ShellSession` adds what is needed to speak of a session: `fresh`, the shells for which parameters
were stored while they waited, and `stage`, what became of an upload.

### Properties

- `InStep`: both ends of each connection agree on what comes next, whatever the other connections
  do to the shared words; no piece of the parameters is taken for a request or left behind.
- `StateReset`: when the last child of a kind has ended, its state word is that of a new server.
- `PollAnswered`: a polling control program is answered whatever the shells do, and wherever they
  are stopped: the radar goes on.
- `ShellAnswered`: a shell that asks gets parameters or the error, if programs poll or end.
- `Whole`: parameters stored for a waiting shell reach it without a mixture of two moments.
- `UploadApplied`, `AppliedOnce`: an upload for the program that runs is applied, under the same
  premise, and once only.

### Runs, bounds, fairness

`shell_safety`: a control program and two shells, one piece, no timing assumption: every
interleaving of three children and three programs, connections that end and are made again.
`shell_session`: one shell, two pieces and three versions of the parameters, so that mixtures and
reversals show, under `Prompt`. What two users do to each other, and
what is shown to the second of them, is in section 11. Fairness: every
child runs, and a control program and a shell that were answered go on; nobody has to connect,
leave, change anything, type "go", or poll. That programs poll is not the code's: `uafscan` and `noopscan`
connect and never call `RadarShell`, and `normalscan` goes round its loop without it when the radar refuses
a scan or the integration fails. `ShellAnswered` and `UploadApplied` therefore have a premise, `PollsOn`: no
control program stays connected for ever without a poll. Without it a shell may wait for ever (section 11).
`PollAnswered` needs no premise.


## 6. The record writers: `TaskWriter`

### State and actions

A *run* is one life of a control program, with its connection to the task and the child that
serves it. Runs follow one another; the child of a run that was stopped may still be at work
when the next run has begun. `prog` is where the program is in its cycle: reset and open at the
start, then an integration, close and re-open when the first beam of a scan finds a new period,
and the record. `records` is the history of what was made; `acked` those answered with TASK_OK.
A request on the way has the number of its pieces (calls of `TCPIPMsgSend`) that were sent. Of a
child the model has its place, `flg`, `filename`, the answer `rmsg`, and `blk`: whether the
number of blocks is above 0, the record the pointers lead to, and whether that memory is still
allocated. `files` are the contents of all files, `made` those that exist.

| action | code |
|---|---|
| `Start`, `Integrate` (with `OpsReOpen`), `Send`, `Answer`, `Unanswered` | the program |
| `Stop`, `Broken` | its end: by the scheduler, between any two pieces; by SIGPIPE |
| `Receive` | `operate` up to the answer, with `RMsgRcvDecodeData` |
| `Reply` | the answer, which comes before the data is looked at |
| `Skip`, `Drop`, `Store`, `NoOpen` | the rest of `operate` for a record, with `FIOMakeFile` |
| `Crash` | the reading of freed memory, when it does not survive |
| `Finish` | the end of the connection |

A message that breaks off after its number of blocks leaves that number set and the pointers where
they were; `operate` looks at them although the decoding failed. What it then reads is the memory
of the last record, freed: the model appends an entry marked *stale*, or the child crashes. A
write that fails leaves a *short* entry or none. (The loop is then left without `fclose`, at
`fitacfwrite.c` 194, and the descriptor stays open until the child ends; a child would have to fail
hundreds of times before that mattered, and no property speaks of it.)

Assumptions. The tasks are alike and independent, so one is modelled. The programs send tag 0 with
each data block, one block of each kind a message. TASK_QUIT is not sent by any program of the
repository. `fork` and `accept` work and `ErrLog` returns. A record reaches the file by one
unbuffered write, and is expanded and written in one step, as nobody else uses the child's
memory or its open file. The pieces of a request are appended to the connection together, with
any prefix when the program is stopped: the child blocks for the rest in any case. The clock
advances by at most a second between two records, and a scan is shorter than a day less one period
(`ScanAssumption`): the period is the hour divided by two, without the day, and is looked at when
a scan begins. In the code that is 22 hours, for scans of one or two minutes. Without the assumption
TLC finds a scan that begins a day after the last and is written to its file.

### Properties

- `OneRunPerFile`: two runs never write to one file, though files are named by second and the
  children of two runs overlap.
- `InOrder`: the whole records of a file are in the order they were made, none twice.
- `StaleIsLast`: what is made of a broken-off message is the last entry of its file and its run is
  over.
- `FilePerPeriod`: a scan that begins in another period than the file did is in another file.
- `AckedIsStored`: what was answered with TASK_OK, before it was looked at, is in a file in the
  end, unless the file system fails; also when the program is stopped in the meantime.
- `ChildEnds`: the child of a run that is over ends.

### Runs, bounds, fairness

`writer_records`: two runs that may overlap and make files in the same second; three records in
scans of two beams, with periods of two seconds, so that a file change falls between the first and
the third; two directories and one fault, so that the second directory is used, both are not (no
file), or a write fails. The fault count is a bound on the run only; the proofs hold for any.
Fairness: each child runs; a program that is not stopped goes on. No call has to fail, no program
has to start or stop. `NoOpen` and `Crash` have no fairness.


## 7. From the control program to the clients' server: `RecordFeed`

### State and actions

A *run* is one life of a control program; `main` forks a parent for its connection, and the parent
a serving child. `parent[r]` is where `operate` is, `up` and `down` the one request or answer on
the way, `cur` the record it was last given, `outpipe` whether it has a pipe, `written` the count of
`ConnexWriteIP`. `stream[r]` is all that has entered the pipe, `taken[r]` how much of it the child has
read: the pipe holds the difference. A unit of the stream has the number of its record, its place
in the frame and the size its header announces, so that cuts and mixtures can be read off.

| action | code |
|---|---|
| `Start`, `SendRecord`, `SendOther`, `Answered`, `Stop` | the control program, stopped anywhere |
| `Fork` | `forkinet`, with its failing calls |
| `Receive`, `PassOver`, `Look`, `NoPipe`, `Finish` | `operate`; `Receive` and `Look` begin with a report |
| `Header`, `Body`, `Unread` | `ConnexWriteIP` with the record of `fitpacket` |
| `Crash` | what freed memory may do, after a message that broke off |
| `Bind`, `Listen`, `Read`, `EndOfPipe`, `TrapReset` | the child: its port, its pipe, its end |

Assumptions. A frame's header, eight bytes, is shorter than the size below which a write to a pipe
is done whole or not at all; the body goes in as far as there is room. The inside of the child, its
clients included, is `FanOut`; here it only reads, at any speed, in pieces of `BUF_SIZE`. A child
that finds the port taken ends, and so does one that gets SIGUSR1. With SO_REUSEADDR two children can bind
the port before either listens; `listen` then fails for the second, whose result nobody looks at, and
which reads its pipe without a client (*deaf*). Clients that connect in the
middle of a frame see an error of synchronisation and end (`fitcnx.c`, `fitacfclient.c`): that is
theirs.

Reports. Before it answers, the parent reports the request to errlogd (`rtserver.c` 118, 122, 125, 133), and
again before it forks a new child (179); `ErrLog` waits for an answer without a time out. The connection is
the one `main` opened before all the forks, so that parents and children of all runs share it. `ErrLog` of
section 8 returns when nobody else calls over the connection (`CallReturns`); two calls at once may mix
their pieces and take each other's answers (section 11), and then nothing is promised. So `FairSpec` says
nothing of a parent that is in such a call (`Reports`), and the liveness properties have the premise
`CallsReturn`: no parent is in one for ever. The calls of a child (at `fork.c` 68-89 and whenever a client
comes or goes) are part of its steps: `ChildrenRun` implies that they return, nothing else says so.

### Properties

- `FramesInOrder`: a pipe carries frames of records of its own run, in their order, each with the
  size its header announces; a frame that is cut lacks its tail only, and the next unit is a header.
- `NothingLost`: as long as no write has found the pipe full and nothing has failed, every
  wanted record the parent has done with is in the pipe, whole.
- `ProgramAnswered`: if calls of `ErrLog` return the control program gets its answer, although the child
  and its clients need not read anything: a full pipe never holds the radar up.
- `ServerEnds`: if they return and the children run, that of a run that is over reads what is left
  and ends, so that the port is free for a later one.

### Runs, bounds, fairness

`feed`: two runs, so that a parent and a child of an old one are at work beside the new; two
records with a body of two units, a pipe of four and reads of three, so that the second frame finds room
for its header only, for a part of its body, or for all of it; two failing calls, so that `forkinet` can
fail both times it is called; SIGUSR1 to the child. `FairSpec` has the parents run outside of `ErrLog` and
the program take its answer, and nothing of the children; the properties name the premises they need.


## 8. The error log: `ErrLog`

### State and actions

A process `p` reports over the connection `conn[p]`; processes may have the same. `piece[p]` is how
much of the message of its current call it has sent, `wire` and `answers` what is on the way,
`child[c]` where `operate` is, `line[c]` the message it has read, `yday` and `today` the days it
compares. A message is a sequence of units of four bytes, marked with process, call and piece: what
`operate` takes for a message may be cut anywhere. `files` are the contents, `written` the history of
what was written, `raced` the days on which one child made the file beside another's line.

| action | code |
|---|---|
| `Send`, `Return` | `ErrLog`, piece by piece |
| `Die` | the end of a task, also in the middle of a message |
| `Receive` | `operate` up to the answer, absurd lengths included |
| `Test`, `AppendLine`, `Make`, `FirstLine` | `open_file`, the line and `fclose` |
| `NotRecording`, `Killed` | a failing `fopen`, a daemon that is killed |
| `Finish`, `Midnight` | the end of a connection, the clock |

Assumptions. Two halves of a length taken from different pieces make a number of billions, for
which `malloc` fails. A line is written when its file is closed, as it is shorter than the buffer. Entries
are equally long, so that a beginning that is written over is an entry.

### Properties

- `AnswerIsOwn`: with a connection of its own, a process that is told 0 has had exactly its last
  message read, which is written or about to be unless something fails; -1 means no child.
- `LinesWhole`: the lines written for such a process are its messages, whole, in the order of its
  calls and over the change of days, none twice.
- `NothingLost`: the file of a day is what was written to it, in that order, unless two children were
  making it at once.
- `CallReturns`: a call returns, also when the daemon is killed in the middle of it.

### Runs, bounds, fairness

`errlog`: two processes with a connection each, two calls, two days, one fault: a day's file is made
by one or by two children, a call is the first or a later one of a day, a task ends or the daemon
is killed between any two pieces. Fairness: the children run, and a process that has begun a call
goes on with it; nobody has to report.


## 9. The link to the radar: `RadarLink`

### State and actions

A function of the site library is the sequence of its steps (`SetupRadar`, `TimeSeq`, `StartScan`,
`StartIntt`, `FCLR`, `Integrate`, `EndScan`), written down from `site.c`: send the message of a
command, send or receive one piece, take the answer. The radar's half (`Work`) is written down from
`radar.c`, independently. `todo` and `work` are what is left of each, `up` and `down` the units of
four bytes on the way. Nothing tells the ends what a unit is: `Hear` takes the next two for a message,
whatever they are, and goes by the second, which holds the command; the first, its status, is not even
initialised in a QUIT. The order of the calls is that of `normalscan`.

| action | code |
|---|---|
| `SendCommand`, `PutPiece`, `GetPiece`, `Count`, `Loop`, `Answer` | the site library |
| `Test`, `Alloc` | its early returns; its exits when memory cannot be allocated |
| `Check` | `SiteRosExit(0)` and `SiteRosExit(-1)`, called by the library |
| `Interrupt`, `Stop` | `SiteRosExit` as the handler of SIGINT, SIGUSR1, SIGPIPE |
| `Leave`, `Kill` | the answer to QUIT and `exit`; the scheduler's SIGKILL |
| `Hear`, `RadarGet`, `RadarPut`, `RadarCount`, `RadarLoop`, `RadarAnswer`, `HearEnd` | `operate` of `radar.c` |
| `RadarLost`, `Reset` | the radar's process fails; the kernel learns of it |

Assumptions. A scan has at least one period (`abs(ebm-sbm)+1`) and a sequence a pulse. The radar of the
repository answers with a good status; the real one may refuse
(`Refused`). `dprm.status` is 0. A structure is one piece of `Large` units, all equal. The host of
the radar does not vanish without a reset of the connection. A handler is not interrupted by its own
signal. After SIGKILL the name of the shared memory stays, and the next program removes it.

### Properties

- `Quiet`: between two commands nothing is on the way and the radar listens.
- `AnswerIsOwn`: what the program takes for an answer is the answer to its command, what it takes
  for data is data; a QUIT between two commands is answered as such.
- `StopEnds`: a program that was asked to stop ends by itself, wherever the signal came, unless QUIT
  was sent where the radar was owed more bytes than that (`torn`): then both ends wait, until the
  scheduler's SIGKILL ten seconds later.
- `EndsTogether`: neither end outlives the other.

### Runs, bounds, fairness

`radar`: one period, pulse and baud; structures of five units, the size of `SeqPRM` and `CLRFreqPRM` (20
bytes), which QUITs of two units sent in the middle of one can fill up; up to two sequences an integration, three signals (the third SIGINT
ends at once), one refusal or failure; whole scans in a loop, without a bound. Fairness: both
processes run, and the kernel reports a lost connection. Nobody has to send a signal. A radar that
refuses SET_ACTIVE for ever keeps the program in a loop that does not look at `exit_flag`; the bound
on faults excludes it.


## 10. What is proved, and how

All theorems hold for every value of the constants under the named assumptions of the modules
(finite sets of pids, positive sizes, ...): any number of programs, clients, shells, runs and
directories, any schedule file, and every bound.

| module | theorem | shows |
|---|---|---|
| `ScheduleTableProofs` | `LoadedTable`, `DueCountProperties` | what the two functions return |
| `SchedulerProofs` | `TypeCorrect`, `OneProgramCorrect`, `TrackedCorrect`, `NoEarlyStartCorrect`, `CommandCorrect` | the invariants of section 3 |
| | `SlotCorrect` | `Spec => SlotSpec`, the refinement of `ControlSlot` |
| `FanOutProofs` | `TypeCorrect`, `OpenIsListedCorrect`, `InOrderCorrect`, `RecentKeptCorrect` | the invariants of section 4 |
| | `RefusedWhenFullCorrect` | the action property |
| `ShellServerProofs` | `TypeCorrect`, `StateResetCorrect`, `InStepCorrect` | the invariants of section 5 |
| | `WholeCorrect`, `AppliedOnceCorrect` | what one user may count on: an invariant and an action property, under `OneUser` |
| `TaskWriterProofs` | `TypeCorrect`, `OneRunPerFileCorrect`, `InOrderCorrect`, `StaleIsLastCorrect`, `FilePerPeriodCorrect` | the invariants of section 6 |
| `RecordFeedProofs` | `TypeCorrect`, `FramesInOrderCorrect`, `NothingLostCorrect` | the invariants of section 7 |
| `ErrLogProofs` | `TypeCorrect`, `NothingLostCorrect`, `AnswerIsOwnCorrect`, `LinesWholeCorrect` | the invariants of section 8 |
| `RadarLinkProofs` | `TypeCorrect`, `QuietCorrect`, `AnswerIsOwnCorrect` | the invariants of section 9 |

**Scheduler.** `OneProgram` is not inductive: it says nothing of the window in which the daemon
forgets `pid` because the handler set it to -1. `ChildInv` strengthens it. `OnlyChild`: every
process in the kernel's table, a zombie included, is the one the daemon knows, by the result of
`fork` until that is assigned, by `pid` after it; so a handler that clears `pid` has just reaped
the only child. `SavedPid` says the same of the copy that a failed reload puts back, and
`TargetIsChild` of the target of `terminate`, which is a copy of `pid`. `ChildGone` is the heart:
`terminate` leaves no child. Its first `waitpid` can return without the child only by the time
out; then the timer is no longer armed, so the second one, after SIGKILL, cannot be cut short
again. `CommandInv` and `TableInv` add that `command` is what the child runs, and that the table
in use starts with a default entry and has all its entries before `cnt` due. The refinement
follows from these: a `Fork` finds no child, so the slot is empty, and the entry it starts is due.

**FanOut.** `RecentKept` needs `Spread`: two bytes of a buffer are at least as far apart as their
places in it. A buffer of at most `BufSize` bytes whose last one is the last of the stream thus
reaches back no further than needed, and dropping the oldest drops nothing recent. `Unsent`
separates the buffer from what was written. `OpenIsListed` carries all of it over the loops,
which stop at `msgmax`.

**ShellServer.** `StateReset` follows a word through the children that may write it: a child
that is not yet gone will reset it. `InStep` says too little of the middle of a conversation:
`LinkInv` bounds how far apart the two ends of a connection may be. `PollsComing`: on the way to a
program's child are the `Rest` pieces it waits for, then at most one poll. `PollAnswer` and
`DownloadAnswer` say how much of an answer has come by where the child is, so that a client which
has read all of it finds the connection empty. `RequestsComing`: a shell's child finds a request where
it looks for one and pieces where it takes them. No conjunct mentions the shared words: the links
hold whatever the other children write there, and `LinkAlone` carries them over the other connections'
steps.

For `Whole` and `AppliedOnce` the words do matter, and `SessionInv` (at the end of `ShellSession`)
says how. One poll is under way at a time (`Polling`): by `Prompt` no program polls while a
child is at work, so that a stopped program's child is through before the next one's begins. `Apart`: the
program's child stores into the buffer while the shell's waits, and copies out of it while the
shell's has left its upload there. Hence what is stored is the program's parameters at one moment
(`Stores`), and what the shell holds is in the buffer until it has come back (`Holds`, `Returns`).
Once applied, nothing sends the upload to a program again (`Applied`): the shell's child is past it,
and `rsstate` is 2 only until the program's child has set `cpstate`. `OneUser` is needed: with a
second shell, or with a poll that does not wait for the children, TLC finds parameters of two
moments (and, without `Prompt`, a program that applies something the user did not send). The number of connections of control programs is
free, since a stopped program may still be there when the next connects.

**TaskWriter.** `WriterInv` follows a record from the program through the connection and the
child's memory to the file: `ProgramInv` (a pending record is the last one made and the run's
own), `SentInv` (requests on the way are the run's own, in order, later than what the child
holds, and nothing follows one that broke off), `HeldInv` (a child with nothing in its memory
looks at a record only if its run is over), `NameInv` (an open file is the child's own, because
`FIOMakeFile` makes new ones only) and `StoredInv` (what is stored was held before; nothing is
stored after a stale entry). `OneRunPerFile`, `InOrder` and `StaleIsLast` are the conjuncts it is there for.

`FilePerPeriod` relates a decision of the program, taken from its own clock and `then`, to the names of
files that the child makes later, or not at all; `PeriodInv` (at the end of `TaskWriter`) carries it
across. `Turn`: one request is on the way at a time, or is being answered, or is answered. `ThenInv`:
`then` is the period in which the last scan began, less than a scan ago (`Since`); with
`ScanAssumption` an equal period at the next one is thus the same and not that of another day. `Aim`: what
the child holds and what it is sent fits the file it has open, or the one it is about to make, whose
name has the time of the record in its memory. `Due`: a file is due only with the first record of a
scan, after the one before was closed, a request that may have failed or been cut included.

**RecordFeed.** What is in a pipe depends on where the parent is in a frame and on what it has been
given, so `FeedInv` follows a record from the program to the pipe, run by run. `RequestInv`: one
request or answer is on the way at a time, one that broke off is the last, and every record of a
run has reached its parent or is the request. `Working`: what the parent works on, and that it starts
a frame with `written` at 0. `Streamed`: the stream ends with the record before the one the parent
is about to write or, inside a frame, at the unit `written` says. `Piped`: there is a pipe until
something fails. With these `Framed` and `Kept`, the conjuncts of the two properties, are inductive.
Each action changes one run at most; `Untouched` carries the rest.

**ErrLog.** `NothingLost` needs only `FileInv`: a child makes the file of a day while nothing has
been written to it, or there was a race. For the others `Exchange` says what is on a connection that
one process has for itself: the beginning of its current message, as far as it was sent, or the
answer and nothing else; hence `operate` can only take a whole message for a message. `Reported`
carries the answer back to the call, and `Logged` numbers the entries of a connection by the calls they
are of: below what the child has taken, and growing within a day and over days.

**RadarLink.** `Quiet` and `AnswerIsOwn` say nothing of the middle of a command, and there the state
is two sequences of steps, written down from two programs, that are used up at different speeds. `RunInv`
says that they fit (`Converse`): there are two scripts without loops, S for what the program still
has to do for this command and W for the radar's part, of which one is a tail of the other with `put`
and `get` exchanged (`Matches`). The end that is k steps ahead has sent exactly the units of those
steps (`Ahead`, `Behind`), and these are pieces, but for the answer in the last two. The loop over
sequences is the difficulty: how often it is turned is sent within the command. `Unrolled` puts n turns
in its place; until the number has been sent n is any number (`Numbers`), and from then on the one the
other end knows or has on its way. A script is a function with a length, and `Spans` gives the units
of its first steps by a running count, so that no recursion over sequences is needed. `Conforms`,
a fact about the functions of `site.c` and about `operate`, is established when a function of the
library is called, command by command, and is where the two programs meet. After the radar's failure
the invariant goes on with the steps it would have taken, for what it sent is still to come. `QuitInv`:
a QUIT that was sent between two commands is all there is on the connection, one sent inside a
command is no part of the property, since the code promises nothing there. `TypeOK` is part of the invariant and
not proved before it, since the status and the number of sequences are whatever units the program
takes for them. Nothing is assumed of `Large` but that it is positive: a piece that a QUIT has
torn may be filled up by later ones, and the radar may then take anything for a command. The program
is in its handler by then, not at an answer or at data, and its QUIT was not sent between two commands, so
that neither property speaks of it.

## 11. Where the code and its documents part

Each ends with a counterexample of TLC. The first two are among the listed runs:

- `scheduler_zombie` (`DeathRestarted`): a program that ends before the result of `fork` is assigned
  to `pid` is not reaped by the handler, and the assignment then stores the pid of a zombie, for
  which `getpriority` succeeds. Nothing is restarted until the command changes. The code means to
  restart ("Failed or Died", "trying to restart").
- `feed_restart` (`ChildRestarted`): `outpipe` is set by `forkinet` only. When the serving child has
  ended, because the child of the run before still had the port or by SIGUSR1, the parent goes on to
  write into a pipe without a reader: "Child process died - Restarting." is reached only when
  `pipe` or `fcntl` fails.

The others have configurations beside them, which are not part of the list of runs:

- `MCScheduler_follows.cfg` (`FollowsSchedule`): two entries fall due during one change of program,
  which alone may take ten seconds. The first is started, and `set_schedule` moves on past both. The
  second is not started before the next refresh or death. The documentation says that the file
  "specifies what time and date a program is due to start".
- `MCShellSession_stale.cfg` (`ShownAreCurrent`): a shell that ends without "go" leaves `cpstate`
  at 2, and the next shell is shown what was stored for the first one. The documentation says "list
  all parameters and their values".
- `MCShellSession_lost.cfg` (`UploadApplied`, with two shells): a connecting shell resets `rsstate`,
  and an upload that another has just left is never applied. The documentation says that "go" takes
  effect at the next integration.
- `MCShellSession_unpolled.cfg` (`ShellOpens`): a control program that is connected and does not poll
  (`uafscan`, `noopscan`) has set `cpstate`, so that the shell is not told that there are no parameters, and
  waits. The documentation says that radarshell "allows the user to change the operating parameters of the
  radar while a control program is active".
- `MCTaskWriter_fopen.cfg` (`OpenErrorTolerated`): after a failing `fopen` the error is logged and
  `fclose(NULL)` ends the child. The message is that of a task that goes on.
- `MCErrLog_shared.cfg` (`LogIsOfTasks`): `fitacfwrite.c`, `rawacfwrite.c`, `iqwrite.c` and
  `rtserver.c` open the connection to errlog in `main` and fork afterwards, so that the children of two
  runs, or a parent and its serving child, share it. Their pieces may mix: a line then has the
  number of one process and the text of another, or a length that is no length. The documentation
  says that a line has "the process ID of the task reporting the error, the task name, and a text
  string".

## 12. What is only model-checked, and what is not modelled

Liveness under fairness (`TerminateReturns`, `RecordedDeathRestarted`, `DueEntryTaken`,
`EndsWithParent`, `Answered`, `GoneNoticed`, `PollAnswered`, `ShellAnswered`, `UploadApplied`,
`AckedIsStored`, `ChildEnds`, `ProgramAnswered`, `ServerEnds`, `CallReturns`, `StopEnds`,
`EndsTogether`) is out of the prover's reach and rests on the runs; so does anything about ENABLED,
and induction over data: what `qsort` computes is not proved, the model takes the set of all sorted
permutations. Of the safety properties
none is model-checked only. What a theorem does not say: `Whole` and `AppliedOnce` are for
one shell at a time, since with two they are false; the counterexamples of section 11 are TLC's alone.
`PeriodInv` and `SessionInv` hold on the instances of section 2 as well, where TLC can evaluate them;
the invariant of `RadarLinkProofs` quantifies over functions of any length and TLC evaluates only what
follows from it.

Not modelled yet, and planned (section 2): `iqwrite` and the shared memory, the operations library
beyond `OpsReOpen`, the relays, what the readers of Connex do. Not modelled at all: option parsing,
logging to the terminal and printing, the parser of radarshell's command line, what `SiteRosIntegrate`
computes from the samples, the frequency table and `mktsg`, the scripts, and the data formats,
processing and plotting tools. These last are most of the repository's lines: sequential computations
on data that keep no state between calls and have no other party, for which a state machine says
nothing that a test of their results would not. `PROJECT.json` ("components") gives the reason for
each.
