------------------------------ MODULE RadarLink ------------------------------
(***************************************************************************)
(* The link between a control program and the radar: the functions of the  *)
(* site library (site.c), the handler of the signals that stop the program *)
(* (SiteRosExit), and the process that answers at the other end of the     *)
(* connection (radar.c).                                                   *)
(*                                                                         *)
(* A command is a message, then pieces of data in both directions, then a  *)
(* message back.  Nothing on the wire says what it is: each end takes the  *)
(* next bytes for what it expects.  A unit is four bytes, the size of an   *)
(* int; a message is two units.                                            *)
(***************************************************************************)
EXTENDS Integers, Sequences, SequencesExt

CONSTANTS
  Periods,     \* the periods of a scan, the pulses of the sequence and the
  Pulses,      \* bauds of its code
  Bauds,
  Sync,        \* whether the periods start at fixed times
  Large,       \* the units of a structure or of samples
  MaxSeqs,     \* bound: the pulse sequences of an integration
  MaxSignals,  \* bound: the signals sent to the program
  MaxFaults,   \* bound: refusals and failures
  Refused      \* the commands that the radar may answer with a bad status

Commands == {"SET_RADAR_CHAN", "QUERY_INI_SETTINGS", "GET_PARAMETERS", "SET_ACTIVE",
             "SET_PARAMETERS", "REQUEST_CLEAR_FREQ_SEARCH", "REQUEST_ASSIGNED_FREQ",
             "REGISTER_SEQ", "PING", "SET_READY_FLAG", "GET_DATA", "SET_INACTIVE", "QUIT"}
Calls == {"SetupRadar", "TimeSeq", "StartScan", "StartIntt", "FCLR", "Integrate", "EndScan"}
Signals == {"SIGINT", "SIGUSR1", "SIGPIPE"}

(* A scan has abs(ebm-sbm)+1 periods, and a sequence has a pulse.           *)
ASSUME LinkAssumption ==
  /\ Periods \in Nat \ {0} /\ Pulses \in Nat \ {0} /\ Bauds \in Nat /\ Sync \in BOOLEAN
  /\ MaxSeqs \in Nat /\ MaxSignals \in Nat /\ MaxFaults \in Nat
  /\ Large \in Nat \ {0}
  /\ Refused \subseteq Commands

VARIABLES
  prog,         \* the program: run, quit (it waits for the answer to QUIT), ended
  call,         \* the function of the site library it is in, or was in last
  todo,         \* what is left of it
  cmd,          \* the last command it sent
  status,       \* the status of its answer
  seqs,         \* the sequences that are still to come
  cancelCount,  \* cancel_count
  exitFlag,     \* whether exit_flag is not 0
  masked,       \* the signals whose handler is at work
  signals,      \* how many it was sent
  torn,         \* history: QUIT was sent where the radar was owed more than that
  up,           \* the units on the way to the radar
  down,         \* the units on the way back
  radar,        \* the radar: hear (it waits for a command), work, ended
  work,         \* what is left of the command
  served,       \* the command
  nave,         \* the sequences that it still has to send
  reset,        \* the program's end of the connection knows that the other is gone
  faults

handlerVars == <<cancelCount, masked, signals, torn>>
progVars == <<prog, call, todo, cmd, status, seqs, exitFlag, handlerVars>>
radarVars == <<radar, work, served, nave>>
vars == <<progVars, up, down, radarVars, reset, faults>>

(* What is on the wire: n is the number of sequences, or a status, which is *)
(* 0 or 1, bad.  A message is its status, then its type.                    *)
Unit(kind, c, n) == [kind |-> kind, cmd |-> c, n |-> n]
Msg(c, bad) == <<Unit("status", c, bad), Unit("type", c, bad)>>
Piece(size, n) == [i \in 1..size |-> Unit("piece", "none", n)]

(* A step of either end, and the steps that move pieces of data.            *)
Step(op, c, n) == [op |-> op, cmd |-> c, n |-> n]
Do(op) == <<Step(op, "none", 0)>>
Put(size) == <<Step("put", "none", size)>>
Get(size) == <<Step("get", "none", size)>>
Times(k, step) == [i \in 1..k |-> Head(step)]

-----------------------------------------------------------------------------
(***************************************************************************)
(* The site library.  A function is the sequence of its steps: send sends  *)
(* the message of a command, put and get move one piece, count gets the    *)
(* number of sequences, loop is the loop over them, answer gets the        *)
(* message back, agreed does so and ends the program when the status is    *)
(* bad, check is SiteRosExit(0), test is where the function may return     *)
(* early, and alloc is an allocation that may fail.                        *)
(***************************************************************************)
Command(c, data) == <<Step("send", c, 0)>> \o data \o Do("answer")
Agreed(c, data) == <<Step("send", c, 0)>> \o data \o Do("agreed")

SetupRadar ==
  Agreed("SET_RADAR_CHAN", Times(6, Put(1))) \o Command("QUERY_INI_SETTINGS", Times(2, Get(1)))
    \o Command("GET_PARAMETERS", Get(Large)) \o Do("alloc")

TimeSeq ==
  Do("check") \o Do("test")
    \o Command("REGISTER_SEQ", Times(3, Put(Large)) \o Times(7 + Pulses, Put(1)) \o Times(1 + Bauds, Put(1)))

StartScan ==
  Command("SET_ACTIVE", Times(2, Put(1)) \o Times(3, Put(Periods)) \o Times(6, Put(1))
                          \o (IF Sync THEN Put(Periods) ELSE <<>>))

StartIntt ==
  Do("check") \o Command("PING", <<>>) \o Command("GET_PARAMETERS", Get(Large))
    \o Command("SET_PARAMETERS", Put(Large))

FCLR ==
  Do("check") \o Command("REQUEST_CLEAR_FREQ_SEARCH", Put(Large))
    \o Command("REQUEST_ASSIGNED_FREQ", Times(2, Get(1)))

Integrate ==
  Do("check") \o Do("test") \o Do("alloc") \o Do("check")
    \o Agreed("SET_PARAMETERS", Put(Large)) \o Command("SET_READY_FLAG", <<>>)
    \o Command("GET_DATA", Get(Large) \o Do("count") \o Get(1) \o Times(2, Get(Pulses)) \o Get(1)
                             \o Times(2, Get(Large)) \o Times(7, Get(1)) \o Get(Large) \o Do("loop"))
    \o Do("check")

(* A sequence: its time, the samples of both arrays, the acknowledgement.   *)
Sequence == Times(2, Get(1)) \o Times(2, Get(Large)) \o Put(1)

EndScan == Do("check") \o Command("SET_INACTIVE", <<>>) \o Times(2, Do("check"))
(* Every fifth turn of its loop.                                            *)
Ping == Command("PING", <<>>) \o Times(2, Do("check"))

Steps == [SetupRadar |-> SetupRadar, TimeSeq |-> TimeSeq, StartScan |-> StartScan,
          StartIntt |-> StartIntt, FCLR |-> FCLR, Integrate |-> Integrate, EndScan |-> EndScan]

(* The order in which normalscan calls them.                                *)
After == [SetupRadar |-> {"TimeSeq"}, TimeSeq |-> {"EndScan", "StartScan"},
          StartScan |-> IF status = 0 THEN {"StartIntt"} ELSE {"StartScan"},
          StartIntt |-> {"FCLR", "Integrate"}, FCLR |-> {"Integrate"},
          Integrate |-> {"StartIntt", "EndScan", "StartScan"}, EndScan |-> {"StartScan"}]

Init ==
  /\ prog = "run" /\ call = "SetupRadar" /\ todo = SetupRadar /\ cmd = "none"
  /\ status = 0 /\ seqs = 0
  /\ cancelCount = 0 /\ exitFlag = FALSE /\ masked = {} /\ signals = 0 /\ torn = FALSE
  /\ up = <<>> /\ down = <<>>
  /\ radar = "hear" /\ work = <<>> /\ served = "none" /\ nave = 0
  /\ reset = FALSE /\ faults = 0

-----------------------------------------------------------------------------
(***************************************************************************)
(* The program.                                                            *)
(***************************************************************************)
(* What is sent to a radar that is gone is lost.                            *)
Send(units) == up' = IF radar = "ended" THEN Msg("none", 0) ELSE up \o units

(* The steps at which the program is between two commands.                  *)
Pauses == {"send", "check", "test", "alloc", "exit"}

At(op) == prog = "run" /\ todo # <<>> /\ Head(todo).op = op

(* The units that the radar waits for before it does anything else.         *)
Owed ==
  LET ahead == SelectInSeq(todo \o Do("check"), LAMBDA s : s.op # "put") - 1
  IN  FoldLeft(LAMBDA sum, s : sum + s.n, 0, SubSeq(todo, 1, ahead))

(* The end: QUIT is sent, and the program waits for a message.  A handler   *)
(* is not called while it is at work.                                       *)
Quit(handler) ==
  /\ prog' = "quit"
  /\ exitFlag' = TRUE
  /\ masked' = masked \cup handler
  /\ torn' = (torn \/ (prog = "run" /\ Owed > 2))
  /\ cmd' = IF prog = "run" /\ (todo = <<>> \/ Head(todo).op \in Pauses)
              THEN "QUIT" ELSE cmd
  /\ Send(Msg("QUIT", 0))
  /\ UNCHANGED <<call, todo, status, seqs>>

Goto(steps) == todo' = steps /\ UNCHANGED <<prog, call, exitFlag, handlerVars>>

(* SIGPIPE is raised by a send when the other end is known to be gone.      *)
Sends(units) ==
  /\ IF reset THEN Quit({"SIGPIPE"}) /\ UNCHANGED <<cancelCount, signals>>
     ELSE /\ Send(units)
          /\ cmd' = IF At("send") THEN Head(todo).cmd ELSE cmd
          /\ Goto(Tail(todo))
          /\ UNCHANGED <<status, seqs>>
  /\ UNCHANGED <<down, radarVars, reset, faults>>

SendCommand == At("send") /\ Sends(Msg(Head(todo).cmd, 0))
PutPiece == At("put") /\ Sends(Piece(Head(todo).n, 0))

(* recv: it waits for size units, or fails when they will not come.         *)
Arrives(size) == Len(down) >= size /\ down' = SubSeq(down, size + 1, Len(down))
Lost(size) == Len(down) < size /\ radar = "ended" /\ down' = <<>>

GetPiece ==
  /\ At("get")
  /\ Arrives(Head(todo).n) \/ Lost(Head(todo).n)
  /\ Goto(Tail(todo))
  /\ UNCHANGED <<cmd, status, seqs, up, radarVars, reset, faults>>

(* What is not received is not initialized.                                 *)
Count ==
  /\ At("count")
  /\ \/ Arrives(1) /\ seqs' = Head(down).n
     \/ Lost(1) /\ seqs' \in 0..MaxSeqs
  /\ Goto(Tail(todo))
  /\ UNCHANGED <<cmd, status, up, radarVars, reset, faults>>

Loop ==
  /\ At("loop")
  /\ IF seqs > 0 THEN seqs' = seqs - 1 /\ Goto(Sequence \o todo)
                 ELSE Goto(Tail(todo)) /\ UNCHANGED seqs
  /\ UNCHANGED <<cmd, status, up, down, radarVars, reset, faults>>

Answer ==
  /\ At("answer") \/ At("agreed")
  /\ \/ Arrives(2) /\ status' = Head(down).n
     \/ Lost(2) /\ status' \in {0, 1}
  /\ Goto(IF At("agreed") /\ status' = 1 THEN Do("exit") ELSE Tail(todo))
  /\ UNCHANGED <<cmd, seqs, up, radarVars, reset, faults>>

(* The second way is return: there is no sequence, or too many ranges.      *)
Test ==
  /\ At("test")
  /\ Goto(Tail(todo)) \/ Goto(<<>>)
  /\ UNCHANGED <<cmd, status, seqs, up, down, radarVars, reset, faults>>

(* The second way is SiteRosExit(-1).                                       *)
Alloc ==
  /\ At("alloc")
  /\ \/ Goto(Tail(todo)) /\ UNCHANGED faults
     \/ Goto(Do("exit")) /\ faults < MaxFaults /\ faults' = faults + 1
  /\ UNCHANGED <<cmd, status, seqs, up, down, radarVars, reset>>

(* Mutant: it waits for the third SIGINT here too.                          *)
Check_third ==
  /\ At("check") \/ At("exit")
  /\ IF (exitFlag /\ cancelCount >= 3) \/ At("exit")
       THEN Quit({}) /\ UNCHANGED <<cancelCount, signals>>
       ELSE Goto(Tail(todo)) /\ UNCHANGED <<cmd, status, seqs, up>>
  /\ UNCHANGED <<down, radarVars, reset, faults>>

(* SiteRosExit(0), where a stop is honoured, and SiteRosExit(-1).           *)
Check ==
  /\ At("check") \/ At("exit")
  /\ IF exitFlag \/ At("exit")
       THEN Quit({}) /\ UNCHANGED <<cancelCount, signals>>
       ELSE Goto(Tail(todo)) /\ UNCHANGED <<cmd, status, seqs, up>>
  /\ UNCHANGED <<down, radarVars, reset, faults>>

(* Between two functions; the loop of SiteRosEndScan goes round.            *)
Continue ==
  /\ prog = "run" /\ todo = <<>>
  /\ \/ \E next \in After[call] : call' = next /\ todo' = Steps[next]
     \/ call = "EndScan" /\ todo' = Ping /\ UNCHANGED call
  /\ UNCHANGED <<prog, cmd, status, seqs, exitFlag, handlerVars, up, down, radarVars, reset, faults>>

(* SIGINT asks for an end at the next check, the third one ends at once.    *)
Interrupt ==
  /\ prog \in {"run", "quit"}
  /\ "SIGINT" \notin masked
  /\ signals < MaxSignals /\ signals' = signals + 1
  /\ cancelCount' = cancelCount + 1
  /\ IF cancelCount' >= 3
       THEN Quit({"SIGINT"})
       ELSE exitFlag' = TRUE /\ UNCHANGED <<prog, call, todo, cmd, status, seqs, masked, torn, up>>
  /\ UNCHANGED <<down, radarVars, reset, faults>>

(* SIGUSR1, from the scheduler, and SIGPIPE from another connection of the  *)
(* program, which is used between the functions of the site library.        *)
Stop(signal) ==
  /\ prog \in {"run", "quit"}
  /\ signal \notin masked
  /\ signal = "SIGPIPE" => prog = "run" /\ todo = <<>>
  /\ signals < MaxSignals /\ signals' = signals + 1
  /\ Quit({signal})
  /\ UNCHANGED <<cancelCount, down, radarVars, reset, faults>>

(* The connection is closed with the process.                               *)
End ==
  /\ prog' = "ended" /\ todo' = <<>> /\ masked' = {} /\ down' = <<>>
  /\ UNCHANGED <<call, cmd, status, seqs, exitFlag, cancelCount, signals, torn, up, radarVars, reset, faults>>

Leave == prog = "quit" /\ (Len(down) >= 2 \/ radar = "ended") /\ End

(* SIGKILL, from the scheduler when the program takes too long to end.      *)
Kill == prog \in {"run", "quit"} /\ End

(* The kernel learns that the radar has not taken what was sent.            *)
Reset ==
  /\ radar = "ended" /\ up # <<>> /\ ~reset
  /\ reset' = TRUE
  /\ UNCHANGED <<progVars, up, down, radarVars, faults>>

-----------------------------------------------------------------------------
(***************************************************************************)
(* The radar: operate().                                                   *)
(***************************************************************************)
(* Mutant: the times of the periods are left on the connection.             *)
ScanData_noTimes == Times(2, Get(1)) \o Times(3, Get(Periods)) \o Times(6, Get(1))

ScanData == Times(2, Get(1)) \o Times(3, Get(Periods)) \o Times(6, Get(1))
              \o (IF Sync THEN Get(Periods) ELSE <<>>)

Work(c) ==
  CASE c = "SET_RADAR_CHAN" -> Times(6, Get(1))
    [] c = "QUERY_INI_SETTINGS" -> Times(2, Put(1))
    [] c = "GET_PARAMETERS" -> Put(Large)
    [] c = "SET_ACTIVE" -> ScanData
    [] c \in {"SET_PARAMETERS", "REQUEST_CLEAR_FREQ_SEARCH"} -> Get(Large)
    [] c = "REQUEST_ASSIGNED_FREQ" -> Times(2, Put(1))
    [] c = "REGISTER_SEQ" -> Times(3, Get(Large)) \o Times(7 + Pulses, Get(1)) \o Times(1 + Bauds, Get(1))
    [] c = "GET_DATA" -> Put(Large) \o Do("count") \o Put(1) \o Times(2, Put(Pulses)) \o Put(1)
                           \o Times(2, Put(Large)) \o Times(7, Put(1)) \o Put(Large) \o Do("loop")
    [] OTHER -> <<>>

Round == Times(2, Put(1)) \o Times(2, Put(Large)) \o Get(1)

(* A recv of the radar: short when the program is gone.                     *)
Takes(size) == Len(up) >= size /\ up' = SubSeq(up, size + 1, Len(up))
Short(size) == Len(up) < size /\ prog = "ended" /\ up' = <<>>

RadarAt(op) == radar = "work" /\ Head(work).op = op

(* It takes the next units for a message, whatever they are: a status, as   *)
(* the program has not set it, or data may be any command.                  *)
Hear ==
  /\ radar = "hear"
  /\ Takes(2)
  /\ \E c \in IF up[2].kind = "type" THEN {up[2].cmd} ELSE Commands :
       /\ served' = c
       /\ work' = Work(c) \o Do("answer")
  /\ radar' = "work"
  /\ UNCHANGED <<progVars, down, nave, reset, faults>>

(* Mutant: a short recv is not noticed.                                     *)
HearEnd_ignored ==
  /\ radar = "hear"
  /\ Short(2)
  /\ UNCHANGED <<progVars, down, radarVars, reset, faults>>

HearEnd ==
  /\ radar = "hear"
  /\ Short(2)
  /\ radar' = "ended"
  /\ UNCHANGED <<progVars, down, work, served, nave, reset, faults>>

RadarGet ==
  /\ RadarAt("get")
  /\ Takes(Head(work).n) \/ Short(Head(work).n)
  /\ work' = Tail(work)
  /\ UNCHANGED <<progVars, down, radar, served, nave, reset, faults>>

(* What is sent to a program that is gone is lost.                          *)
Gives(units) == down' = IF prog = "ended" THEN <<>> ELSE down \o units

RadarPut ==
  /\ RadarAt("put")
  /\ Gives(Piece(Head(work).n, 0))
  /\ work' = Tail(work)
  /\ UNCHANGED <<progVars, up, radar, served, nave, reset, faults>>

(* Mutant: the number is sent before it is known.                           *)
RadarCount_early ==
  /\ RadarAt("count")
  /\ nave' \in 0..MaxSeqs
  /\ Gives(Piece(1, nave))
  /\ work' = Tail(work)
  /\ UNCHANGED <<progVars, up, radar, served, reset, faults>>

RadarCount ==
  /\ RadarAt("count")
  /\ nave' \in 0..MaxSeqs
  /\ Gives(Piece(1, nave'))
  /\ work' = Tail(work)
  /\ UNCHANGED <<progVars, up, radar, served, reset, faults>>

RadarLoop ==
  /\ RadarAt("loop")
  /\ IF nave > 0 THEN nave' = nave - 1 /\ work' = Round \o work
                 ELSE work' = Tail(work) /\ UNCHANGED nave
  /\ UNCHANGED <<progVars, up, down, radar, served, reset, faults>>

RadarAnswer ==
  /\ RadarAt("answer")
  /\ \/ Gives(Msg(served, 0)) /\ UNCHANGED faults
     \/ /\ served \in Refused /\ faults < MaxFaults
        /\ Gives(Msg(served, 1)) /\ faults' = faults + 1
  /\ work' = <<>>
  /\ \/ radar' = "hear"
     \/ radar' = "ended" /\ prog = "ended"
  /\ UNCHANGED <<progVars, up, served, nave, reset>>

(* The process or its host fails.                                           *)
RadarLost ==
  /\ radar # "ended"
  /\ faults < MaxFaults /\ faults' = faults + 1
  /\ radar' = "ended" /\ work' = <<>>
  /\ UNCHANGED <<progVars, up, down, served, nave, reset>>

-----------------------------------------------------------------------------
Program == SendCommand \/ PutPiece \/ GetPiece \/ Count \/ Loop \/ Answer \/ Test
             \/ Alloc \/ Check \/ Continue \/ Leave
Radar == Hear \/ HearEnd \/ RadarGet \/ RadarPut \/ RadarCount \/ RadarLoop \/ RadarAnswer

Over == prog = "ended" /\ radar = "ended" /\ UNCHANGED vars

Next ==
  \/ Program \/ Radar \/ Reset \/ Interrupt \/ Kill \/ RadarLost \/ Over
  \/ \E signal \in {"SIGUSR1", "SIGPIPE"} : Stop(signal)

Spec == Init /\ [][Next]_vars

(* Neither process is held up for ever, and the kernel learns of an end.    *)
FairSpec == Spec /\ WF_vars(Program) /\ WF_vars(Radar) /\ WF_vars(Reset)

-----------------------------------------------------------------------------
TypeOK ==
  /\ prog \in {"run", "quit", "ended"} /\ call \in Calls
  /\ todo \in Seq([op : {"send", "put", "get", "count", "loop", "answer", "agreed",
                          "test", "alloc", "check", "exit"},
                    cmd : Commands \cup {"none"}, n : Nat])
  /\ cmd \in Commands \cup {"none"} /\ status \in {0, 1} /\ seqs \in 0..MaxSeqs
  /\ cancelCount \in 0..MaxSignals /\ exitFlag \in BOOLEAN /\ masked \subseteq Signals
  /\ signals \in 0..MaxSignals /\ torn \in BOOLEAN
  /\ up \in Seq([kind : {"status", "type", "piece"}, cmd : Commands \cup {"none"}, n : Nat])
  /\ down \in Seq([kind : {"status", "type", "piece"}, cmd : Commands \cup {"none"}, n : Nat])
  /\ radar \in {"hear", "work", "ended"} /\ served \in Commands \cup {"none"} /\ nave \in 0..MaxSeqs
  /\ work \in Seq([op : {"put", "get", "count", "loop", "answer"}, cmd : {"none"}, n : Nat])
  /\ reset \in BOOLEAN /\ faults \in 0..MaxFaults

(* Nothing is left over of a command: while the program is between two      *)
(* commands the radar waits for the next, and nothing is under way.         *)
Quiet ==
  prog = "run" /\ radar # "ended" /\ (todo = <<>> \/ Head(todo).op \in Pauses) =>
    radar = "hear" /\ up = <<>> /\ down = <<>>

(* What the program takes for an answer is the answer to its command, and   *)
(* what it takes for data is not an answer; QUIT sent between two commands  *)
(* is answered as what it is.                                               *)
AnswerIsOwn ==
  down # <<>> =>
    /\ At("answer") \/ At("agreed") => Head(down).kind = "status" /\ Head(down).cmd = cmd
    /\ At("get") \/ At("count") => Head(down).kind = "piece"
    /\ prog = "quit" /\ cmd = "QUIT" => Head(down).kind = "status" /\ Head(down).cmd = "QUIT"

(* A program that was asked to stop ends, and not only by SIGKILL: SIGINT  *)
(* is honoured at a check, where QUIT is answered, and what ends it at once *)
(* finds an answer, or something in its place, wherever it comes but in    *)
(* the middle of what the program sends.                                   *)
StopEnds == exitFlag ~> (prog = "ended" \/ torn)

(* Neither end outlives the other.                                          *)
EndsTogether == /\ (prog = "ended") ~> (radar = "ended")
                /\ (radar = "ended") ~> (prog = "ended")

=============================================================================
