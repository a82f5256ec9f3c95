----------------------------- MODULE TaskWriter ------------------------------
(***************************************************************************)
(* A control program and a task that stores its records: fitacfwrite or    *)
(* rawacfwrite.  The program (normalscan.c and its relatives) drives the   *)
(* task with requests of the rmsg protocol, each answered by a code that   *)
(* the program ignores.  The task forks a child per connection, so the child   *)
(* of a program that was stopped may still be at work when the next one    *)
(* connects.  A run is one life of the control program, with one           *)
(* connection and one child; the scheduler may end it at any point, in the *)
(* middle of a request included.                                           *)
(*                                                                         *)
(* The records of all runs are numbered in the order they are made.        *)
(***************************************************************************)
EXTENDS Integers, Sequences, FiniteSets

CONSTANTS
  MaxRuns,     \* bound: the lives of the control program
  MaxRecords,  \* bound: the records made
  MaxTime,     \* bound: the clock, in seconds
  MaxFaults,   \* bound: the calls of open, fopen and fwrite that fail
  PeriodLen,   \* the seconds of OpsReOpen's period (2 hours)
  Periods,     \* its periods in a day (12)
  Beams,       \* the beams of a scan
  Dirs         \* the number of directories in SD_FIT_PATH

ASSUME BoundsAssumption ==
  /\ MaxRuns \in Nat /\ MaxRecords \in Nat /\ MaxTime \in Nat /\ MaxFaults \in Nat
  /\ PeriodLen \in Nat \ {0} /\ Periods \in Nat \ {0} /\ Beams \in Nat \ {0}
  /\ Dirs \in Nat

(* A scan is over before a day comes round to the period it began in.      *)
ASSUME ScanAssumption == Beams <= (Periods - 1) * PeriodLen

Runs == 1..MaxRuns
RecordIds == 1..MaxRecords
Clock == 0..MaxTime

(* A file is named by its directory and the second of its first record.    *)
Names == [dir : 1..Dirs, sec : Clock]
NoName == [dir |-> 0, sec |-> 0]

VARIABLES
  run,      \* the current run, or the last one
  prog,     \* where it is
  asked,    \* it waits for the answer to a request
  then,     \* OpsReOpen's "then"
  beam,     \* iBeam
  clock,
  records,  \* the records made so far: run, second, first beam of a scan
  acked,    \* the records whose request was answered TASK_OK
  up, down, \* requests and answers on the way, per run
  child,    \* where the run's child is
  flg, filename, rmsg, \* its local variables
  blk,      \* its rblk: whether num is above 0, the record ptr leads to,
            \* and whether that memory is still allocated
  files,    \* the contents of every file
  made,     \* the files that exist
  faults

program == <<run, prog, asked, then, beam, clock, records, acked>>
disk == <<files, made, faults>>
locals == <<flg, filename, rmsg, blk>>
vars == <<program, up, down, child, locals, disk>>

Sending == {"reset", "open", "close", "reopen", "data"}
Places == Sending \cup {"down", "scan"}
ChildPlaces == {"none", "recv", "reply", "ack", "process", "gone"}
Replies == {"ok", "err"}

(* The calls of TCPIPMsgSend that make up each request.                    *)
Pieces(kind) == CASE kind = "data" -> 5
                  [] kind = "open" -> 3
                  [] OTHER -> 1
Kind(place) == IF place = "reopen" THEN "open" ELSE place
Requests == [kind : {"reset", "open", "close", "data"}, rec : 0..MaxRecords, pieces : 1..5]
Made == [run : Runs, sec : Clock, first : BOOLEAN]
Entries == [rec : RecordIds, is : {"whole", "stale", "short"}]
Blocks == [num : BOOLEAN, rec : 0..MaxRecords, live : BOOLEAN]

Init ==
  /\ run = 0 /\ prog = "down" /\ asked = FALSE
  /\ then = -1 /\ beam = 0 /\ clock = 0
  /\ records = <<>> /\ acked = {}
  /\ up = [c \in Runs |-> <<>>] /\ down = [c \in Runs |-> <<>>]
  /\ child = [c \in Runs |-> "none"]
  /\ flg = [c \in Runs |-> FALSE] /\ filename = [c \in Runs |-> NoName]
  /\ rmsg = [c \in Runs |-> "ok"]
  /\ blk = [c \in Runs |-> [num |-> FALSE, rec |-> 0, live |-> FALSE]]
  /\ files = [n \in Names |-> <<>>] /\ made = {} /\ faults = 0

-----------------------------------------------------------------------------
(***************************************************************************)
(* The control program.                                                    *)
(***************************************************************************)
(* It starts and connects; the task forks.                                 *)
Start ==
  /\ prog = "down"
  /\ run < MaxRuns
  /\ run' = run + 1
  /\ prog' = "reset"
  /\ then' = -1
  /\ beam' = 0
  /\ child' = [child EXCEPT ![run + 1] = "recv"]
  /\ UNCHANGED <<asked, clock, records, acked, up, down, locals, disk>>

Period(t) == t \div PeriodLen
(* Mutant: the period is taken to be twice as long.                        *)
NowPeriod_twice(t) == (t \div (2 * PeriodLen)) % Periods
NowPeriod(t) == Period(t) % Periods

(* iBeam++, and back to 0 after the last beam.                             *)
NextBeam(b) == (b + 1) % Beams

(* An integration, the scan's next beam, and OpsReOpen(2,0,0) at beam 0.   *)
Integrate ==
  /\ prog = "scan"
  /\ Len(records) < MaxRecords
  /\ \E t \in {clock, clock + 1} \cap Clock :
       LET now == NowPeriod(t) IN
       /\ clock' = t
       /\ records' = Append(records, [run |-> run, sec |-> t, first |-> beam = 0])
       /\ then' = IF beam = 0 THEN now ELSE then
       /\ prog' = IF beam = 0 /\ then \notin {-1, now} THEN "close" ELSE "data"
  /\ beam' = NextBeam(beam)
  /\ UNCHANGED <<run, asked, acked, up, down, child, locals, disk>>

Request(pieces) ==
  [kind |-> Kind(prog), rec |-> IF prog = "data" THEN Len(records) ELSE 0, pieces |-> pieces]

(* RMsgSndReset, RMsgSndOpen, RMsgSndClose, RMsgSndSend.                   *)
Send ==
  /\ prog \in Sending
  /\ ~asked
  /\ asked' = TRUE
  /\ up' = [up EXCEPT ![run] = Append(@, Request(Pieces(Kind(prog))))]
  /\ UNCHANGED <<run, prog, then, beam, clock, records, acked, down, child, locals, disk>>

NextPlace == CASE prog = "reset" -> "open"
               [] prog = "close" -> "reopen"
               [] prog = "reopen" -> "data"
               [] OTHER -> "scan"

(* The answer; whatever it is, the program goes on.                        *)
Answer ==
  /\ asked
  /\ down[run] # <<>>
  /\ acked' = IF prog = "data" /\ Head(down[run]) = "ok"
              THEN acked \cup {Len(records)} ELSE acked
  /\ down' = [down EXCEPT ![run] = Tail(@)]
  /\ asked' = FALSE
  /\ prog' = NextPlace
  /\ UNCHANGED <<run, then, beam, clock, records, up, child, locals, disk>>

End ==
  /\ prog' = "down"
  /\ asked' = FALSE
  /\ UNCHANGED <<run, then, beam, clock, records, acked, down, child, locals, disk>>

(* The child is gone: the read returns 0 and the program goes on, or       *)
(* SIGPIPE ends it.                                                        *)
Unanswered ==
  /\ asked
  /\ down[run] = <<>>
  /\ child[run] = "gone"
  /\ asked' = FALSE
  /\ prog' = NextPlace
  /\ UNCHANGED <<run, then, beam, clock, records, acked, up, down, child, locals, disk>>

Broken ==
  /\ prog \in Sending
  /\ child[run] = "gone"
  /\ End
  /\ UNCHANGED up

(* The scheduler or the operator stops the program, between two requests   *)
(* or after some of the pieces of one.                                     *)
Stop ==
  /\ prog # "down"
  /\ \/ UNCHANGED up
     \/ /\ prog \in Sending /\ ~asked
        /\ \E k \in 1..(Pieces(Kind(prog)) - 1) :
             up' = [up EXCEPT ![run] = Append(@, Request(k))]
  /\ End

-----------------------------------------------------------------------------
(***************************************************************************)
(* operate(): the child of run c.                                          *)
(***************************************************************************)
Over(c) == c < run \/ prog = "down"

(* Mutant: the memory is freed once it is decoded.                         *)
Decoded_freed(b, m) ==
  [num |-> m.pieces >= 2,
   rec |-> IF m.pieces = 5 THEN m.rec ELSE b.rec,
   live |-> FALSE]

(* RMsgRcvDecodeData: a message that breaks off after num leaves num set   *)
(* and the pointers where they were.  The memory they lead to is freed     *)
(* after the table was read, if operate() has not freed it before.         *)
Decoded(b, m) ==
  [num |-> m.pieces >= 2,
   rec |-> IF m.pieces = 5 THEN m.rec ELSE b.rec,
   live |-> m.pieces = 5 \/ (m.pieces < 4 /\ b.live)]

(* The next request, up to the answer's code.                              *)
Receive(c) ==
  LET m == Head(up[c])
      complete == m.pieces = Pieces(m.kind)
  IN
  /\ child[c] = "recv"
  /\ up[c] # <<>>
  /\ up' = [up EXCEPT ![c] = Tail(@)]
  /\ rmsg' = [rmsg EXCEPT ![c] = IF complete THEN "ok" ELSE "err"]
  /\ flg' = [flg EXCEPT ![c] = @ \/ (m.kind = "open" /\ complete)]
  /\ filename' = [filename EXCEPT ![c] = IF m.kind \in {"close", "reset"} THEN NoName ELSE @]
  /\ blk' = [blk EXCEPT ![c] = IF m.kind = "data" THEN Decoded(@, m) ELSE @]
  /\ child' = [child EXCEPT ![c] = IF m.kind = "data" THEN "ack" ELSE "reply"]
  /\ UNCHANGED <<program, down, disk>>

(* The answer, before the data is looked at.                               *)
Reply(c) ==
  /\ child[c] \in {"reply", "ack"}
  /\ down' = [down EXCEPT ![c] = Append(@, rmsg[c])]
  /\ child' = [child EXCEPT ![c] = IF @ = "ack" THEN "process" ELSE "recv"]
  /\ UNCHANGED <<program, up, locals, disk>>

(* Mutants: the file need not be new; only the first directory is tried.   *)
MakeFile_notNew(sec, bad) ==
  LET free == (1..Dirs) \ bad
  IN  IF free = {} THEN NoName
      ELSE [dir |-> CHOOSE d \in free : \A e \in free : d <= e, sec |-> sec]

MakeFile_firstOnly(sec, bad) ==
  IF 1 \in bad \/ [dir |-> 1, sec |-> sec] \in made THEN NoName
  ELSE [dir |-> 1, sec |-> sec]

(* FIOMakeFile: the first directory in which the new file can be created.  *)
MakeFile(sec, bad) ==
  LET free == { d \in (1..Dirs) \ bad : [dir |-> d, sec |-> sec] \notin made }
  IN  IF free = {} THEN NoName
      ELSE [dir |-> CHOOSE d \in free : \A e \in free : d <= e, sec |-> sec]

Faults(n) == faults' = faults + n /\ faults' <= MaxFaults

FileDue(c) == filename[c] = NoName /\ flg[c]

(* The file to write to: the open one, or a new one if open was asked for. *)
File(c, bad) ==
  IF FileDue(c) THEN MakeFile(records[blk[c].rec].sec, bad) ELSE filename[c]

HasRecord(c) == child[c] = "process" /\ blk[c].num /\ blk[c].rec # 0

Entry(c) == [rec |-> blk[c].rec,
             is |-> IF blk[c].live THEN "whole" ELSE "stale"]

(* Mutant: the memory of the message is not freed.                         *)
Done_notFreed(c) ==
  /\ child' = [child EXCEPT ![c] = "recv"]
  /\ UNCHANGED blk

Done(c) ==
  /\ child' = [child EXCEPT ![c] = "recv"]
  /\ blk' = [blk EXCEPT ![c].live = FALSE]

(* No complete record in the message.                                      *)
Skip(c) ==
  /\ child[c] = "process"
  /\ ~HasRecord(c)
  /\ Done(c)
  /\ UNCHANGED <<program, up, down, flg, filename, rmsg, disk>>

(* No file is open, and none is asked for or none can be created.  Nothing *)
(* is tried again before the next request to open.                         *)
Drop(c) ==
  /\ HasRecord(c)
  /\ \E bad \in IF FileDue(c) THEN SUBSET (1..Dirs) ELSE {{}} :
       File(c, bad) = NoName /\ Faults(Cardinality(bad))
  /\ flg' = [flg EXCEPT ![c] = FALSE]
  /\ Done(c)
  /\ UNCHANGED <<program, up, down, filename, rmsg, files, made>>

(* The record is appended to the open file, made first if one is due.  A   *)
(* failing write leaves a part of it, or nothing (and one descriptor more, *)
(* which is closed when the child ends).                                   *)
Store(c) ==
  /\ HasRecord(c)
  /\ \E bad \in IF FileDue(c) THEN SUBSET (1..Dirs) ELSE {{}},
        wrote \in {<<Entry(c)>>, <<[Entry(c) EXCEPT !.is = "short"]>>, <<>>} :
       LET file == File(c, bad) IN
       /\ file # NoName
       /\ Faults(Cardinality(bad) + IF wrote = <<Entry(c)>> THEN 0 ELSE 1)
       /\ files' = [files EXCEPT ![file] = @ \o wrote]
       /\ made' = made \cup {file}
       /\ filename' = [filename EXCEPT ![c] = file]
  /\ flg' = [flg EXCEPT ![c] = @ /\ ~FileDue(c)]
  /\ Done(c)
  /\ UNCHANGED <<program, up, down, rmsg>>

(* fopen fails: the error is logged and fclose(NULL) ends the child.       *)
NoOpen(c) ==
  /\ HasRecord(c)
  /\ File(c, {}) # NoName
  /\ Faults(1)
  /\ made' = made \cup {File(c, {})}
  /\ child' = [child EXCEPT ![c] = "gone"]
  /\ UNCHANGED <<program, up, down, locals, files>>

(* Freed memory may not be what the functions that expand and write a      *)
(* record can read.                                                        *)
Crash(c) ==
  /\ HasRecord(c)
  /\ ~blk[c].live
  /\ child' = [child EXCEPT ![c] = "gone"]
  /\ UNCHANGED <<program, up, down, locals, disk>>

(* Mutant: only an error of recv ends the loop, not the end of the stream. *)
Finish_errorsOnly(c) ==
  /\ child[c] = "recv"
  /\ up[c] = <<>>
  /\ Over(c)
  /\ UNCHANGED vars

(* The program is gone and everything it sent was read.                    *)
Finish(c) ==
  /\ child[c] = "recv"
  /\ up[c] = <<>>
  /\ Over(c)
  /\ child' = [child EXCEPT ![c] = "gone"]
  /\ UNCHANGED <<program, up, down, locals, disk>>

-----------------------------------------------------------------------------
Child(c) ==
  Receive(c) \/ Reply(c) \/ Skip(c) \/ Drop(c) \/ Store(c) \/ Finish(c)

Next ==
  \/ Start \/ Integrate \/ Send \/ Answer \/ Unanswered \/ Broken \/ Stop
  \/ \E c \in Runs : Child(c) \/ NoOpen(c) \/ Crash(c)

Spec == Init /\ [][Next]_vars

(* Every child runs, and the program goes on while it is not stopped.      *)
(* Nothing has to fail, and nobody has to start or to stop the program.    *)
FairSpec ==
  /\ Spec
  /\ \A c \in Runs : WF_vars(Child(c))
  /\ WF_vars(Integrate \/ Send \/ Answer \/ Unanswered)

-----------------------------------------------------------------------------
TypeOK ==
  /\ run \in 0..MaxRuns /\ prog \in Places /\ asked \in BOOLEAN
  /\ then \in -1..(Periods - 1) /\ beam \in 0..(Beams - 1) /\ clock \in Clock
  /\ records \in Seq(Made) /\ Len(records) <= MaxRecords
  /\ acked \subseteq 1..Len(records)
  /\ up \in [Runs -> Seq(Requests)] /\ down \in [Runs -> Seq(Replies)]
  /\ child \in [Runs -> ChildPlaces]
  /\ flg \in [Runs -> BOOLEAN] /\ filename \in [Runs -> Names \cup {NoName}]
  /\ rmsg \in [Runs -> Replies] /\ blk \in [Runs -> Blocks]
  /\ files \in [Names -> Seq(Entries)] /\ made \subseteq Names
  /\ faults \in 0..MaxFaults

Of(n, i) == records[files[n][i].rec]
Stored(r) == \E n \in Names : \E i \in DOMAIN files[n] :
               files[n][i].rec = r /\ files[n][i].is = "whole"

(* Open with O_EXCL: the children of two runs never write to one file,     *)
(* not even when both make it in the same second.                          *)
OneRunPerFile ==
  \A n \in Names : \A i, j \in DOMAIN files[n] : Of(n, i).run = Of(n, j).run

(* The records of a file are in the order they were made, none twice.      *)
InOrder ==
  \A n \in Names : \A i, j \in DOMAIN files[n] :
    i < j /\ files[n][i].is = "whole" /\ files[n][j].is = "whole"
      => files[n][i].rec < files[n][j].rec

(* What is made of a message that broke off is the last thing in its file, *)
(* and only a program that was stopped leaves it.                          *)
StaleIsLast ==
  \A n \in Names : \A i \in DOMAIN files[n] :
    files[n][i].is = "stale" => i = Len(files[n]) /\ Over(Of(n, i).run)

(* "Opening a new file every 2 hours": a scan that begins in another       *)
(* period than the file did goes to another file.                          *)
FilePerPeriod ==
  \A n \in Names : \A i \in DOMAIN files[n] :
    Of(n, i).first => Period(Of(n, i).sec) = Period(n.sec)

(* A record answered with TASK_OK, before the child looks at it, is in a   *)
(* file in the end, unless the file system failed; so is one whose program *)
(* is stopped.                                                             *)
AckedIsStored == \A r \in RecordIds : r \in acked ~> Stored(r) \/ faults > 0

(* The child of a program that is gone ends.                               *)
ChildEnds == \A c \in Runs : (child[c] # "none" /\ Over(c)) ~> child[c] = "gone"

(***************************************************************************)
(* What the code says and does not do.                                     *)
(***************************************************************************)
(* fitacfwrite.c: "Error opening file." is logged and the task goes on: a  *)
(* child ends after its program.                                           *)
OpenErrorTolerated == \A c \in Runs : child[c] = "gone" => Over(c)

-----------------------------------------------------------------------------
(***************************************************************************)
(* The inductive invariant behind OneRunPerFile, InOrder and StaleIsLast.  *)
(***************************************************************************)
(* The program has a record to send, and has not sent it.                  *)
Pending == prog \in {"close", "reopen", "data"}
Unsent == Pending /\ (prog = "data" => ~asked)

ProgramInv ==
  /\ prog # "down" => run \in Runs
  /\ asked => prog \in Sending
  /\ Pending => records # <<>> /\ records[Len(records)].run = run
  /\ \A r \in 1..Len(records) : records[r].run <= run

(* Record r, if there is one, was made by run c.                           *)
Own(c, r) == r <= Len(records) /\ (r # 0 => records[r].run = c)

(* A message that broke off.                                               *)
Cut(m) == m.kind = "data" /\ m.pieces < 5

(* The requests on the way are the run's own, in order, and nothing        *)
(* follows a message that broke off.                                       *)
SentInv ==
  \A c \in Runs :
    /\ up[c] # <<>> => c <= run
    /\ \A i \in 1..Len(up[c]) :
         /\ Own(c, up[c][i].rec)
         /\ Cut(up[c][i]) => i = Len(up[c]) /\ Over(c)
         /\ up[c][i].kind = "data" =>
              /\ up[c][i].rec > blk[c].rec
              /\ \A j \in 1..Len(up[c]) : up[c][j].kind = "data" /\ i < j
                                             => up[c][i].rec < up[c][j].rec
              /\ c = run /\ Unsent => up[c][i].rec < Len(records)

(* What the child holds: a record it has not stored, or nothing it may     *)
(* look at unless the run is over.                                         *)
Looking(c) == child[c] \in {"ack", "process"}

HeldInv ==
  \A c \in Runs :
    /\ child[c] # "none" => c <= run
    /\ Own(c, blk[c].rec)
    /\ c = run /\ Unsent => blk[c].rec < Len(records)
    /\ blk[c].live => child[c] \in {"ack", "process", "gone"}
    /\ Looking(c) /\ blk[c].num /\ ~blk[c].live => Over(c) /\ up[c] = <<>>

(* An open file is the child's own.                                        *)
NameInv ==
  /\ \A c \in Runs : filename[c] # NoName => filename[c] \in made
  /\ \A c, d \in Runs : filename[c] = filename[d] /\ filename[c] # NoName => c = d
  /\ \A n \in Names : n \notin made => files[n] = <<>>
  /\ \A c \in Runs, n \in Names : filename[c] = n =>
       \A i \in 1..Len(files[n]) : Of(n, i).run = c

(* What is stored was held before, and nothing follows a stale record.     *)
StoredInv ==
  \A n \in Names : \A i \in 1..Len(files[n]) :
    LET e == files[n][i]
        c == records[e.rec].run
    IN  /\ e.rec <= Len(records)
        /\ e.rec <= blk[c].rec
        /\ e.is = "whole" /\ blk[c].live => e.rec < blk[c].rec
        /\ e.is = "stale" => up[c] = <<>> /\ Over(c) /\ ~Looking(c)

WriterInv ==
  /\ TypeOK /\ ProgramInv /\ SentInv /\ HeldInv /\ NameInv /\ StoredInv
  /\ OneRunPerFile /\ InOrder /\ StaleIsLast
-----------------------------------------------------------------------------
(***************************************************************************)
(* What is invariant besides, for FilePerPeriod.                           *)
(***************************************************************************)
(* Run c goes on and its child is there.                                   *)
Served(c) == c = run /\ prog # "down" /\ child[c] # "gone"
Answering(c) == child[c] \in {"reply", "ack"}

(* One request at a time: it is on the way, or being answered, or its      *)
(* answer is on the way.                                                   *)
Turn(c) ==
  /\ down[c] # <<>> => c <= run
  /\ child[c] # "gone" => Len(up[c]) <= 1
  /\ Served(c) =>
       /\ ~asked => up[c] = <<>> /\ down[c] = <<>> /\ ~Answering(c)
       /\ up[c] # <<>> =>
            up[c][1] = Request(Pieces(Kind(prog))) /\ down[c] = <<>> /\ ~Answering(c)
       /\ down[c] # <<>> => ~Answering(c) /\ Len(down[c]) = 1

(* The last scan began with record f.                                      *)
LastStart(f) ==
  /\ f \in 1..Len(records) /\ records[f].first /\ records[f].run = run
  /\ \A r \in (f + 1)..Len(records) : ~records[r].first

(* OpsReOpen knows the period in which the last scan began, and less than  *)
(* a scan went by since.                                                   *)
Since(f) ==
  /\ LastStart(f)
  /\ then = NowPeriod(records[f].sec)
  /\ Len(records) - f < Beams
  /\ beam = NextBeam(Len(records) - f)
  /\ records[f].sec <= clock /\ clock <= records[f].sec + (Len(records) - f)

ThenInv ==
  prog # "down" =>
    /\ then = -1 => beam = 0 /\ \A r \in 1..Len(records) : records[r].run < run
    /\ then # -1 => \E f \in 1..Len(records) : Since(f)
    /\ prog \in {"reset", "open"} => then = -1
    /\ prog \in {"close", "reopen"} => records[Len(records)].first

(* The file that the child has open, or is about to make.                  *)
Aimed(c) == filename[c] # NoName \/ (FileDue(c) /\ Looking(c) /\ blk[c].rec # 0)
AimedSec(c) == IF filename[c] = NoName THEN records[blk[c].rec].sec ELSE filename[c].sec

(* Record r may go to that file.                                           *)
Fits(c, r) == records[r].first => Period(records[r].sec) = Period(AimedSec(c))

(* What the child looked at last fits, and what it is sent; so will what   *)
(* it is sent next, unless the program closes the file first.              *)
Aim(c) ==
  child[c] # "gone" =>
    /\ filename[c] # NoName => blk[c].rec # 0
    /\ Aimed(c) =>
         /\ Fits(c, blk[c].rec)
         /\ \A i \in 1..Len(up[c]) :
              up[c][i].kind = "data" /\ up[c][i].pieces = 5 => Fits(c, up[c][i].rec)
         /\ Served(c) /\ prog \in {"scan", "data"} =>
              \A f \in 1..Len(records) : LastStart(f) => Fits(c, f)

(* A file is made for the first record of a scan only, and the one before  *)
(* it is closed.                                                           *)
Due(c) ==
  Served(c) =>
    /\ flg[c] => filename[c] = NoName
    /\ Looking(c) => blk[c].num /\ blk[c].rec # 0
    /\ FileDue(c) /\ ~Looking(c) =>
         /\ prog # "close"
         /\ prog = "scan" => then = -1
         /\ prog \in {"reopen", "data"} => records[Len(records)].first
         /\ prog = "data" /\ asked => up[c] # <<>>
    /\ prog = "reopen" \/ (prog = "close" /\ asked /\ up[c] = <<>>) =>
         filename[c] = NoName /\ ~Looking(c)

PeriodInv ==
  /\ ThenInv /\ FilePerPeriod
  /\ \A c \in Runs : Turn(c) /\ Aim(c) /\ Due(c)
=============================================================================
