-------------------------------- MODULE ErrLog --------------------------------
(***************************************************************************)
(* The error log: the daemon errlog (errlog.c of src.bin), which forks a   *)
(* child for each connection, and the function ErrLog of the library, with *)
(* which every task reports: it sends a message in six pieces and waits    *)
(* for an answer.  A task opens its connection in main(), before it forks  *)
(* the processes that serve its own connections, so that several processes *)
(* may hold one connection; conn says which.                               *)
(*                                                                         *)
(* The children write to one file a day.  A line is written through a      *)
(* buffer, when the file is closed; a child's first line of a day has a    *)
(* heading before it.  A line, with the heading, is an entry of the file,  *)
(* and entries count as equally long.                                      *)
(***************************************************************************)
EXTENDS Integers, Sequences

CONSTANTS
  Procs,     \* the processes that report
  Conns,     \* the connections to errlog
  conn,      \* the connection each process holds
  NameLen,   \* the length of a task's name, in units of four bytes
  TextLen,   \* the length of a text
  MaxCalls,  \* bound: the calls of ErrLog in a process
  MaxDays,   \* bound: the days
  MaxFaults  \* bound: the calls of fopen that fail, the children that are killed

ASSUME SizesAssumption ==
  /\ conn \in [Procs -> Conns]
  /\ NameLen \in Nat \ {0} /\ TextLen \in Nat \ {0}
  /\ MaxCalls \in Nat /\ MaxDays \in Nat \ {0} /\ MaxFaults \in Nat

Days == 1..MaxDays

VARIABLES
  calls,   \* the calls of ErrLog each process has made
  piece,   \* the pieces it has sent of the current one; 0: it is elsewhere
  result,  \* what its last call returned, or "dead" when it has ended
  wire,    \* the units on the way to each child
  answers, \* the answers on the way back
  child,   \* where operate() is
  line,    \* the message it has read
  used,    \* whether buf holds the address of an earlier message
  yday,    \* the day of its file; 0: none yet
  today,   \* the day it has looked up
  day,     \* the clock
  exists,  \* the days whose file exists
  files,   \* the entries of each day's file
  written, \* history: the entries that were written, in order
  raced,   \* history: the days on which one was written while another
           \* child was about to make the file
  faults

callers == <<calls, piece, result>>
channels == <<wire, answers>>
disk == <<exists, files, written, raced>>
vars == <<callers, channels, child, line, used, yday, today, day, disk, faults>>

(***************************************************************************)
(* A message is a sequence of units, in pieces: the code, the pid, the two *)
(* lengths, which are twice as long, the name and the text.                *)
(***************************************************************************)
Pieces == 6
HeaderLen == 6
End(k) == <<1, 2, 4, HeaderLen, HeaderLen + NameLen, HeaderLen + NameLen + TextLen>>[k]
Start(k) == IF k = 1 THEN 0 ELSE End(k - 1)

Unit(p, n, k) == [from |-> p, call |-> n, piece |-> k]
Piece(p, n, k) == [i \in 1..(End(k) - Start(k)) |-> Unit(p, n, k)]
PieceOf(i) == CASE i <= HeaderLen -> <<1, 2, 3, 3, 4, 4>>[i]
                [] i > HeaderLen /\ i <= End(5) -> 5
                [] OTHER -> 6
Message(p, n) == [i \in 1..End(Pieces) |-> Unit(p, n, PieceOf(i))]

Entry(c) == [by |-> c, line |-> line[c]]

Init ==
  /\ calls = [p \in Procs |-> 0] /\ piece = [p \in Procs |-> 0]
  /\ result = [p \in Procs |-> "none"]
  /\ wire = [c \in Conns |-> <<>>] /\ answers = [c \in Conns |-> <<>>]
  /\ child = [c \in Conns |-> "recv"] /\ line = [c \in Conns |-> <<>>]
  /\ used = [c \in Conns |-> FALSE]
  /\ yday = [c \in Conns |-> 0] /\ today = [c \in Conns |-> 1] /\ day = 1
  /\ exists = {} /\ files = [d \in Days |-> <<>>]
  /\ written = [d \in Days |-> <<>>] /\ raced = {} /\ faults = 0

-----------------------------------------------------------------------------
(***************************************************************************)
(* ErrLog(), in process p.                                                 *)
(***************************************************************************)
(* The next piece.  When the child has gone the first one fails, and the   *)
(* call returns -1; the other results are not looked at.                   *)
Send(p) ==
  LET c == conn[p]
      n == IF piece[p] = 0 THEN calls[p] + 1 ELSE calls[p]
      refused == piece[p] = 0 /\ child[c] = "gone"
  IN
  /\ result[p] # "dead"
  /\ piece[p] < Pieces
  /\ n <= MaxCalls
  /\ calls' = [calls EXCEPT ![p] = n]
  /\ piece' = [piece EXCEPT ![p] = IF refused THEN 0 ELSE @ + 1]
  /\ result' = [result EXCEPT ![p] = IF refused THEN "fail" ELSE @]
  /\ wire' = [wire EXCEPT ![c] =
       IF child[c] = "gone" THEN @ ELSE @ \o Piece(p, n, piece[p] + 1)]
  /\ UNCHANGED <<answers, child, line, used, yday, today, day, disk, faults>>

(* Mutants: the end of the connection is taken for an answer; an answer is *)
(* waited for again.                                                       *)
Return_unchecked(p) ==
  LET c == conn[p] IN
  /\ result[p] # "dead" /\ piece[p] = Pieces
  /\ answers[c] # <<>> \/ child[c] = "gone"
  /\ result' = [result EXCEPT ![p] = "ok"]
  /\ answers' = [answers EXCEPT ![c] = <<>>]
  /\ piece' = [piece EXCEPT ![p] = 0]
  /\ UNCHANGED <<calls, wire, child, line, used, yday, today, day, disk, faults>>

Return_again(p) ==
  LET c == conn[p] IN
  /\ result[p] # "dead" /\ piece[p] = Pieces
  /\ answers[c] # <<>>
  /\ result' = [result EXCEPT ![p] = Head(answers[c])]
  /\ answers' = [answers EXCEPT ![c] = Tail(@)]
  /\ piece' = [piece EXCEPT ![p] = 0]
  /\ UNCHANGED <<calls, wire, child, line, used, yday, today, day, disk, faults>>

(* The answer, to whoever reads it first, or the end of the connection.    *)
Return(p) ==
  LET c == conn[p] IN
  /\ result[p] # "dead"
  /\ piece[p] = Pieces
  /\ \/ /\ answers[c] # <<>>
        /\ result' = [result EXCEPT ![p] = Head(answers[c])]
        /\ answers' = [answers EXCEPT ![c] = Tail(@)]
     \/ /\ answers[c] = <<>>
        /\ child[c] = "gone"
        /\ result' = [result EXCEPT ![p] = "fail"]
        /\ UNCHANGED answers
  /\ piece' = [piece EXCEPT ![p] = 0]
  /\ UNCHANGED <<calls, wire, child, line, used, yday, today, day, disk, faults>>

(* The process ends, also in the middle of a message.                      *)
Die(p) ==
  /\ result[p] # "dead"
  /\ result' = [result EXCEPT ![p] = "dead"]
  /\ UNCHANGED <<calls, piece, channels, child, line, used, yday, today, day, disk, faults>>

-----------------------------------------------------------------------------
(***************************************************************************)
(* operate(): the child of connection c.                                   *)
(***************************************************************************)
Gone(c) == \A p \in Procs : conn[p] = c => result[p] = "dead"

(* A length that was read from two units that are not the halves of one is *)
(* a number of billions.                                                   *)
Length(u, v) == CASE u = v /\ u.piece = 3 -> NameLen
                  [] u = v /\ u.piece = 4 -> TextLen
                  [] OTHER -> -1

Nlen(w) == Length(w[3], w[4])
(* Mutant: the text is as long as the name.                                *)
Blen_nlen(w) == Length(w[3], w[4])

Blen(w) == Length(w[5], w[6])
Good(w) == Nlen(w) # -1 /\ Blen(w) # -1

(* What operate() takes for a message, at the beginning of w: without the  *)
(* name and the text if there is no memory for them.                       *)
Total(w) == IF Good(w) THEN HeaderLen + Nlen(w) + Blen(w) ELSE HeaderLen
Complete(w) == Len(w) >= HeaderLen /\ Len(w) >= Total(w)

(* A message is read and answered.  A name or a text of billions of bytes  *)
(* cannot be allocated: the answer is ERROR_FAIL and what follows in the   *)
(* connection is taken for the next message.  If it is the name's, buf may *)
(* still have the value of an earlier message, which was freed: then the   *)
(* name is read to address 0, which ends the loop.                         *)
Receive(c) ==
  LET w == wire[c]
      lost == Nlen(w) = -1 /\ used[c]
  IN
  /\ child[c] = "recv"
  /\ Complete(w)
  /\ wire' = [wire EXCEPT ![c] = SubSeq(w, Total(w) + 1, Len(w))]
  /\ line' = [line EXCEPT ![c] = SubSeq(w, 1, Total(w))]
  /\ answers' = [answers EXCEPT ![c] =
       IF lost THEN @ ELSE Append(@, IF Good(w) THEN "ok" ELSE "fail")]
  /\ child' = [child EXCEPT ![c] = IF lost THEN "gone" ELSE "open"]
  /\ used' = [used EXCEPT ![c] = Good(w)]
  /\ UNCHANGED <<callers, yday, today, day, disk, faults>>

(* The processes have ended; half a message is dropped.                    *)
Finish(c) ==
  /\ child[c] = "recv"
  /\ Gone(c)
  /\ ~Complete(wire[c])
  /\ child' = [child EXCEPT ![c] = "gone"]
  /\ UNCHANGED <<callers, channels, line, used, yday, today, day, disk, faults>>

(* Mutant: a new file is made on a new day although it is there.           *)
Test_noAccess(c) ==
  /\ child[c] = "open"
  /\ today' = [today EXCEPT ![c] = day]
  /\ child' = [child EXCEPT ![c] = IF yday[c] = day THEN "append" ELSE "make"]
  /\ UNCHANGED <<callers, channels, line, used, yday, day, disk, faults>>

(* open_file: the day is looked up, and on a new day whether the file is   *)
(* there.                                                                  *)
Test(c) ==
  /\ child[c] = "open"
  /\ today' = [today EXCEPT ![c] = day]
  /\ child' = [child EXCEPT ![c] = CASE yday[c] = day -> "append"
                                     [] yday[c] # day /\ day \in exists -> "add"
                                     [] OTHER -> "make"]
  /\ UNCHANGED <<callers, channels, line, used, yday, day, disk, faults>>

(* Another child has found that the file of day d is not there, and has    *)
(* not closed it yet.                                                      *)
Making(c, d) == \E b \in Conns \ {c} : child[b] \in {"make", "made"} /\ today[b] = d

Write(c, content) ==
  LET d == today[c] IN
  /\ files' = [files EXCEPT ![d] = content]
  /\ exists' = exists \cup {d}
  /\ written' = [written EXCEPT ![d] = Append(@, Entry(c))]
  /\ raced' = IF Making(c, d) THEN raced \cup {d} ELSE raced
  /\ yday' = [yday EXCEPT ![c] = d]
  /\ child' = [child EXCEPT ![c] = "recv"]
  /\ UNCHANGED <<callers, channels, line, used, today, day, faults>>

(* Mode "a": what is in the buffer goes to the end of the file.            *)
AppendLine(c) ==
  /\ child[c] \in {"append", "add"}
  /\ Write(c, Append(files[today[c]], Entry(c)))

(* Mode "w": the file is made empty, and what is in the buffer goes to its *)
(* beginning.                                                              *)
Make(c) ==
  /\ child[c] = "make"
  /\ files' = [files EXCEPT ![today[c]] = <<>>]
  /\ exists' = exists \cup {today[c]}
  /\ yday' = [yday EXCEPT ![c] = today[c]]
  /\ child' = [child EXCEPT ![c] = "made"]
  /\ UNCHANGED <<callers, channels, line, used, today, day, written, raced, faults>>

FirstLine(c) ==
  /\ child[c] = "made"
  /\ Write(c, <<Entry(c)>> \o SubSeq(files[today[c]], 2, Len(files[today[c]])))

(* fopen fails: the message is not recorded.                               *)
NotRecording(c) ==
  /\ faults < MaxFaults
  /\ child[c] \in {"append", "add", "make"}
  /\ faults' = faults + 1
  /\ yday' = [yday EXCEPT ![c] = today[c]]
  /\ child' = [child EXCEPT ![c] = "recv"]
  /\ UNCHANGED <<callers, channels, line, used, today, day, disk>>

(* The daemon's processes are killed; nobody starts a child for a          *)
(* connection again.                                                       *)
Killed(c) ==
  /\ faults < MaxFaults
  /\ child[c] # "gone"
  /\ faults' = faults + 1
  /\ child' = [child EXCEPT ![c] = "gone"]
  /\ UNCHANGED <<callers, channels, line, used, yday, today, day, disk>>

Midnight ==
  /\ day < MaxDays
  /\ day' = day + 1
  /\ UNCHANGED <<callers, channels, child, line, used, yday, today, disk, faults>>

-----------------------------------------------------------------------------
Caller(p) == Send(p) \/ Return(p)
Child(c) ==
  Receive(c) \/ Finish(c) \/ Test(c) \/ AppendLine(c) \/ Make(c) \/ FirstLine(c)

Next ==
  \/ \E p \in Procs : Caller(p) \/ Die(p)
  \/ \E c \in Conns : Child(c) \/ NotRecording(c) \/ Killed(c)
  \/ Midnight

Spec == Init /\ [][Next]_vars

(* The children run, and a process that has begun a call goes on with it.  *)
FairSpec ==
  /\ Spec
  /\ \A p \in Procs : WF_vars(piece[p] > 0 /\ Caller(p))
  /\ \A c \in Conns : WF_vars(Child(c))

-----------------------------------------------------------------------------
Units == [from : Procs, call : 1..MaxCalls, piece : 1..Pieces]
Entries == [by : Conns, line : Seq(Units)]
Results == {"none", "ok", "fail", "dead"}
ChildPlaces == {"recv", "open", "append", "add", "make", "made", "gone"}

TypeOK ==
  /\ calls \in [Procs -> 0..MaxCalls] /\ piece \in [Procs -> 0..Pieces]
  /\ result \in [Procs -> Results]
  /\ wire \in [Conns -> Seq(Units)] /\ answers \in [Conns -> Seq({"ok", "fail"})]
  /\ child \in [Conns -> ChildPlaces] /\ line \in [Conns -> Seq(Units)]
  /\ used \in [Conns -> BOOLEAN]
  /\ yday \in [Conns -> 0..MaxDays] /\ today \in [Conns -> Days] /\ day \in Days
  /\ exists \subseteq Days /\ raced \subseteq Days
  /\ files \in [Days -> Seq(Entries)] /\ written \in [Days -> Seq(Entries)]
  /\ faults \in 0..MaxFaults

(* Process p does not share its connection.                                *)
Alone(p) == \A q \in Procs : conn[q] = conn[p] => q = p

(* An answer is for the caller's own message: ErrLog returns 0 when the    *)
(* last thing its child has read is the message of this call, which is     *)
(* written or about to be unless something fails, and -1 only when there   *)
(* is no child.                                                            *)
Has(d, message) == \E i \in 1..Len(written[d]) : written[d][i].line = message
Busy(c) == child[c] \in {"open", "append", "add", "make", "made"}
Recorded(c, message) == Busy(c) \/ faults > 0 \/ \E d \in Days : Has(d, message)

AnswerIsOwn ==
  \A p \in Procs : Alone(p) /\ piece[p] = 0 =>
    /\ result[p] = "ok" =>
         line[conn[p]] = Message(p, calls[p]) /\ Recorded(conn[p], Message(p, calls[p]))
    /\ result[p] = "fail" => child[conn[p]] = "gone"

(* The lines a child writes for a process that has the connection for      *)
(* itself are its messages, whole, in the order of its calls, none twice,  *)
(* also when the process ends in the middle of one.                        *)
LinesWhole ==
  \A p \in Procs : Alone(p) =>
    \A d, e \in Days : \A i \in 1..Len(written[d]), j \in 1..Len(written[e]) :
      written[d][i].by = conn[p] /\ written[e][j].by = conn[p] =>
        \E m, n \in 1..calls[p] :
          /\ written[d][i].line = Message(p, m) /\ written[e][j].line = Message(p, n)
          /\ d < e \/ (d = e /\ i < j) => m < n

(* The file of a day has what was written to it, in that order, unless a   *)
(* line was written while another child was making the file.               *)
NothingLost == \A d \in Days : files[d] = written[d] \/ d \in raced

(* A call returns, also when the daemon is killed.                         *)
CallReturns ==
  \A p \in Procs : Alone(p) /\ piece[p] > 0 ~> piece[p] = 0 \/ result[p] = "dead"

(***************************************************************************)
(* What the documentation says and the code does not do.                   *)
(***************************************************************************)
(* errlog.doc.xml: the log records "the process ID of the task reporting   *)
(* the error, the task name, and a text string": every line is of one      *)
(* process and one call.                                                   *)
LogIsOfTasks ==
  \A d \in Days : \A i \in 1..Len(written[d]) :
    \E p \in Procs : \E n \in 1..calls[p] : written[d][i].line = Message(p, n)

-----------------------------------------------------------------------------
(***************************************************************************)
(* The inductive invariant behind AnswerIsOwn, LinesWhole and NothingLost. *)
(***************************************************************************)
(* A day's file is as written to, and a child makes it only while nothing  *)
(* is written yet.                                                         *)
FileInv ==
  \A d \in Days :
    /\ d \notin exists => files[d] = <<>> /\ written[d] = <<>>
    /\ d \notin raced =>
         /\ files[d] = written[d]
         /\ \A c \in Conns : child[c] \in {"make", "made"} /\ today[c] = d => written[d] = <<>>

(* What process p has sent of its message.                                 *)
Begun(p) == [i \in 1..End(piece[p]) |-> Unit(p, calls[p], PieceOf(i))]

(* What is on a connection that p has for itself.                          *)
Exchange(p) ==
  LET c == conn[p] IN
  /\ answers[c] \in {<<>>, <<"ok">>}
  /\ answers[c] # <<>> => piece[p] = Pieces /\ wire[c] = <<>>
  /\ wire[c] # <<>> => calls[p] > 0
  /\ child[c] # "gone" =>
       wire[c] = IF piece[p] = 0 \/ answers[c] # <<>> THEN <<>> ELSE Begun(p)

Reported(p) ==
  LET c == conn[p] IN
  /\ answers[c] # <<>> \/ (piece[p] = 0 /\ result[p] = "ok") =>
       line[c] = Message(p, calls[p]) /\ Recorded(c, Message(p, calls[p]))
  /\ piece[p] = 0 /\ result[p] = "fail" => child[c] = "gone"

(* The messages of p that its child may have read, and the call that an    *)
(* entry is of.                                                            *)
Taken(p) == IF wire[conn[p]] = <<>> THEN calls[p] ELSE calls[p] - 1
Number(entry) == entry.line[1].call

Logged(p) ==
  LET c == conn[p] IN
  /\ Busy(c) => Taken(p) > 0 /\ line[c] = Message(p, Taken(p))
  /\ \A d \in Days : \A i \in 1..Len(written[d]) :
       LET entry == written[d][i] IN
       entry.by = c =>
         /\ d <= today[c]
         /\ Number(entry) \in 1..Taken(p) /\ entry.line = Message(p, Number(entry))
         /\ Busy(c) => Number(entry) < Taken(p)
  /\ \A d, e \in Days : \A i \in 1..Len(written[d]), j \in 1..Len(written[e]) :
       /\ written[d][i].by = c /\ written[e][j].by = c
       /\ d < e \/ (d = e /\ i < j)
       => Number(written[d][i]) < Number(written[e][j])

ReportInv ==
  /\ TypeOK /\ FileInv
  /\ \A p \in Procs : piece[p] > 0 => calls[p] > 0
  /\ \A c \in Conns : today[c] <= day
  /\ \A p \in Procs : Alone(p) => Exchange(p) /\ Reported(p) /\ Logged(p)
===============================================================================
