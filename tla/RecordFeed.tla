------------------------------ MODULE RecordFeed ------------------------------
(***************************************************************************)
(* The task rtserver, from the control program to the process that serves  *)
(* the clients (rtserver.c, fork.c, and ConnexWriteIP of msg.c).  For each  *)
(* connection of a control program main forks a process, the parent, which *)
(* answers the program's requests and writes each record as a frame into a *)
(* pipe that does not block; its child, whose inside is FanOut, reads the  *)
(* pipe and serves the clients on a port that only one process can have.   *)
(*                                                                         *)
(* All these processes report to errlogd over one connection that main has *)
(* opened, by ErrLog, which waits for an answer (see the module ErrLog).   *)
(*                                                                         *)
(* A run is one life of a control program.  The parent and the child of a  *)
(* run that is over may still be there when the next run begins.  The      *)
(* records of all runs are numbered in the order they are made.            *)
(***************************************************************************)
EXTENDS Integers, Sequences

CONSTANTS
  MaxRuns,     \* bound: the lives of the control program
  MaxRecords,  \* bound: the records made
  MaxFaults,   \* bound: the calls of pipe, fcntl and fork that fail
  Lengths,     \* the sizes of a frame's body, in units of the header's
  PipeSize,    \* what the kernel holds for a pipe, in the same unit
  BufSize,     \* BUF_SIZE, what the child reads at a time
  Signals      \* TRUE: the child may be ended by SIGUSR1

ASSUME SizesAssumption ==
  /\ MaxRuns \in Nat /\ MaxRecords \in Nat /\ MaxFaults \in Nat
  /\ Lengths \subseteq Nat \ {0}
  /\ PipeSize \in Nat \ {0} /\ BufSize \in Nat \ {0}
  /\ Signals \in BOOLEAN

Runs == 1..MaxRuns

VARIABLES
  run,      \* the current run, or the last one
  prog,     \* the control program: down, between two requests, or waiting
  records,  \* the records made: their run, the size of their frame, and
            \* whether they are for this server
  up,       \* the request on the way to the parent of each run
  down,     \* its answer is on the way back
  parent,   \* where operate() is
  msg,      \* the kind of the last request that brought it data
  cur,      \* the last record it was given
  outpipe,  \* whether outpipe is the end of a pipe, and not -1
  written,  \* how much of the frame is written
  stream,   \* history: all that was written into the pipe
  taken,    \* how much of it the child has read
  child,    \* where the child is
  full,     \* history: a write has found no room
  faults

program == <<run, prog, records>>
parentVars == <<parent, msg, cur, outpipe, written, stream, full>>
childVars == <<child, taken>>
vars == <<program, up, down, parentVars, childVars, faults>>

Kinds == {"none", "other", "data", "cut"}
(* A request: of no consequence here, with a record, or broken off.        *)
Requests == [kind : Kinds, rec : 0..MaxRecords]
Nothing == [kind |-> "none", rec |-> 0]
Places == {"none", "fork", "recv", "look", "header", "body", "gone"}
ChildPlaces == {"none", "bind", "bound", "serve", "deaf", "gone"}
Made == [run : Runs, len : Lengths, wanted : BOOLEAN]

(* A unit of a frame: its record, its place, 0 for the header, and the     *)
(* size of the body that the header announces.                             *)
Unit(rec, at, len) == [rec |-> rec, at |-> at, len |-> len]

Init ==
  /\ run = 0 /\ prog = "down" /\ records = <<>>
  /\ up = [r \in Runs |-> Nothing] /\ down = [r \in Runs |-> FALSE]
  /\ parent = [r \in Runs |-> "none"] /\ msg = [r \in Runs |-> "none"]
  /\ cur = [r \in Runs |-> 0] /\ outpipe = [r \in Runs |-> FALSE]
  /\ written = [r \in Runs |-> 0] /\ stream = [r \in Runs |-> <<>>]
  /\ taken = [r \in Runs |-> 0] /\ child = [r \in Runs |-> "none"]
  /\ full = [r \in Runs |-> FALSE] /\ faults = 0

-----------------------------------------------------------------------------
(***************************************************************************)
(* The control program.                                                    *)
(***************************************************************************)
(* It starts and connects; main forks the parent.                          *)
Start ==
  /\ prog = "down"
  /\ run < MaxRuns
  /\ run' = run + 1
  /\ prog' = "idle"
  /\ parent' = [parent EXCEPT ![run + 1] = "fork"]
  /\ UNCHANGED <<records, up, down, msg, cur, outpipe, written, stream, full, childVars, faults>>

Ask(kind, rec) ==
  /\ prog = "idle"
  /\ prog' = "asked"
  /\ up' = [up EXCEPT ![run] = [kind |-> kind, rec |-> rec]]
  /\ UNCHANGED <<run, down, parentVars, childVars, faults>>

(* RMsgSndSend, with the record of an integration.                         *)
SendRecord ==
  /\ Len(records) < MaxRecords
  /\ \E len \in Lengths, wanted \in BOOLEAN :
       records' = Append(records, [run |-> run, len |-> len, wanted |-> wanted])
  /\ Ask("data", Len(records) + 1)

(* RMsgSndReset, RMsgSndOpen, RMsgSndClose.                                *)
SendOther == Ask("other", 0) /\ UNCHANGED records

(* The answer, which the program ignores.                                  *)
Answered ==
  /\ prog = "asked"
  /\ down[run]
  /\ down' = [down EXCEPT ![run] = FALSE]
  /\ prog' = "idle"
  /\ UNCHANGED <<run, records, up, parentVars, childVars, faults>>

(* The program is stopped, between two requests or after a part of one.    *)
Stop ==
  /\ prog # "down"
  /\ prog' = "down"
  /\ down' = [down EXCEPT ![run] = FALSE]
  /\ \/ UNCHANGED up
     \/ prog = "idle" /\ up' = [up EXCEPT ![run] = [kind |-> "cut", rec |-> 0]]
  /\ UNCHANGED <<run, records, parentVars, childVars, faults>>

-----------------------------------------------------------------------------
(***************************************************************************)
(* operate(): the parent of run r.                                         *)
(***************************************************************************)
Over(r) == r < run \/ prog = "down"

Fails == faults < MaxFaults /\ faults' = faults + 1

(* forkinet: pipe and fcntl may fail, and then outpipe is -1; when fork    *)
(* fails outpipe is a pipe that nobody reads.                              *)
ForkInet(r, place) ==
  /\ parent' = [parent EXCEPT ![r] = place]
  /\ \/ outpipe' = [outpipe EXCEPT ![r] = FALSE] /\ UNCHANGED child /\ Fails
     \/ /\ outpipe' = [outpipe EXCEPT ![r] = TRUE]
        /\ \/ child' = [child EXCEPT ![r] = "gone"] /\ Fails
           \/ child' = [child EXCEPT ![r] = "bind"] /\ UNCHANGED faults
  /\ UNCHANGED <<program, up, down, msg, cur, written, stream, full, taken>>

Fork(r) == parent[r] = "fork" /\ ForkInet(r, "recv")

Goto(r, place) ==
  /\ parent' = [parent EXCEPT ![r] = place]
  /\ UNCHANGED <<program, up, down, msg, cur, outpipe, childVars, faults>>

(* The next request is reported (ErrLog), and answered before anything is  *)
(* made of its data.                                                       *)
Receive(r) ==
  /\ parent[r] = "recv"
  /\ up[r] # Nothing
  /\ up' = [up EXCEPT ![r] = Nothing]
  /\ down' = [down EXCEPT ![r] = ~Over(r)]
  /\ msg' = [msg EXCEPT ![r] = IF up[r].kind = "other" THEN @ ELSE up[r].kind]
  /\ cur' = [cur EXCEPT ![r] = IF up[r].kind = "data" THEN up[r].rec ELSE @]
  /\ parent' = [parent EXCEPT ![r] = IF up[r].kind = "other" THEN "recv" ELSE "look"]
  /\ UNCHANGED <<program, outpipe, written, stream, full, childVars, faults>>

(* No record, or one of another channel.                                   *)
PassOver(r) ==
  /\ parent[r] = "look"
  /\ msg[r] = "data" => ~records[cur[r]].wanted
  /\ Goto(r, "recv")
  /\ UNCHANGED <<written, stream, full>>

(* A message that broke off may leave pointers into the memory of the last *)
(* one, which was freed: it is taken for a record, or ends the parent.     *)
Dangling(r) == msg[r] = "cut" /\ cur[r] # 0

Crash(r) ==
  /\ parent[r] = "look"
  /\ Dangling(r)
  /\ Goto(r, "gone")
  /\ UNCHANGED <<written, stream, full>>

HasFrame(r) == Dangling(r) \/ (msg[r] = "data" /\ records[cur[r]].wanted)

(* The record is made a frame.  If there is no pipe this is reported first *)
(* ("Child process died - Restarting.") and a new child is forked; with no *)
(* pipe after all the record is passed over.                               *)
Look(r) ==
  /\ parent[r] = "look"
  /\ HasFrame(r)
  /\ IF outpipe[r] THEN Goto(r, "header") /\ UNCHANGED <<written, stream, full>>
     ELSE ForkInet(r, "header")

NoPipe(r) ==
  /\ parent[r] = "header"
  /\ ~outpipe[r]
  /\ Goto(r, "recv")
  /\ UNCHANGED <<written, stream, full>>

Room(r) == PipeSize - (Len(stream[r]) - taken[r])

(* ConnexWriteIP: a write fails when nobody has the pipe open for reading. *)
Unread(r) ==
  /\ parent[r] \in {"header", "body"}
  /\ outpipe[r]
  /\ child[r] = "gone"
  /\ written' = [written EXCEPT ![r] = 0]
  /\ Goto(r, "recv")
  /\ UNCHANGED <<stream, full>>

(* The frame's record: 0 for what the freed memory holds.                  *)
Subject(r) == IF msg[r] = "cut" THEN 0 ELSE cur[r]
Sizes(r) == IF msg[r] = "cut" THEN Lengths ELSE {records[cur[r]].len}

(* Mutant: cnt is not reset before the body.                               *)
Header_notReset(r) ==
  /\ parent[r] = "header" /\ outpipe[r] /\ child[r] # "gone"
  /\ Room(r) > 0
  /\ \E len \in Sizes(r) :
       /\ stream' = [stream EXCEPT ![r] = Append(@, Unit(Subject(r), 0, len))]
       /\ written' = [written EXCEPT ![r] = 1]
  /\ Goto(r, "body")
  /\ UNCHANGED full

(* The header goes in whole or not at all.  If it does not the frame is    *)
(* given up.                                                               *)
Header(r) ==
  /\ parent[r] = "header"
  /\ outpipe[r]
  /\ child[r] # "gone"
  /\ IF Room(r) = 0
     THEN /\ full' = [full EXCEPT ![r] = TRUE]
          /\ Goto(r, "recv")
          /\ UNCHANGED <<written, stream>>
     ELSE /\ \E len \in Sizes(r) :
               stream' = [stream EXCEPT ![r] = Append(@, Unit(Subject(r), 0, len))]
          /\ Goto(r, "body")
          /\ UNCHANGED <<written, full>>

(* Mutant: the last unit is left out.                                      *)
Part_short(unit, i, j) == [k \in 1..(j - i - 1) |-> Unit(unit.rec, i + k, unit.len)]

(* The units of the frame from its place i+1 to its place j.               *)
Part(unit, i, j) == [k \in 1..(j - i) |-> Unit(unit.rec, i + k, unit.len)]

(* Mutant: the pipe blocks.                                                *)
Takes_blocks(r, size) == IF size <= Room(r) THEN {size} ELSE 1..Room(r)

(* What a write of so many units puts into the pipe.                       *)
Takes(r, size) == IF size <= Room(r) THEN {size} ELSE 0..Room(r)

(* The body goes in as far as there is room; if there is none the rest is  *)
(* given up, and the next frame follows what is there.  The count starts   *)
(* from 0 with each frame.                                                 *)
Body(r) ==
  LET last == stream[r][Len(stream[r])]
      rest == last.len - written[r]
  IN
  /\ parent[r] = "body"
  /\ child[r] # "gone"
  /\ \E n \in Takes(r, rest) :
       /\ stream' = [stream EXCEPT ![r] = @ \o Part(last, written[r], written[r] + n)]
       /\ written' = [written EXCEPT ![r] = IF n \in {0, rest} THEN 0 ELSE @ + n]
       /\ full' = [full EXCEPT ![r] = @ \/ n < rest]
       /\ Goto(r, IF n = rest \/ n = 0 THEN "recv" ELSE "body")

(* The end of the connection: the parent exits, and its end of the pipe is *)
(* closed.                                                                 *)
Finish(r) ==
  /\ parent[r] = "recv"
  /\ up[r] = Nothing
  /\ Over(r)
  /\ Goto(r, "gone")
  /\ UNCHANGED <<written, stream, full>>

(* It is in a call of ErrLog when it has got a request, and when it finds  *)
(* that it has no pipe.                                                    *)
Reports(r) ==
  \/ parent[r] = "recv" /\ up[r] # Nothing
  \/ parent[r] = "look" /\ HasFrame(r) /\ ~outpipe[r]

-----------------------------------------------------------------------------
(***************************************************************************)
(* The child of run r.                                                     *)
(***************************************************************************)
ChildMoves(r, place) ==
  /\ child' = [child EXCEPT ![r] = place]
  /\ UNCHANGED <<program, up, down, parentVars, faults>>

(* It ends, and what is left in the pipe is dropped.                       *)
ChildEnds(r) == ChildMoves(r, "gone") /\ taken' = [taken EXCEPT ![r] = Len(stream[r])]

(* createsocket: there is one port for the clients of all runs, which      *)
(* cannot be bound while somebody listens on it.  Without it the child     *)
(* ends.                                                                   *)
Served == \E q \in Runs : child[q] = "serve"

Bind(r) ==
  /\ child[r] = "bind"
  /\ IF Served THEN ChildEnds(r) ELSE ChildMoves(r, "bound") /\ UNCHANGED taken

(* procsocket does not look at the result of listen, which fails for the   *)
(* second of two that are bound: it reads the pipe, and has no clients.    *)
Listen(r) ==
  /\ child[r] = "bound"
  /\ ChildMoves(r, IF Served THEN "deaf" ELSE "serve") /\ UNCHANGED taken

InLoop(r) == child[r] \in {"serve", "deaf"}

(* It reads what there is, up to the size of its buffer, and leaves its    *)
(* loop when the pipe is empty and closed, or on SIGUSR1.                  *)
Read(r) ==
  /\ InLoop(r)
  /\ taken[r] < Len(stream[r])
  /\ LET more == Len(stream[r]) - taken[r]
     IN  taken' = [taken EXCEPT ![r] = @ + (IF more < BufSize THEN more ELSE BufSize)]
  /\ ChildMoves(r, child[r])

(* Mutant: the child keeps its copy of the pipe's other end open.          *)
EndOfPipe_ownEnd(r) ==
  /\ InLoop(r)
  /\ taken[r] = Len(stream[r])
  /\ parent[r] = "gone"
  /\ UNCHANGED vars

EndOfPipe(r) ==
  /\ InLoop(r)
  /\ taken[r] = Len(stream[r])
  /\ parent[r] = "gone"
  /\ ChildEnds(r)

TrapReset(r) ==
  /\ Signals
  /\ InLoop(r)
  /\ ChildEnds(r)

-----------------------------------------------------------------------------

-----------------------------------------------------------------------------
Program == Start \/ SendRecord \/ SendOther \/ Answered \/ Stop

Parent(r) ==
  \/ Fork(r) \/ Receive(r) \/ PassOver(r) \/ Crash(r) \/ Look(r) \/ NoPipe(r)
  \/ Unread(r) \/ Header(r) \/ Body(r) \/ Finish(r)

Child(r) == Bind(r) \/ Listen(r) \/ Read(r) \/ EndOfPipe(r)

Next == Program \/ \E r \in Runs : Parent(r) \/ Child(r) \/ TrapReset(r)

Spec == Init /\ [][Next]_vars

(* The parents run while they are not in a call of ErrLog, and the program *)
(* takes an answer that is there.  Nothing is assumed of the children.     *)
FairSpec == Spec /\ WF_vars(Answered) /\ \A r \in Runs : WF_vars(Parent(r) /\ ~Reports(r))

(* Premises.  No call of ErrLog is for ever: CallReturns of ErrLog, which  *)
(* is not given when two processes call over one connection at once, as    *)
(* the parent and its child may.  The children run.                        *)
CallsReturn == \A r \in Runs : []<>~Reports(r)
ChildrenRun == \A r \in Runs : WF_vars(Child(r))

-----------------------------------------------------------------------------
Units == [rec : 0..MaxRecords, at : Nat, len : Lengths]

TypeOK ==
  /\ run \in 0..MaxRuns /\ prog \in {"down", "idle", "asked"}
  /\ records \in Seq(Made) /\ Len(records) <= MaxRecords
  /\ up \in [Runs -> Requests] /\ down \in [Runs -> BOOLEAN]
  /\ parent \in [Runs -> Places] /\ msg \in [Runs -> Kinds]
  /\ cur \in [Runs -> 0..MaxRecords] /\ outpipe \in [Runs -> BOOLEAN]
  /\ written \in [Runs -> Nat] /\ stream \in [Runs -> Seq(Units)]
  /\ taken \in [Runs -> Nat] /\ child \in [Runs -> ChildPlaces]
  /\ full \in [Runs -> BOOLEAN] /\ faults \in 0..MaxFaults
  /\ \A r \in Runs : Len(stream[r]) - taken[r] \in 0..PipeSize

(* The pipe carries frames, each from its header on and without a gap, in  *)
(* the order of the records and none twice, however short the writes are   *)
(* and wherever they are given up: a frame that was given up lacks its     *)
(* tail only.  What is made of freed memory comes last, after the run.     *)
Follows(a, b) ==
  \/ b.at = 0 /\ (b.rec = 0 \/ (a.rec # 0 /\ a.rec < b.rec))
  \/ b = Unit(a.rec, a.at + 1, a.len)

Framed(r) ==
  \A i \in 1..Len(stream[r]) :
    LET unit == stream[r][i]
    IN  /\ IF i = 1 THEN unit.at = 0 ELSE Follows(stream[r][i - 1], unit)
        /\ unit.at <= unit.len
        /\ IF unit.rec = 0 THEN Over(r)
           ELSE unit.len = records[unit.rec].len /\ records[unit.rec].run = r

FramesInOrder == \A r \in Runs : Framed(r)

(* A record the parent has done with is whole in the pipe if a child reads *)
(* it and no write has found the pipe full.                                *)
Done(r, m) ==
  m <= cur[r] /\ (m = cur[r] => msg[r] # "data" \/ parent[r] \in {"recv", "gone"})

Kept(r) ==
  ~full[r] /\ faults = 0 /\ child[r] # "gone" =>
    \A m \in 1..Len(records) :
      records[m].run = r /\ records[m].wanted /\ Done(r, m) =>
        \E i \in 1..Len(stream[r]) : stream[r][i] = Unit(m, records[m].len, records[m].len)

NothingLost == \A r \in Runs : Kept(r)

(* The control program is answered whatever becomes of the child and its   *)
(* clients, though nothing is assumed to be read from the pipe: only a     *)
(* call of ErrLog can hold it up.                                          *)
ProgramAnswered == CallsReturn => (prog = "asked" ~> prog # "asked")

(* When a run is over its child reads what is left in the pipe and ends,   *)
(* and the clients' port is free again, with the same exception.           *)
ServerEnds ==
  CallsReturn /\ ChildrenRun =>
    \A r \in Runs : (child[r] # "none" /\ Over(r)) ~> child[r] = "gone"

(***************************************************************************)
(* What the code says and does not do.                                     *)
(***************************************************************************)
(* rtserver.c: "Child process died - Restarting.": a child that has died   *)
(* is replaced before the next record is written.                          *)
ChildRestarted ==
  [][ \A r \in Runs :
        parent[r] # "header" /\ parent'[r] = "header" => child'[r] # "gone" ]_vars

-----------------------------------------------------------------------------
(***************************************************************************)
(* The inductive invariant behind FramesInOrder and NothingLost.           *)
(***************************************************************************)
(* A request and its answer are on the way one at a time, a broken-off one *)
(* is the last, and every record of a run has reached its parent or is on  *)
(* the way to it.                                                          *)
Requested(r) ==
  /\ r > run => parent[r] = "none" /\ up[r] = Nothing /\ ~down[r]
  /\ parent[r] \in {"none", "fork"} => stream[r] = <<>> /\ cur[r] = 0 /\ msg[r] = "none"
  /\ down[r] => up[r] = Nothing
  /\ up[r].kind \in {"none", "other", "cut"} => up[r].rec = 0
  /\ up[r].kind = "data" => /\ up[r].rec \in (cur[r] + 1)..Len(records)
                            /\ records[up[r].rec].run = r
  /\ up[r].kind = "cut" => Over(r)
  /\ \A m \in 1..Len(records) : records[m].run = r => m <= cur[r] \/ m = up[r].rec

RequestInv ==
  /\ prog # "down" => run \in Runs
  /\ prog = "idle" => up[run] = Nothing /\ ~down[run]
  /\ \A m \in 1..Len(records) : records[m].run <= run
  /\ \A r \in Runs : Requested(r)

(* What the parent works on.                                               *)
Working(r) ==
  /\ cur[r] <= Len(records)
  /\ cur[r] # 0 => records[cur[r]].run = r
  /\ msg[r] = "data" => cur[r] # 0
  /\ msg[r] = "cut" => Over(r) /\ up[r] = Nothing
  /\ parent[r] = "look" => msg[r] \in {"data", "cut"}
  /\ parent[r] \in {"header", "body"} => HasFrame(r)
  /\ parent[r] # "body" => written[r] = 0

(* Where the stream ends.                                                  *)
Streamed(r) ==
  /\ \A i \in 1..Len(stream[r]) :
       /\ stream[r][i].rec <= cur[r]
       /\ stream[r][i].rec = 0 => msg[r] = "cut"
       /\ msg[r] = "data" /\ parent[r] \in {"look", "header"} => stream[r][i].rec < cur[r]
  /\ parent[r] = "body" =>
       /\ stream[r] # <<>>
       /\ \E len \in Sizes(r) :
            stream[r][Len(stream[r])] = Unit(Subject(r), written[r], len) /\ written[r] < len

(* Until something fails the parent has a pipe.                            *)
Piped(r) == faults = 0 /\ parent[r] \notin {"none", "fork"} => outpipe[r]

FeedInv ==
  /\ TypeOK /\ RequestInv
  /\ \A r \in Runs : Working(r) /\ Streamed(r) /\ Piped(r) /\ Framed(r) /\ Kept(r)
=============================================================================
