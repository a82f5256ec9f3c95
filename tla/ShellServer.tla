----------------------------- MODULE ShellServer -----------------------------
(***************************************************************************)
(* shellserver, which relays operating parameters between a control        *)
(* program and the users' radarshells, together with the two ends it talks *)
(* to: RadarShell() of the control programs (rshell library) and the main  *)
(* program of radarshell.                                                  *)
(*                                                                         *)
(* Every connection has a child process of its own.  The children share    *)
(* one struct membuf without any lock: cpstate (0 no control program, 1    *)
(* nothing new from it, 2 parameters stored), rsstate (0 idle, 1 a shell   *)
(* wants the parameters, 2 a shell has left some) and the buffer.          *)
(*                                                                         *)
(* All the control programs register the same table of variables, so num,  *)
(* size and offset never change and are left out; what the buffer holds is *)
(* cut into Parts, the pieces in which send and recv move it.              *)
(***************************************************************************)
EXTENDS Integers, Sequences

CONSTANTS Programs,   \* connections of control programs
          Shells,     \* connections of radarshells
          Parts,      \* pieces the parameters are copied in
          MaxVersion, \* bound: how often the control programs change them
          Prompt      \* TRUE: the children, which look every 50 ms, have done what they can
                      \* before a user types, or a control program ends an integration

ASSUME EndsAssumption == Programs \cap Shells = {}
ASSUME BoundsAssumption ==
  Parts \in Nat \ {0} /\ MaxVersion \in Nat /\ Prompt \in BOOLEAN

Ends == Programs \cup Shells
Version == 0..MaxVersion
Parameters == [1..Parts -> Version]

VARIABLES
  cpstate, rsstate, buffer, \* struct membuf
  child, \* where the child of a connection is
  part,  \* the piece it is copying
  client, \* where the program at the other end is
  up, down, \* what is on the way to the child, and from it
  params, \* the variables of a control program
  held,   \* the variables a shell was given
  version \* the last version of the parameters

memory == <<cpstate, rsstate, buffer>>
server == <<cpstate, rsstate, buffer, child, part>>
vars == <<cpstate, rsstate, buffer, child, part, client, up, down, params, held, version>>

Labels == {"none", "start", "recv", "take", "took", "give", "gave", "wait", "await", "end"}

Kinds == {"poll", "send", "reply", "ignore", "ok", "error", "part"}
Message == [kind : Kinds, value : Version]
Msg(kind) == [kind |-> kind, value |-> 0]
InPieces(p) == [i \in 1..Parts |-> [kind |-> "part", value |-> p[i]]]

Default == [i \in 1..Parts |-> 0]

Init ==
  /\ cpstate = 0 /\ rsstate = 0 /\ buffer = Default
  /\ child = [e \in Ends |-> "none"]
  /\ part = [e \in Ends |-> 1]
  /\ client = [e \in Ends |-> "away"]
  /\ up = [e \in Ends |-> <<>>] /\ down = [e \in Ends |-> <<>>]
  /\ params = [c \in Programs |-> Default]
  /\ held = [s \in Shells |-> Default]
  /\ version = 0

Go(e, label) == child' = [child EXCEPT ![e] = label]
GoCopy(e, label) == Go(e, label) /\ part' = [part EXCEPT ![e] = 1]

(* A send to a client that has gone is lost. *)
Sends(e, msgs) ==
  down' = IF client[e] = "left" THEN down ELSE [down EXCEPT ![e] = @ \o msgs]

Comes(e, kind) == up[e] # <<>> /\ Head(up[e]).kind = kind
Received(e) == up' = [up EXCEPT ![e] = Tail(@)]

Answered(e, kind) == client[e] = "asked" /\ down[e] # <<>> /\ Head(down[e]).kind = kind

(* What follows the answer, once all of it has come. *)
Body(e) == [i \in 1..Parts |-> down[e][i + 1].value]

(***************************************************************************)
(* Faulty variants of some of the definitions below, as a slip in the code *)
(* would make them: no specification uses them, they show that the         *)
(* properties can fail.                                                    *)
(***************************************************************************)
Take_samePiece(e) ==
  /\ child[e] = "take"
  /\ Comes(e, "part")
  /\ buffer' = [buffer EXCEPT ![1] = Head(up[e]).value]
  /\ Received(e)
  /\ IF part[e] = Parts THEN Go(e, "took") /\ UNCHANGED part
                        ELSE part' = [part EXCEPT ![e] = @ + 1] /\ UNCHANGED child
  /\ UNCHANGED <<cpstate, rsstate, client, down, params, held, version>>

(* rsstate read anew by each of the three tests: none of them may hold. *)
AnswerPoll_threeLoads(c) ==
  /\ child[c] = "recv"
  /\ Comes(c, "poll")
  /\ Received(c)
  /\ \/ rsstate = 0 /\ Sends(c, <<Msg("ignore")>>) /\ UNCHANGED <<child, part>>
     \/ rsstate = 1 /\ Sends(c, <<Msg("send")>>) /\ GoCopy(c, "take")
     \/ rsstate = 2 /\ Sends(c, <<Msg("reply")>>) /\ GoCopy(c, "give")
     \/ rsstate # 0 /\ UNCHANGED <<down, child, part>>
  /\ UNCHANGED <<memory, client, params, held, version>>

EndProgram_noReset(c) ==
  /\ child[c] = "end"
  /\ Go(c, "none")
  /\ UNCHANGED <<memory, part, client, up, down, params, held, version>>

Wait_noError(s) ==
  /\ child[s] = "wait"
  /\ cpstate = 2
  /\ Sends(s, <<Msg("ok")>>)
  /\ GoCopy(s, "give")
  /\ UNCHANGED <<memory, client, up, params, held, version>>

Await_atOnce(s) ==
  /\ child[s] = "await"
  /\ Go(s, "end")
  /\ UNCHANGED <<memory, part, client, up, down, params, held, version>>

EndShell_noReset(s) ==
  /\ child[s] = "end"
  /\ Go(s, "none")
  /\ UNCHANGED <<memory, part, client, up, down, params, held, version>>

Apply_unread(c) ==
  /\ Answered(c, "reply")
  /\ Len(down[c]) > Parts
  /\ client' = [client EXCEPT ![c] = "busy"]
  /\ down' = [down EXCEPT ![c] = Tail(@)]
  /\ UNCHANGED <<server, up, params, held, version>>

(***************************************************************************)
(* What the children of both kinds do.                                     *)
(***************************************************************************)
(* A piece is received into the shared buffer. *)
Take(e) ==
  /\ child[e] = "take"
  /\ Comes(e, "part")
  /\ buffer' = [buffer EXCEPT ![part[e]] = Head(up[e]).value]
  /\ Received(e)
  /\ IF part[e] = Parts THEN Go(e, "took") /\ UNCHANGED part
                        ELSE part' = [part EXCEPT ![e] = @ + 1] /\ UNCHANGED child
  /\ UNCHANGED <<cpstate, rsstate, client, down, params, held, version>>

(* A piece is sent from it. *)
Give(e) ==
  /\ child[e] = "give"
  /\ Sends(e, <<[kind |-> "part", value |-> buffer[part[e]]]>>)
  /\ IF part[e] = Parts THEN Go(e, "gave") /\ UNCHANGED part
                        ELSE part' = [part EXCEPT ![e] = @ + 1] /\ UNCHANGED child
  /\ UNCHANGED <<memory, client, up, params, held, version>>

(* The client has closed the connection: a read fails after what was sent  *)
(* has been read, or at once if the client did not read everything.        *)
Break(e) ==
  /\ client[e] = "left"
  /\ \/ child[e] \in {"recv", "take"} /\ (up[e] = <<>> \/ down[e] # <<>>)
     \/ child[e] = "give"
  /\ Go(e, "end")
  /\ UNCHANGED <<memory, part, client, up, down, params, held, version>>

(***************************************************************************)
(* operateCP.  The three tests of rsstate are one load in the build (-O3). *)
(***************************************************************************)
StartProgram(c) ==
  /\ child[c] = "start"
  /\ cpstate' = 1
  /\ Go(c, "recv")
  /\ UNCHANGED <<rsstate, buffer, part, client, up, down, params, held, version>>

AnswerPoll(c) ==
  /\ child[c] = "recv"
  /\ Comes(c, "poll")
  /\ Received(c)
  /\ \/ rsstate = 0 /\ Sends(c, <<Msg("ignore")>>) /\ UNCHANGED <<child, part>>
     \/ rsstate = 1 /\ Sends(c, <<Msg("send")>>) /\ GoCopy(c, "take")
     \/ rsstate = 2 /\ Sends(c, <<Msg("reply")>>) /\ GoCopy(c, "give")
  /\ UNCHANGED <<memory, client, params, held, version>>

Stored(c) ==
  /\ child[c] = "took"
  /\ cpstate' = 2
  /\ Go(c, "recv")
  /\ UNCHANGED <<rsstate, buffer, part, client, up, down, params, held, version>>

Replied(c) ==
  /\ child[c] = "gave"
  /\ cpstate' = 1
  /\ Go(c, "recv")
  /\ UNCHANGED <<rsstate, buffer, part, client, up, down, params, held, version>>

EndProgram(c) ==
  /\ child[c] = "end"
  /\ cpstate' = 0
  /\ Go(c, "none")
  /\ UNCHANGED <<rsstate, buffer, part, client, up, down, params, held, version>>

(***************************************************************************)
(* operateRS.  A loop that waits for cpstate loads it once a turn.         *)
(***************************************************************************)
StartShell(s) ==
  /\ child[s] = "start"
  /\ rsstate' = 0
  /\ Go(s, "recv")
  /\ UNCHANGED <<cpstate, buffer, part, client, up, down, params, held, version>>

AskedToSend(s) ==
  /\ child[s] = "recv"
  /\ Comes(s, "send")
  /\ Received(s)
  /\ rsstate' = 1
  /\ Go(s, "wait")
  /\ UNCHANGED <<cpstate, buffer, part, client, down, params, held, version>>

Wait(s) ==
  /\ child[s] = "wait"
  /\ \/ cpstate = 2 /\ Sends(s, <<Msg("ok")>>) /\ GoCopy(s, "give")
     \/ cpstate = 0 /\ Sends(s, <<Msg("error")>>) /\ Go(s, "end") /\ UNCHANGED part
  /\ UNCHANGED <<memory, client, up, params, held, version>>

Sent(s) ==
  /\ child[s] = "gave"
  /\ rsstate' = 0
  /\ Go(s, "recv")
  /\ UNCHANGED <<cpstate, buffer, part, client, up, down, params, held, version>>

(* Without a control program the shell is sent the error, and the "ok" too. *)
AskedToReply(s) ==
  /\ child[s] = "recv"
  /\ Comes(s, "reply")
  /\ Received(s)
  /\ Sends(s, IF cpstate = 0 THEN <<Msg("error"), Msg("ok")>> ELSE <<Msg("ok")>>)
  /\ GoCopy(s, "take")
  /\ UNCHANGED <<memory, client, params, held, version>>

Left(s) ==
  /\ child[s] = "took"
  /\ rsstate' = 2
  /\ Go(s, "await")
  /\ UNCHANGED <<cpstate, buffer, part, client, up, down, params, held, version>>

Await(s) ==
  /\ child[s] = "await"
  /\ cpstate \in {0, 1}
  /\ Go(s, "end")
  /\ UNCHANGED <<memory, part, client, up, down, params, held, version>>

EndShell(s) ==
  /\ child[s] = "end"
  /\ rsstate' = 0
  /\ Go(s, "none")
  /\ UNCHANGED <<cpstate, buffer, part, client, up, down, params, held, version>>

(***************************************************************************)
(* The programs at the other ends.                                         *)
(***************************************************************************)
(* No child has anything to do but to wait for somebody, and every answer  *)
(* has been read.                                                          *)
Settled ==
  \A e \in Ends :
    /\ \/ child[e] = "none"
       \/ child[e] = "recv" /\ up[e] = <<>>
       \/ child[e] = "wait" /\ cpstate = 1
       \/ child[e] = "await" /\ cpstate = 2
    /\ client[e] \in {"asked", "going"} => down[e] = <<>>

Connect(e) ==
  /\ Prompt => Settled
  /\ child[e] = "none" /\ client[e] \in {"away", "left"}
  /\ Go(e, "start")
  /\ UNCHANGED <<memory, part, version>>

ConnectProgram(c) ==
  /\ Connect(c)
  /\ client' = [client EXCEPT ![c] = "busy"]
  /\ up' = [up EXCEPT ![c] = <<>>] /\ down' = [down EXCEPT ![c] = <<>>]
  /\ params' = [params EXCEPT ![c] = Default]
  /\ UNCHANGED held

(* An integration, which may change the variables of the control program,  *)
(* and RadarShell(), called after it.                                      *)
Poll(c) ==
  /\ client[c] = "busy"
  /\ Prompt => Settled
  /\ \E v \in { x \in {version, version + 1} : x <= MaxVersion } :
       /\ version' = v
       /\ params' = [params EXCEPT ![c] = IF v = version THEN @ ELSE [i \in 1..Parts |-> v]]
  /\ client' = [client EXCEPT ![c] = "asked"]
  /\ up' = [up EXCEPT ![c] = Append(@, Msg("poll"))]
  /\ UNCHANGED <<server, down, held>>

Ignored(c) ==
  /\ Answered(c, "ignore")
  /\ client' = [client EXCEPT ![c] = "busy"]
  /\ down' = [down EXCEPT ![c] = Tail(@)]
  /\ UNCHANGED <<server, up, params, held, version>>

SendParams(c) ==
  /\ Answered(c, "send")
  /\ client' = [client EXCEPT ![c] = "busy"]
  /\ down' = [down EXCEPT ![c] = Tail(@)]
  /\ up' = [up EXCEPT ![c] = @ \o InPieces(params[c])]
  /\ UNCHANGED <<server, params, held, version>>

Apply(c) ==
  /\ Answered(c, "reply")
  /\ Len(down[c]) > Parts
  /\ client' = [client EXCEPT ![c] = "busy"]
  /\ down' = [down EXCEPT ![c] = SubSeq(@, Parts + 2, Len(@))]
  /\ params' = [params EXCEPT ![c] = Body(c)]
  /\ UNCHANGED <<server, up, held, version>>

ConnectShell(s) ==
  /\ Connect(s)
  /\ client' = [client EXCEPT ![s] = "asked"]
  /\ up' = [up EXCEPT ![s] = <<Msg("send")>>] /\ down' = [down EXCEPT ![s] = <<>>]
  /\ UNCHANGED <<params, held>>

Download(s) ==
  /\ Answered(s, "ok")
  /\ Len(down[s]) > Parts
  /\ client' = [client EXCEPT ![s] = "open"]
  /\ down' = [down EXCEPT ![s] = SubSeq(@, Parts + 2, Len(@))]
  /\ held' = [held EXCEPT ![s] = Body(s)]
  /\ UNCHANGED <<server, up, params, version>>

NoParameters(s) ==
  /\ Answered(s, "error")
  /\ client' = [client EXCEPT ![s] = "left"]
  /\ UNCHANGED <<server, up, down, params, held, version>>

(* The user types "go". *)
Reply(s) ==
  /\ client[s] = "open"
  /\ Prompt => Settled
  /\ client' = [client EXCEPT ![s] = "going"]
  /\ up' = [up EXCEPT ![s] = Append(@, Msg("reply"))]
  /\ UNCHANGED <<server, down, params, held, version>>

(* "Parameters succesfully uploaded", or "Cannot upload parameters". *)
Upload(s) ==
  /\ client[s] = "going" /\ down[s] # <<>>
  /\ client' = [client EXCEPT ![s] = "left"]
  /\ down' = [down EXCEPT ![s] = Tail(@)]
  /\ IF Head(down[s]).kind = "ok"
     THEN up' = [up EXCEPT ![s] = @ \o InPieces(held[s])]
     ELSE UNCHANGED up
  /\ UNCHANGED <<server, params, held, version>>

(* A program ends: the scheduler stops a control program, a user types     *)
(* "exit" or interrupts the shell.  It may have sent a part of its answer. *)
Outgoing(e) ==
  CASE e \in Programs /\ Answered(e, "send") -> InPieces(params[e])
    [] e \in Shells /\ client[e] = "going" /\ down[e] # <<>> /\ Head(down[e]).kind = "ok" ->
         InPieces(held[e])
    [] OTHER -> <<>>

Leave(e) ==
  /\ client[e] \notin {"away", "left"}
  /\ client' = [client EXCEPT ![e] = "left"]
  /\ \E n \in 0..Len(Outgoing(e)) :
       /\ up' = [up EXCEPT ![e] = @ \o SubSeq(Outgoing(e), 1, n)]
       /\ down' = [down EXCEPT ![e] = IF n > 0 THEN Tail(@) ELSE @]
  /\ UNCHANGED <<server, params, held, version>>

ProgramChild(c) ==
  \/ StartProgram(c) \/ AnswerPoll(c) \/ Take(c) \/ Stored(c) \/ Give(c) \/ Replied(c)
  \/ Break(c) \/ EndProgram(c)

ShellChild(s) ==
  \/ StartShell(s) \/ AskedToSend(s) \/ Wait(s) \/ Give(s) \/ Sent(s) \/ AskedToReply(s)
  \/ Take(s) \/ Left(s) \/ Await(s) \/ Break(s) \/ EndShell(s)

(* The rest of RadarShell(), once it has sent its poll. *)
Responds(c) == Ignored(c) \/ SendParams(c) \/ Apply(c)
Program(c) == Poll(c) \/ Responds(c)
Shell(s) == Download(s) \/ NoParameters(s) \/ Upload(s)

Next ==
  \/ \E c \in Programs :
       ProgramChild(c) \/ Program(c) \/ ConnectProgram(c) \/ Leave(c)
  \/ \E s \in Shells : ShellChild(s) \/ Shell(s) \/ ConnectShell(s) \/ Reply(s) \/ Leave(s)

Spec == Init /\ [][Next]_vars

(* Every child runs, and a control program and a shell that were answered  *)
(* go on.  Nobody has to connect, to leave, to change anything, to type    *)
(* "go", or to poll: there are control programs that never do.             *)
FairSpec ==
  /\ Spec
  /\ \A c \in Programs : WF_vars(ProgramChild(c)) /\ WF_vars(Responds(c))
  /\ \A s \in Shells : WF_vars(ShellChild(s)) /\ WF_vars(Shell(s))

(***************************************************************************)
(* What the server promises.                                               *)
(***************************************************************************)
TypeOK ==
  /\ cpstate \in 0..2 /\ rsstate \in 0..2 /\ buffer \in Parameters
  /\ child \in [Ends -> Labels]
  /\ part \in [Ends -> 1..Parts]
  /\ client \in [Ends -> {"away", "busy", "asked", "open", "going", "left"}]
  /\ up \in [Ends -> Seq(Message)] /\ down \in [Ends -> Seq(Message)]
  /\ params \in [Programs -> Parameters] /\ held \in [Shells -> Parameters]
  /\ version \in Version

(* Both ends of every connection agree on what comes next, whatever the    *)
(* other connections do to the shared memory: nobody takes a piece of the  *)
(* parameters for a request or an answer, and no piece is left behind.     *)
InStep ==
  /\ \A c \in Programs :
       /\ child[c] = "recv" /\ up[c] # <<>> => Head(up[c]).kind = "poll"
       /\ client[c] = "busy" => down[c] = <<>>
       /\ client[c] = "asked" /\ down[c] # <<>> => Head(down[c]).kind \in {"ignore", "send", "reply"}
  /\ \A s \in Shells :
       /\ child[s] = "recv" /\ up[s] # <<>> => Head(up[s]).kind \in {"send", "reply"}
       /\ client[s] = "open" => down[s] = <<>>
       /\ client[s] \in {"asked", "going"} /\ down[s] # <<>> => Head(down[s]).kind \in {"ok", "error"}
  /\ \A e \in Ends : child[e] = "take" /\ up[e] # <<>> => Head(up[e]).kind = "part"

(* When the last control program, or the last shell, is gone its state is  *)
(* that of a server just started, in whatever order its children wrote it. *)
StateReset ==
  /\ (\A c \in Programs : child[c] = "none") => cpstate = 0
  /\ (\A s \in Shells : child[s] = "none") => rsstate = 0

(* The radar goes on: a control program is answered whenever it polls,     *)
(* whatever the shells do and wherever they are stopped.                   *)
PollAnswered == \A c \in Programs : client[c] = "asked" ~> client[c] # "asked"

-----------------------------------------------------------------------------
(***************************************************************************)
(* The inductive invariant behind InStep: how far apart the two ends of a  *)
(* connection may be.                                                      *)
(***************************************************************************)
(* The pieces the child waits for before anything else.                    *)
Rest(e) == IF child[e] = "take" THEN Parts - part[e] + 1 ELSE 0

(* On the way to a program's child are those pieces and a poll.            *)
PollsComing(c) ==
  child[c] \notin {"none", "end"} =>
    /\ Len(up[c]) <= Rest(c) + 1
    /\ \A i \in 1..Len(up[c]) : up[c][i].kind = IF i <= Rest(c) THEN "part" ELSE "poll"

(* What has come of an answer to a poll.                                   *)
PollAnswer(c) ==
  /\ up[c] = <<>>
  /\ \/ /\ Head(down[c]).kind = "ignore"
        /\ child[c] = "recv" /\ Len(down[c]) = 1
     \/ /\ Head(down[c]).kind = "send"
        /\ child[c] = "take" /\ part[c] = 1 /\ Len(down[c]) = 1
     \/ /\ Head(down[c]).kind = "reply"
        /\ child[c] \in {"give", "gave", "recv"}
        /\ Len(down[c]) = IF child[c] = "give" THEN part[c] ELSE Parts + 1

ProgramLink(c) ==
  /\ PollsComing(c)
  /\ child[c] \in {"none", "end"} => client[c] \in {"away", "left"}
  /\ client[c] = "busy" => down[c] = <<>> /\ Len(up[c]) = Rest(c) /\ child[c] # "give"
  /\ client[c] = "asked" =>
       IF down[c] = <<>> THEN Len(up[c]) = Rest(c) + 1 /\ child[c] # "give"
                         ELSE PollAnswer(c)

(* On the way to a shell's child is a request, or pieces of an upload.     *)
RequestsComing(s) ==
  /\ child[s] \in {"start", "recv", "wait", "give", "gave"} =>
       Len(up[s]) <= 1 /\ \A i \in 1..Len(up[s]) : up[s][i].kind \in {"send", "reply"}
  /\ child[s] = "take" =>
       Len(up[s]) <= Rest(s) /\ \A i \in 1..Len(up[s]) : up[s][i].kind = "part"

(* What has come of the answer to a download.                              *)
DownloadAnswer(s) ==
  /\ up[s] = <<>>
  /\ \/ child[s] = "wait" /\ down[s] = <<>>
     \/ /\ child[s] \in {"give", "gave", "recv"} /\ down[s] # <<>> /\ Head(down[s]).kind = "ok"
        /\ Len(down[s]) = IF child[s] = "give" THEN part[s] ELSE Parts + 1
     \/ child[s] \in {"end", "none"} /\ down[s] # <<>> /\ Head(down[s]).kind = "error"

ShellLink(s) ==
  /\ RequestsComing(s)
  /\ client[s] = "asked" =>
       \/ child[s] \in {"start", "recv"} /\ down[s] = <<>> /\ up[s] = <<Msg("send")>>
       \/ DownloadAnswer(s)
  /\ client[s] = "open" => child[s] \in {"gave", "recv"} /\ up[s] = <<>> /\ down[s] = <<>>
  /\ client[s] = "going" =>
       \/ child[s] \in {"gave", "recv"} /\ down[s] = <<>> /\ up[s] = <<Msg("reply")>>
       \/ /\ child[s] = "take" /\ part[s] = 1 /\ up[s] = <<>>
          /\ down[s] # <<>> /\ Head(down[s]).kind \in {"ok", "error"}

LinkInv == (\A c \in Programs : ProgramLink(c)) /\ (\A s \in Shells : ShellLink(s))
=============================================================================
