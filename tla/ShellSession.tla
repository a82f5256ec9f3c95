---------------------------- MODULE ShellSession -----------------------------
(***************************************************************************)
(* What a user of radarshell may count on: ShellServer with two history    *)
(* variables that say what became of a download and of an upload.          *)
(***************************************************************************)
EXTENDS ShellServer

VARIABLES
  fresh, \* shells for which parameters were stored while their child waited
  stage  \* "valid" from a download until its control program ends, "pending" once everything
         \* has been uploaded, then "applied"

Running == { c \in Programs : client[c] \in {"busy", "asked"} }

StageAfter(s) ==
  CASE ConnectShell(s) -> "none"
    [] Download(s) /\ Running # {} -> "valid"
    [] stage[s] = "valid" /\ client'[s] = "left" ->
         IF Len(up'[s]) = Len(up[s]) + Parts THEN "pending" ELSE "none"
    [] \E c \in Programs : Leave(c) -> "none"
    [] stage[s] = "pending" /\ \E c \in Programs : Apply(c) /\ Body(c) = held[s] -> "applied"
    [] OTHER -> stage[s]

SessionInit == Init /\ fresh = {} /\ stage = [s \in Shells |-> "none"]

SessionNext ==
  /\ Next
  /\ fresh' = CASE \E c \in Programs : Stored(c) -> fresh \cup { s \in Shells : child[s] = "wait" }
                [] OTHER -> { s \in fresh : child'[s] # "wait" \/ child[s] = "wait" }
  /\ stage' = [s \in Shells |-> StageAfter(s)]

sessionVars == <<vars, fresh, stage>>

SessionSpec == SessionInit /\ [][SessionNext]_sessionVars

FairSession ==
  /\ SessionSpec
  /\ \A c \in Programs : WF_vars(ProgramChild(c)) /\ WF_vars(Responds(c))
  /\ \A s \in Shells : WF_vars(ShellChild(s)) /\ WF_vars(Shell(s))

(* The premise of two properties below: no control program stays connected *)
(* without polling.  The loop of normalscan polls after every integration  *)
(* that succeeds; nothing in the server makes a program do so.             *)
PollsOn == \A c \in Programs : []<>(client[c] # "busy")

(* A user who starts a shell gets parameters or is told there are none,    *)
(* as long as the control programs poll or end.                            *)
ShellAnswered == PollsOn => \A s \in Shells : client[s] = "asked" ~> client[s] # "asked"

(* The parameters a shell is given, if they were stored for it, are those  *)
(* of one moment.                                                          *)
Whole ==
  \A s \in fresh : client[s] \in {"open", "going"} =>
    \A i, j \in 1..Parts : held[s][i] = held[s][j]

(* An upload for the control program that runs is applied by it, if it goes *)
(* on polling ...                                                          *)
UploadApplied == PollsOn => \A s \in Shells : stage[s] = "pending" ~> stage[s] # "pending"

(* ... and is not applied a second time, which would undo what the program *)
(* has changed since.                                                      *)
AppliedOnce ==
  [][ \A c \in Programs : Apply(c) =>
        \E s \in Shells : stage[s] # "applied" /\ held[s] = Body(c) ]_sessionVars

(***************************************************************************)
(* What the documentation says and the code does not do.                   *)
(***************************************************************************)
(* radarshell.doc: "list all parameters and their values".  The values are *)
(* those the control program had after the shell asked for them.           *)
ShownAreCurrent == \A s \in Shells : client[s] = "open" => s \in fresh

(* radarshell.doc: "allows the user to change the operating parameters of  *)
(* the radar while a control program is active".  A shell gets anywhere    *)
(* only if that program calls RadarShell(), which uafscan and noopscan     *)
(* never do.                                                               *)
ShellOpens == \A s \in Shells : client[s] = "asked" ~> client[s] # "asked"
-----------------------------------------------------------------------------
(***************************************************************************)
(* The inductive invariant behind Whole and AppliedOnce, for one shell at a *)
(* time and any number of connections of control programs: one that is     *)
(* stopped may still be there when the next connects.                      *)
(***************************************************************************)
OneUser == Prompt /\ Programs # {} /\ \E s \in Shells : Shells = {s}

Uniform(p) == \A i, j \in 1..Parts : p[i] = p[j]

PollComing(c) == child[c] = "recv" /\ up[c] # <<>>
Replying(c) == client[c] = "asked" /\ down[c] # <<>> /\ Head(down[c]).kind = "reply"
Answering(s) == client[s] = "asked" /\ down[s] # <<>> /\ Head(down[s]).kind = "ok"

(* A poll is under way. *)
Polling(c) ==
  PollComing(c) \/ child[c] \in {"take", "took", "give", "gave"} \/ (client[c] = "asked" /\ down[c] # <<>>)

(* What has come of the parameters is what was in the buffer, or is sent.  *)
Carries(msgs, p) == \A i \in 1..(Len(msgs) - 1) : msgs[i + 1].value = p[i]
Brings(e, p) == \A i \in 1..Len(up[e]) : up[e][i].value = p[part[e] + i - 1]

(* The child of a program.                                                 *)
ProgramPlace(c) ==
  /\ child[c] \notin {"wait", "await"}
  /\ child[c] \notin {"none", "recv", "end"} => Len(up[c]) <= Rest(c)

(* The child of the shell.                                                 *)
ShellPlace(s) ==
  /\ child[s] \in {"none", "recv"} => rsstate = 0
  /\ child[s] = "wait" => rsstate = 1
  /\ child[s] = "await" => rsstate = 2
  /\ rsstate = 2 => child[s] \in {"await", "end"}
  /\ child[s] \in {"wait", "give"} => up[s] = <<>>

(* They do not use the buffer at once.                                     *)
Apart(c, s) ==
  /\ child[c] \in {"take", "took"} =>
       child[s] \in {"wait", "end", "none"} /\ rsstate # 2 /\ cpstate # 2
  /\ child[c] \in {"give", "gave"} => child[s] \in {"await", "end", "none"}
  /\ PollComing(c) =>
       /\ child[s] \in {"none", "recv", "wait", "await", "end"}
       /\ child[s] = "recv" => up[s] = <<>>
       /\ rsstate = 1 => cpstate # 2
  /\ Replying(c) => child[s] \in {"await", "end", "none"} /\ (child[c] = "recv" => cpstate # 2)

(* What a program stores. *)
Stores(c) ==
  /\ Uniform(params[c])
  /\ child[c] = "take" =>
       Brings(c, params[c]) /\ \A i \in 1..(part[c] - 1) : buffer[i] = params[c][i]
  /\ child[c] = "took" => buffer = params[c]

(* What the shell holds is what is in the buffer, until it has come back.  *)
Holds(s) ==
  /\ Uniform(held[s])
  /\ cpstate = 2 => Uniform(buffer)
  /\ Answering(s) => Uniform(buffer) /\ Carries(down[s], buffer)
  /\ client[s] \in {"open", "going"} \/ child[s] \in {"take", "took"} \/ rsstate = 2 => buffer = held[s]
  /\ child[s] \in {"start", "gave", "recv"} /\ up[s] # <<>> /\ Head(up[s]).kind = "reply" => buffer = held[s]
  /\ child[s] = "take" => Brings(s, held[s])

Returns(c, s) ==
  /\ child[c] = "give" => buffer = held[s]
  /\ Replying(c) => buffer = held[s] /\ Carries(down[c], buffer)

(* Nothing sends an upload to a program again. *)
Applied(s) ==
  /\ child[s] \in {"await", "end", "none"}
  /\ \A c \in Programs : ~Replying(c) /\ (PollComing(c) => rsstate # 2)
  /\ child[s] = "await" /\ cpstate = 2 => \E c \in Programs : child[c] = "gave"
Stage(s) == stage[s] = "applied" => Applied(s)

SessionInv ==
  /\ fresh \subseteq Shells
  /\ \A c \in Programs : ProgramPlace(c) /\ Stores(c)
  /\ \A c, d \in Programs : Polling(c) /\ Polling(d) => c = d
  /\ \A s \in Shells : ShellPlace(s) /\ Holds(s) /\ Stage(s)
  /\ \A c \in Programs, s \in Shells : Apart(c, s) /\ Returns(c, s)
==============================================================================
