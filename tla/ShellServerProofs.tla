-------------------------- MODULE ShellServerProofs --------------------------
(***************************************************************************)
(* Proofs about ShellServer: its types, that the shared memory is left as  *)
(* it was found, and that both ends of every connection stay in step, for  *)
(* every number of connections of either kind and every number of pieces;  *)
(* and about ShellSession: what a user may count on who has the server to  *)
(* himself, whatever control programs come and go.                         *)
(***************************************************************************)
EXTENDS ShellSession, SequenceTheorems, TLAPS

LEMMA MessageTypes ==
  /\ \A kind \in Kinds : Msg(kind) \in Message
  /\ \A p \in Parameters : InPieces(p) \in Seq(Message)
  /\ Default \in Parameters
<1>1. 0 \in Version
  BY BoundsAssumption DEF Version
<1>2. ASSUME NEW p \in Parameters PROVE InPieces(p) \in Seq(Message)
  <2>1. \A i \in 1..Parts : [kind |-> "part", value |-> p[i]] \in Message
    BY DEF Message, Kinds, Parameters
  <2> QED
    BY <2>1, BoundsAssumption DEF InPieces
<1> QED
  BY <1>1, <1>2 DEF Msg, Message, Default, Parameters

(* What Sends does to the channels. *)
LEMMA SendsType ==
  ASSUME TypeOK, NEW e \in Ends, NEW msgs \in Seq(Message), Sends(e, msgs)
  PROVE  down' \in [Ends -> Seq(Message)]
<1>1. down[e] \o msgs \in Seq(Message)
  BY DEF TypeOK
<1> QED
  BY <1>1 DEF TypeOK, Sends

LEMMA ReceivedType ==
  ASSUME TypeOK, NEW e \in Ends, up[e] # <<>>, Received(e)
  PROVE  /\ up' \in [Ends -> Seq(Message)]
         /\ Head(up[e]) \in Message /\ Head(up[e]).value \in Version
<1>1. up[e] \in Seq(Message)
  BY DEF TypeOK
<1>2. Tail(up[e]) \in Seq(Message) /\ Head(up[e]) \in Message
  BY <1>1, HeadTailProperties
<1> QED
  BY <1>2 DEF TypeOK, Received, Message

(* The answer a program has read whole. *)
LEMMA BodyType ==
  ASSUME TypeOK, NEW e \in Ends, Len(down[e]) > Parts
  PROVE  Body(e) \in Parameters /\ SubSeq(down[e], Parts + 2, Len(down[e])) \in Seq(Message)
<1>1. down[e] \in Seq(Message) /\ Len(down[e]) \in Nat /\ Parts \in Nat
  BY BoundsAssumption DEF TypeOK
<1>2. ASSUME NEW i \in 1..Parts PROVE down[e][i + 1].value \in Version
  <2>1. i + 1 \in 1..Len(down[e])
    BY <1>1
  <2>2. down[e][i + 1] \in Message
    BY <1>1, <2>1, ElementOfSeq
  <2> QED
    BY <2>2 DEF Message
<1>3. SubSeq(down[e], Parts + 2, Len(down[e])) \in Seq(Message)
  <2>1. \A k \in (Parts + 2)..Len(down[e]) : k \in 1..Len(down[e])
    BY <1>1
  <2>2. \A k \in (Parts + 2)..Len(down[e]) : down[e][k] \in Message
    BY <1>1, <2>1, ElementOfSeq
  <2> QED
    BY <1>1, <2>2, SubSeqProperties
<1> QED
  BY <1>2, <1>3 DEF Body, Parameters

USE DEF Ends

LEMMA TypeInit == Init => TypeOK
<1> SUFFICES ASSUME Init PROVE TypeOK
  OBVIOUS
<1>1. Default \in Parameters /\ 0 \in Version /\ 1 \in 1..Parts
  BY MessageTypes, BoundsAssumption DEF Version
<1> QED
  BY <1>1 DEF Init, Labels, TypeOK

(* The next piece, or what follows the last. *)
LEMMA OnwardType ==
  ASSUME TypeOK, NEW e \in Ends, NEW label \in Labels,
         IF part[e] = Parts THEN Go(e, label) /\ UNCHANGED part
                            ELSE part' = [part EXCEPT ![e] = @ + 1] /\ UNCHANGED child
  PROVE  child' \in [Ends -> Labels] /\ part' \in [Ends -> 1..Parts]
<1>1. part[e] \in 1..Parts /\ part[e] # Parts => part[e] + 1 \in 1..Parts
  BY BoundsAssumption DEF TypeOK
<1>2. CASE part[e] = Parts
  BY <1>2 DEF TypeOK, Go
<1>3. CASE part[e] # Parts
  BY <1>1, <1>3 DEF TypeOK
<1> QED
  BY <1>2, <1>3

(* The steps of the children. *)
LEMMA ChildTypes ==
  ASSUME TypeOK, NEW e \in Ends,
         Take(e) \/ Give(e) \/ Break(e) \/ (e \in Programs /\ ProgramChild(e))
           \/ (e \in Shells /\ ShellChild(e))
  PROVE  TypeOK'
<1> USE DEF Go, GoCopy, memory, Labels
<1>1. 1 \in 1..Parts /\ \A n \in 1..Parts : n # Parts => n + 1 \in 1..Parts
  BY BoundsAssumption
<1>2. /\ <<Msg("ok")>> \in Seq(Message) /\ <<Msg("ignore")>> \in Seq(Message)
      /\ <<Msg("send")>> \in Seq(Message) /\ <<Msg("reply")>> \in Seq(Message)
      /\ <<Msg("error")>> \in Seq(Message) /\ <<Msg("error"), Msg("ok")>> \in Seq(Message)
  BY MessageTypes DEF Kinds
<1>take. CASE Take(e)
  <2>1. /\ up' \in [Ends -> Seq(Message)] /\ Head(up[e]).value \in Version
    BY <1>take, ReceivedType DEF Take, Comes
  <2>2. buffer' \in Parameters
    BY <1>take, <2>1 DEF Take, TypeOK, Parameters
  <2>3. child' \in [Ends -> Labels] /\ part' \in [Ends -> 1..Parts]
    BY <1>take, OnwardType DEF Take, Labels
  <2> QED
    BY <1>take, <2>1, <2>2, <2>3 DEF Take, TypeOK
<1>give. CASE Give(e)
  <2>1. <<[kind |-> "part", value |-> buffer[part[e]]]>> \in Seq(Message)
    BY DEF TypeOK, Parameters, Message, Kinds
  <2>2. down' \in [Ends -> Seq(Message)]
    BY <1>give, <2>1, SendsType DEF Give
  <2>3. child' \in [Ends -> Labels] /\ part' \in [Ends -> 1..Parts]
    BY <1>give, OnwardType DEF Give, Labels
  <2> QED
    BY <1>give, <2>2, <2>3 DEF Give, TypeOK
<1>break. CASE Break(e)
  BY <1>break DEF Break, TypeOK
<1>answer. CASE e \in Programs /\ AnswerPoll(e)
  <2>1. up' \in [Ends -> Seq(Message)]
    BY <1>answer, ReceivedType DEF AnswerPoll, Comes
  <2>2. down' \in [Ends -> Seq(Message)]
    BY <1>answer, <1>2, SendsType DEF AnswerPoll
  <2>3. child' \in [Ends -> Labels] /\ part' \in [Ends -> 1..Parts]
    BY <1>answer, <1>1 DEF AnswerPoll, TypeOK
  <2> QED
    BY <1>answer, <2>1, <2>2, <2>3 DEF AnswerPoll, TypeOK
<1>start. CASE e \in Programs /\ StartProgram(e)
  BY <1>start DEF StartProgram, TypeOK
<1>stored. CASE e \in Programs /\ Stored(e)
  BY <1>stored DEF Stored, TypeOK
<1>replied. CASE e \in Programs /\ Replied(e)
  BY <1>replied DEF Replied, TypeOK
<1>endp. CASE e \in Programs /\ EndProgram(e)
  BY <1>endp DEF EndProgram, TypeOK
<1>starts. CASE e \in Shells /\ StartShell(e)
  BY <1>starts DEF StartShell, TypeOK
<1>asked. CASE e \in Shells /\ AskedToSend(e)
  <2>1. up' \in [Ends -> Seq(Message)]
    BY <1>asked, ReceivedType DEF AskedToSend, Comes
  <2> QED
    BY <1>asked, <2>1 DEF AskedToSend, TypeOK
<1>wait. CASE e \in Shells /\ Wait(e)
  <2>1. down' \in [Ends -> Seq(Message)]
    BY <1>wait, <1>2, SendsType DEF Wait
  <2>2. child' \in [Ends -> Labels] /\ part' \in [Ends -> 1..Parts]
    BY <1>wait, <1>1 DEF Wait, TypeOK
  <2> QED
    BY <1>wait, <2>1, <2>2 DEF Wait, TypeOK
<1>sent. CASE e \in Shells /\ Sent(e)
  BY <1>sent DEF Sent, TypeOK
<1>reply. CASE e \in Shells /\ AskedToReply(e)
  <2>1. up' \in [Ends -> Seq(Message)]
    BY <1>reply, ReceivedType DEF AskedToReply, Comes
  <2>2. (IF cpstate = 0 THEN <<Msg("error"), Msg("ok")>> ELSE <<Msg("ok")>>) \in Seq(Message)
    BY <1>2
  <2>3. down' \in [Ends -> Seq(Message)]
    BY <1>reply, <2>2, SendsType DEF AskedToReply
  <2> QED
    BY <1>reply, <1>1, <2>1, <2>3 DEF AskedToReply, TypeOK
<1>left. CASE e \in Shells /\ Left(e)
  BY <1>left DEF Left, TypeOK
<1>await. CASE e \in Shells /\ Await(e)
  BY <1>await DEF Await, TypeOK
<1>ends. CASE e \in Shells /\ EndShell(e)
  BY <1>ends DEF EndShell, TypeOK
<1> QED
  BY <1>take, <1>give, <1>break, <1>answer, <1>start, <1>stored, <1>replied, <1>endp, <1>starts,
     <1>asked, <1>wait, <1>sent, <1>reply, <1>left, <1>await, <1>ends
  DEF ProgramChild, ShellChild

(* The steps of the control programs. *)
LEMMA ProgramTypes ==
  ASSUME TypeOK, NEW c \in Programs,
         Program(c) \/ ConnectProgram(c)
  PROVE  TypeOK'
<1> USE DEF server, memory
<1>1. c \in Ends
  OBVIOUS
<1>2. up[c] \in Seq(Message) /\ down[c] \in Seq(Message) /\ params[c] \in Parameters
  BY <1>1 DEF TypeOK
<1>3. down[c] # <<>> => Tail(down[c]) \in Seq(Message)
  BY <1>2, HeadTailProperties
<1>connect. CASE ConnectProgram(c)
  <2>1. Default \in Parameters
    BY MessageTypes
  <2> QED
    BY <1>connect, <2>1 DEF ConnectProgram, Connect, Go, Labels, TypeOK
<1>poll. CASE Poll(c)
  <2>1. Append(up[c], Msg("poll")) \in Seq(Message)
    BY <1>2, MessageTypes DEF Kinds
  <2>2. PICK v \in { x \in {version, version + 1} : x <= MaxVersion } :
          /\ version' = v
          /\ params' = [params EXCEPT ![c] = IF v = version THEN @ ELSE [i \in 1..Parts |-> v]]
    BY <1>poll DEF Poll
  <2>3. v \in Version
    BY <2>2, BoundsAssumption DEF TypeOK, Version
  <2>4. [i \in 1..Parts |-> v] \in Parameters
    BY <2>3 DEF Parameters
  <2> QED
    BY <1>poll, <1>2, <2>1, <2>2, <2>3, <2>4 DEF Poll, TypeOK
<1>ignored. CASE Ignored(c)
  BY <1>ignored, <1>3 DEF Ignored, Answered, TypeOK
<1>send. CASE SendParams(c)
  <2>1. up[c] \o InPieces(params[c]) \in Seq(Message)
    BY <1>2, MessageTypes
  <2> QED
    BY <1>send, <1>3, <2>1 DEF SendParams, Answered, TypeOK
<1>apply. CASE Apply(c)
  <2>1. Len(down[c]) > Parts
    BY <1>apply DEF Apply
  <2>2. Body(c) \in Parameters /\ SubSeq(down[c], Parts + 2, Len(down[c])) \in Seq(Message)
    BY <1>1, <2>1, BodyType
  <2> QED
    BY <1>apply, <2>2 DEF Apply, TypeOK
<1> QED
  BY <1>connect, <1>poll, <1>ignored, <1>send, <1>apply DEF Program, Responds

(* The steps of the shells. *)
LEMMA ShellTypes ==
  ASSUME TypeOK, NEW s \in Shells,
         Shell(s) \/ ConnectShell(s) \/ Reply(s)
  PROVE  TypeOK'
<1> USE DEF server, memory
<1>1. s \in Ends
  OBVIOUS
<1>2. up[s] \in Seq(Message) /\ down[s] \in Seq(Message) /\ held[s] \in Parameters
  BY <1>1 DEF TypeOK
<1>3. down[s] # <<>> => Tail(down[s]) \in Seq(Message)
  BY <1>2, HeadTailProperties
<1>connect. CASE ConnectShell(s)
  <2>1. <<Msg("send")>> \in Seq(Message) /\ <<>> \in Seq(Message)
    BY MessageTypes DEF Kinds
  <2> QED
    BY <1>connect, <2>1 DEF ConnectShell, Connect, Go, Labels, TypeOK
<1>download. CASE Download(s)
  <2>1. Len(down[s]) > Parts
    BY <1>download DEF Download
  <2>2. Body(s) \in Parameters /\ SubSeq(down[s], Parts + 2, Len(down[s])) \in Seq(Message)
    BY <1>1, <2>1, BodyType
  <2> QED
    BY <1>download, <2>2 DEF Download, TypeOK
<1>none. CASE NoParameters(s)
  BY <1>none DEF NoParameters, TypeOK
<1>reply. CASE Reply(s)
  <2>1. Append(up[s], Msg("reply")) \in Seq(Message)
    BY <1>2, MessageTypes DEF Kinds
  <2> QED
    BY <1>reply, <2>1 DEF Reply, TypeOK
<1>upload. CASE Upload(s)
  <2>1. up[s] \o InPieces(held[s]) \in Seq(Message)
    BY <1>2, MessageTypes
  <2>2. up' \in [Ends -> Seq(Message)]
    BY <1>upload, <2>1 DEF Upload, TypeOK
  <2> QED
    BY <1>upload, <1>3, <2>2 DEF Upload, TypeOK
<1> QED
  BY <1>connect, <1>download, <1>none, <1>reply, <1>upload DEF Shell

LEMMA LeaveType == ASSUME TypeOK, NEW e \in Ends, Leave(e) PROVE TypeOK'
<1>1. up[e] \in Seq(Message) /\ down[e] \in Seq(Message)
  BY DEF TypeOK
<1>2. PICK n \in 0..Len(Outgoing(e)) :
        /\ up' = [up EXCEPT ![e] = @ \o SubSeq(Outgoing(e), 1, n)]
        /\ down' = [down EXCEPT ![e] = IF n > 0 THEN Tail(@) ELSE @]
  BY DEF Leave
<1>3. Outgoing(e) \in Seq(Message)
  <2>1. e \in Programs => InPieces(params[e]) \in Seq(Message)
    BY MessageTypes DEF TypeOK
  <2>2. e \in Shells => InPieces(held[e]) \in Seq(Message)
    BY MessageTypes DEF TypeOK
  <2> QED
    BY <2>1, <2>2 DEF Outgoing
<1>4. SubSeq(Outgoing(e), 1, n) \in Seq(Message)
  <2>1. Len(Outgoing(e)) \in Nat
    BY <1>3
  <2>2. \A k \in 1..n : k \in 1..Len(Outgoing(e))
    BY <2>1
  <2>3. \A k \in 1..n : Outgoing(e)[k] \in Message
    BY <1>3, <2>2, ElementOfSeq
  <2> QED
    BY <1>3, <2>1, <2>3, SubSeqProperties
<1>5. n > 0 => down[e] # <<>>
  <2>1. n > 0 => Outgoing(e) # <<>>
    BY <1>3
  <2> QED
    BY <2>1 DEF Outgoing, Answered
<1>6. (IF n > 0 THEN Tail(down[e]) ELSE down[e]) \in Seq(Message)
  BY <1>1, <1>5, HeadTailProperties
<1>7. up' \in [Ends -> Seq(Message)] /\ down' \in [Ends -> Seq(Message)]
  BY <1>1, <1>2, <1>4, <1>6 DEF TypeOK
<1> QED
  BY <1>7 DEF Leave, TypeOK, server

LEMMA TypeStep == TypeOK /\ [Next]_vars => TypeOK'
<1> SUFFICES ASSUME TypeOK, [Next]_vars PROVE TypeOK'
  OBVIOUS
<1>1. ASSUME NEW c \in Programs,
             ProgramChild(c) \/ Program(c) \/ ConnectProgram(c) \/ Leave(c)
      PROVE  TypeOK'
  BY <1>1, ChildTypes, ProgramTypes, LeaveType
<1>2. ASSUME NEW s \in Shells,
             ShellChild(s) \/ Shell(s) \/ ConnectShell(s) \/ Reply(s) \/ Leave(s)
      PROVE  TypeOK'
  BY <1>2, ChildTypes, ShellTypes, LeaveType
<1>3. CASE UNCHANGED vars
  BY <1>3 DEF vars, TypeOK
<1> QED
  BY <1>1, <1>2, <1>3 DEF Next

(* Every variable keeps its type, whatever the connections do. *)
THEOREM TypeCorrect == Spec => []TypeOK
  BY TypeInit, TypeStep, PTL DEF Spec

(***************************************************************************)
(* StateReset is inductive: a child that writes its side's state is alive, *)
(* and the last thing each of them does is to write 0.                     *)
(***************************************************************************)
(* A child that is gone was the one that reset the state, or was gone before. *)
LEMMA ProgramSide ==
  ASSUME TypeOK, StateReset, [Next]_vars, \A c \in Programs : child'[c] = "none"
  PROVE  cpstate' = 0
<1> USE DEF Go, GoCopy, memory, server
<1>1. ASSUME NEW c \in Programs,
             ProgramChild(c) \/ Program(c) \/ ConnectProgram(c) \/ Leave(c)
      PROVE  cpstate' = 0
  <2>1. CASE ProgramChild(c)
    <3>1. child'[c] = "none" /\ child \in [Ends -> Labels]
      BY DEF TypeOK
    <3>2. EndProgram(c)
      BY <2>1, <3>1 DEF ProgramChild, StartProgram, AnswerPoll, Take, Stored, Give, Replied, Break
    <3> QED
      BY <3>2 DEF EndProgram
  <2>2. CASE Program(c) \/ ConnectProgram(c) \/ Leave(c)
    <3>1. \A d \in Programs : child[d] = "none"
      BY <2>2 DEF Program, Responds, Poll, Ignored, SendParams, Apply, ConnectProgram, Connect, Leave, TypeOK
    <3>2. cpstate' = cpstate
      BY <2>2 DEF Program, Responds, Poll, Ignored, SendParams, Apply, ConnectProgram, Connect, Leave
    <3> QED
      BY <3>1, <3>2 DEF StateReset
  <2> QED
    BY <1>1, <2>1, <2>2
<1>2. ASSUME NEW s \in Shells,
             ShellChild(s) \/ Shell(s) \/ ConnectShell(s) \/ Reply(s) \/ Leave(s)
      PROVE  cpstate' = 0
  <2>1. cpstate' = cpstate
    BY <1>2 DEF ShellChild, StartShell, AskedToSend, Wait, Give, Sent, AskedToReply, Take, Left,
                Await, Break, EndShell, Shell, Download, NoParameters, Upload, ConnectShell,
                Connect, Reply, Leave
  <2>2. \A c \in Programs : child'[c] = child[c]
    BY <1>2, EndsAssumption DEF ShellChild, StartShell, AskedToSend, Wait, Give, Sent,
                AskedToReply, Take, Left, Await, Break, EndShell, Shell, Download, NoParameters,
                Upload, ConnectShell, Connect, Reply, Leave, TypeOK
  <2> QED
    BY <2>1, <2>2 DEF StateReset
<1>3. CASE UNCHANGED vars
  BY <1>3 DEF vars, StateReset
<1> QED
  BY <1>1, <1>2, <1>3 DEF Next

LEMMA ShellSide ==
  ASSUME TypeOK, StateReset, [Next]_vars, \A s \in Shells : child'[s] = "none"
  PROVE  rsstate' = 0
<1> USE DEF Go, GoCopy, memory, server
<1>1. ASSUME NEW s \in Shells,
             ShellChild(s) \/ Shell(s) \/ ConnectShell(s) \/ Reply(s) \/ Leave(s)
      PROVE  rsstate' = 0
  <2>1. CASE ShellChild(s)
    <3>1. child'[s] = "none" /\ child \in [Ends -> Labels]
      BY DEF TypeOK
    <3>2. EndShell(s)
      BY <2>1, <3>1 DEF ShellChild, StartShell, AskedToSend, Wait, Give, Sent, AskedToReply,
                        Take, Left, Await, Break
    <3> QED
      BY <3>2 DEF EndShell
  <2>2. CASE Shell(s) \/ ConnectShell(s) \/ Reply(s) \/ Leave(s)
    <3>1. \A t \in Shells : child[t] = "none"
      BY <2>2 DEF Shell, Download, NoParameters, Upload, ConnectShell, Connect, Reply, Leave,
                  TypeOK
    <3>2. rsstate' = rsstate
      BY <2>2 DEF Shell, Download, NoParameters, Upload, ConnectShell, Connect, Reply, Leave
    <3> QED
      BY <3>1, <3>2 DEF StateReset
  <2> QED
    BY <1>1, <2>1, <2>2
<1>2. ASSUME NEW c \in Programs,
             ProgramChild(c) \/ Program(c) \/ ConnectProgram(c) \/ Leave(c)
      PROVE  rsstate' = 0
  <2>1. rsstate' = rsstate
    BY <1>2 DEF ProgramChild, StartProgram, AnswerPoll, Take, Stored, Give, Replied, Break,
                EndProgram, Program, Responds, Poll, Ignored, SendParams, Apply, ConnectProgram, Connect,
                Leave
  <2>2. \A s \in Shells : child'[s] = child[s]
    BY <1>2, EndsAssumption DEF ProgramChild, StartProgram, AnswerPoll, Take, Stored, Give,
                Replied, Break, EndProgram, Program, Responds, Poll, Ignored, SendParams, Apply,
                ConnectProgram, Connect, Leave, TypeOK
  <2> QED
    BY <2>1, <2>2 DEF StateReset
<1>3. CASE UNCHANGED vars
  BY <1>3 DEF vars, StateReset
<1> QED
  BY <1>1, <1>2, <1>3 DEF Next

(* When its last control program, or its last shell, is gone the server is *)
(* as if just started, in whatever order the children ended.               *)
THEOREM StateResetCorrect == Spec => []StateReset
<1>1. Init => StateReset
  BY DEF Init, StateReset
<1>2. TypeOK /\ StateReset /\ [Next]_vars => StateReset'
  BY ProgramSide, ShellSide DEF StateReset
<1> QED
  BY <1>1, <1>2, TypeCorrect, PTL DEF Spec

(***************************************************************************)
(* InStep, from LinkInv.                                                   *)
(***************************************************************************)
LEMMA Typed ==
  ASSUME TypeOK, NEW e \in Ends
  PROVE  /\ up[e] \in Seq(Message) /\ down[e] \in Seq(Message)
         /\ child[e] \in Labels /\ part[e] \in 1..Parts
         /\ Rest(e) \in 0..Parts /\ (child[e] = "take" => Rest(e) > 0)
         /\ client[e] \in {"away", "busy", "asked", "open", "going", "left"}
         /\ Parts \in Nat \ {0}
  BY BoundsAssumption DEF TypeOK, Rest

(* What Sends adds to a queue. *)
LEMMA Sending ==
  ASSUME TypeOK, NEW e \in Ends, NEW msgs \in Seq(Message), Sends(e, msgs)
  PROVE  /\ client[e] # "left" => down'[e] = down[e] \o msgs
         /\ \A d \in Ends \ {e} : down'[d] = down[d]
  BY DEF Sends, TypeOK

(* What Received leaves of one. *)
LEMMA Receiving ==
  ASSUME TypeOK, NEW e \in Ends, up[e] # <<>>, Received(e)
  PROVE  /\ up'[e] \in Seq(Message) /\ Len(up'[e]) = Len(up[e]) - 1 /\ Len(up[e]) > 0
         /\ \A i \in 1..Len(up'[e]) : up'[e][i] = up[e][i + 1]
         /\ Head(up[e]) = up[e][1]
         /\ \A d \in Ends \ {e} : up'[d] = up[d]
<1>1. up[e] \in Seq(Message)
  BY DEF TypeOK
<1>2. up'[e] = Tail(up[e]) /\ \A d \in Ends \ {e} : up'[d] = up[d]
  BY DEF Received, TypeOK
<1> QED
  BY <1>1, <1>2, HeadTailProperties, EmptySeq

LEMMA OnlyOne == \A q \in Seq(Message) : Len(q) = 0 <=> q = <<>>
  BY EmptySeq

(* One piece goes from the connection to the memory, or back. *)
LEMMA TakesPiece ==
  ASSUME TypeOK, NEW e \in Ends, Take(e)
  PROVE  /\ Rest(e) > 0 /\ Rest(e)' = Rest(e) - 1
         /\ child'[e] = IF part[e] = Parts THEN "took" ELSE "take"
         /\ part[e] # Parts => part'[e] = part[e] + 1
<1>1. /\ child[e] = "take" /\ child \in [Ends -> Labels] /\ part \in [Ends -> 1..Parts]
      /\ IF part[e] = Parts THEN child' = [child EXCEPT ![e] = "took"] /\ part' = part
                            ELSE part' = [part EXCEPT ![e] = @ + 1] /\ child' = child
  BY DEF Take, TypeOK, Go
<1>2. part[e] \in 1..Parts /\ Parts \in Nat
  BY <1>1, BoundsAssumption
<1> QED
  BY <1>1, <1>2 DEF Rest

LEMMA TakeInStep ==
  ASSUME TypeOK, NEW c \in Programs, ProgramLink(c), Take(c)
  PROVE  ProgramLink(c)'
<1>1. /\ child[c] = "take" /\ up[c] # <<>> /\ Received(c)
      /\ down' = down /\ client' = client
  BY DEF Take, Comes
<1>2. c \in Ends
  OBVIOUS
<1>3. PollsComing(c)'
  <2>1. Rest(c)' = Rest(c) - 1 /\ Rest(c) \in Nat
    BY <1>2, TakesPiece, Typed
  <2>2. /\ Len(up[c]) \in Nat /\ Len(up[c]) <= Rest(c) + 1
        /\ \A i \in 1..Len(up[c]) : up[c][i].kind = IF i <= Rest(c) THEN "part" ELSE "poll"
    BY <1>1, <1>2, Typed DEF ProgramLink, PollsComing
  <2>3. \A i \in 1..Len(up'[c]) : i + 1 \in 1..Len(up[c]) /\ up'[c][i] = up[c][i + 1]
    BY <1>1, <1>2, <2>2, Receiving
  <2>4. Len(up'[c]) <= Rest(c)' + 1
    BY <1>1, <1>2, <2>1, <2>2, Receiving
  <2>5. ASSUME NEW i \in 1..Len(up'[c])
        PROVE  up'[c][i].kind = IF i <= Rest(c)' THEN "part" ELSE "poll"
    <3>1. i \in Int /\ i + 1 \in 1..Len(up[c]) /\ up'[c][i] = up[c][i + 1]
      BY <2>3
    <3>2. up[c][i + 1].kind = IF i + 1 <= Rest(c) THEN "part" ELSE "poll"
      BY <2>2, <3>1
    <3>3. i + 1 <= Rest(c) <=> i <= Rest(c)'
      BY <2>1, <3>1
    <3> QED
      BY <3>1, <3>2, <3>3
  <2> QED
    BY <2>4, <2>5 DEF PollsComing
<1>4. client[c] # "asked" \/ down[c] = <<>>
  BY <1>1 DEF ProgramLink, PollAnswer
<1>5. Len(up'[c]) = Len(up[c]) - 1 /\ Len(up[c]) \in Nat /\ Rest(c)' = Rest(c) - 1 /\ Rest(c) \in Nat
  BY <1>1, <1>2, Receiving, TakesPiece, Typed
<1>6. child'[c] \in {"take", "took"}
  BY <1>2, TakesPiece
<1> QED
  BY <1>1, <1>3, <1>4, <1>5, <1>6 DEF ProgramLink

(* A piece goes from the memory to the connection. *)
LEMMA GivesPiece ==
  ASSUME TypeOK, NEW e \in Ends, Give(e)
  PROVE  /\ Rest(e) = 0 /\ Rest(e)' = 0
         /\ IF part[e] = Parts THEN child'[e] = "gave"
                               ELSE child'[e] = "give" /\ part'[e] = part[e] + 1
         /\ client[e] # "left" =>
              Len(down'[e]) = Len(down[e]) + 1 /\ (down[e] # <<>> => Head(down'[e]) = Head(down[e]))
<1> DEFINE piece == [kind |-> "part", value |-> buffer[part[e]]]
<1>1. /\ child[e] = "give" /\ child \in [Ends -> Labels] /\ part \in [Ends -> 1..Parts]
      /\ IF part[e] = Parts THEN child' = [child EXCEPT ![e] = "gave"] /\ part' = part
                            ELSE part' = [part EXCEPT ![e] = @ + 1] /\ child' = child
  BY DEF Give, TypeOK, Go
<1>2. <<piece>> \in Seq(Message) /\ Len(<<piece>>) = 1
  BY DEF TypeOK, Parameters, Message, Kinds
<1>3. Sends(e, <<piece>>)
  BY DEF Give
<1>4. client[e] # "left" => down'[e] = down[e] \o <<piece>>
  BY <1>2, <1>3, Sending
<1>5. down[e] \in Seq(Message)
  BY DEF TypeOK
<1>6. client[e] # "left" =>
        Len(down'[e]) = Len(down[e]) + 1 /\ (down[e] # <<>> => Head(down'[e]) = Head(down[e]))
  BY <1>2, <1>4, <1>5, ConcatProperties, EmptySeq
<1> QED
  BY <1>1, <1>6 DEF Rest

LEMMA GiveInStep ==
  ASSUME TypeOK, NEW c \in Programs, ProgramLink(c), Give(c)
  PROVE  ProgramLink(c)'
<1>1. child[c] = "give" /\ up' = up /\ client' = client
  BY DEF Give
<1>2. c \in Ends
  OBVIOUS
<1>3. /\ Rest(c) = 0 /\ Rest(c)' = 0
      /\ IF part[c] = Parts THEN child'[c] = "gave"
                            ELSE child'[c] = "give" /\ part'[c] = part[c] + 1
      /\ client[c] # "left" =>
           Len(down'[c]) = Len(down[c]) + 1 /\ (down[c] # <<>> => Head(down'[c]) = Head(down[c]))
  BY <1>2, GivesPiece
<1>4. /\ part[c] \in 1..Parts /\ Parts \in Nat /\ Len(down[c]) \in Nat
      /\ down[c] = <<>> <=> Len(down[c]) = 0
  BY <1>2, Typed, OnlyOne
<1>5. PollsComing(c)'
  BY <1>1, <1>3 DEF PollsComing, ProgramLink
<1>6. client[c] # "busy" /\ (client[c] = "asked" => down[c] # <<>> /\ PollAnswer(c))
  BY <1>1 DEF ProgramLink
<1>7. ASSUME client[c] = "asked" PROVE down'[c] # <<>> /\ PollAnswer(c)'
  <2>1. /\ Head(down[c]).kind = "reply" /\ Len(down[c]) = part[c] /\ up[c] = <<>>
    BY <1>1, <1>6, <1>7 DEF PollAnswer
  <2>2. Len(down'[c]) = part[c] + 1 /\ Head(down'[c]).kind = "reply"
    BY <1>3, <1>6, <1>7, <2>1
  <2>3. down'[c] # <<>>
    BY <1>4, <2>2, EmptySeq
  <2>4. Len(down'[c]) = IF child'[c] = "give" THEN part'[c] ELSE Parts + 1
    BY <1>3, <1>4, <2>2
  <2> QED
    BY <1>1, <1>3, <2>1, <2>2, <2>3, <2>4 DEF PollAnswer
<1>8. child'[c] \notin {"none", "end"}
  BY <1>3
<1> QED
  BY <1>1, <1>5, <1>6, <1>7, <1>8 DEF ProgramLink

LEMMA AnswerInStep ==
  ASSUME TypeOK, NEW c \in Programs, ProgramLink(c), AnswerPoll(c)
  PROVE  ProgramLink(c)'
<1>1. /\ child[c] = "recv" /\ up[c] # <<>> /\ Received(c) /\ client' = client
      /\ c \in Ends /\ child \in [Ends -> Labels] /\ part \in [Ends -> 1..Parts]
  BY DEF AnswerPoll, Comes, TypeOK
<1>2. Rest(c) = 0 /\ Len(up[c]) <= 1 /\ Len(up[c]) \in Nat
  BY <1>1, Typed DEF ProgramLink, PollsComing, Rest
<1>3. Len(up'[c]) = 0 /\ up'[c] = <<>>
  BY <1>1, <1>2, Receiving, OnlyOne
<1>4. PICK kind \in {"ignore", "send", "reply"} :
        /\ Sends(c, <<Msg(kind)>>)
        /\ CASE kind = "ignore" -> child'[c] = "recv"
             [] kind = "send" -> child'[c] = "take" /\ part'[c] = 1
             [] OTHER -> child'[c] = "give" /\ part'[c] = 1
  BY <1>1 DEF AnswerPoll, GoCopy, Go
<1>5. <<Msg(kind)>> \in Seq(Message) /\ Msg(kind).kind = kind
  BY MessageTypes DEF Kinds, Msg
<1>6. client[c] # "left" => down'[c] = down[c] \o <<Msg(kind)>>
  BY <1>1, <1>4, <1>5, Sending
<1>7. client[c] # "busy" /\ (client[c] = "asked" => down[c] = <<>>)
  BY <1>1, <1>2, Receiving, EmptySeq, Typed DEF ProgramLink, PollAnswer
<1>8. client[c] = "asked" =>
        /\ down'[c] # <<>> /\ Head(down'[c]).kind = kind /\ Len(down'[c]) = 1
  BY <1>5, <1>6, <1>7
<1>9. PollsComing(c)'
  <2>1. Rest(c)' \in Nat
    BY <1>4, BoundsAssumption DEF Rest
  <2> QED
    BY <1>3, <2>1 DEF PollsComing
<1>10. client[c] = "asked" => PollAnswer(c)'
  BY <1>1, <1>3, <1>4, <1>8 DEF PollAnswer
<1>11. child'[c] \notin {"none", "end"}
  BY <1>4
<1> QED
  BY <1>1, <1>7, <1>8, <1>9, <1>10, <1>11 DEF ProgramLink

(* The other steps of the child leave both queues alone. *)
LEMMA ProgramChildInStep ==
  ASSUME TypeOK, NEW c \in Programs, ProgramLink(c), ProgramChild(c)
  PROVE  ProgramLink(c)'
<1>1. ASSUME UNCHANGED <<client, up, down>>, Rest(c)' = Rest(c),
             child[c] \in {"start", "took", "gave"}, child'[c] = "recv"
      PROVE  ProgramLink(c)'
  BY <1>1 DEF ProgramLink, PollsComing, PollAnswer
<1>2. ASSUME StartProgram(c) \/ Stored(c) \/ Replied(c)
      PROVE  ProgramLink(c)'
  BY <1>1, <1>2 DEF StartProgram, Stored, Replied, Go, Rest, TypeOK
<1>3. ASSUME Break(c) \/ EndProgram(c)
      PROVE  ProgramLink(c)'
  <2>1. /\ child'[c] \in {"none", "end"} /\ client' = client
        /\ client[c] \in {"away", "left"}
    BY <1>3 DEF Break, EndProgram, Go, TypeOK, ProgramLink
  <2> QED
    BY <2>1 DEF ProgramLink, PollsComing
<1> QED
  BY <1>2, <1>3, TakeInStep, GiveInStep, AnswerInStep DEF ProgramChild

LEMMA PollInStep ==
  ASSUME TypeOK, NEW c \in Programs, ProgramLink(c), Poll(c)
  PROVE  ProgramLink(c)'
<1>1. /\ client[c] = "busy" /\ client'[c] = "asked" /\ down' = down
      /\ child' = child /\ part' = part /\ up'[c] = Append(up[c], Msg("poll"))
      /\ c \in Ends
  BY DEF Poll, server, TypeOK
<1>2. /\ down[c] = <<>> /\ Len(up[c]) = Rest(c) /\ child[c] \notin {"give", "none", "end"}
      /\ Rest(c)' = Rest(c)
  BY <1>1 DEF ProgramLink, Rest
<1>3. up[c] \in Seq(Message) /\ Len(up[c]) \in Nat /\ Rest(c) \in Nat
      /\ Msg("poll") \in Message /\ Msg("poll").kind = "poll"
  BY <1>1, Typed, MessageTypes DEF Kinds, Msg
<1>4. /\ Len(up'[c]) = Len(up[c]) + 1
      /\ \A i \in 1..Len(up'[c]) : up'[c][i] = IF i <= Len(up[c]) THEN up[c][i] ELSE Msg("poll")
  BY <1>1, <1>3
<1>5. PollsComing(c)'
  <2>1. ASSUME NEW i \in 1..Len(up'[c])
        PROVE  up'[c][i].kind = IF i <= Rest(c) THEN "part" ELSE "poll"
    <3>1. CASE i <= Len(up[c])
      <4>1. i \in 1..Len(up[c]) /\ up'[c][i] = up[c][i]
        BY <1>3, <1>4, <3>1
      <4> QED
        BY <1>2, <3>1, <4>1 DEF ProgramLink, PollsComing
    <3>2. CASE ~(i <= Len(up[c]))
      BY <1>2, <1>3, <1>4, <3>2
    <3> QED
      BY <3>1, <3>2
  <2> QED
    BY <1>2, <1>3, <1>4, <2>1 DEF PollsComing
<1> QED
  BY <1>1, <1>2, <1>3, <1>4, <1>5 DEF ProgramLink

(* Some of the pieces of an answer are sent. *)
LEMMA PiecesSent ==
  ASSUME NEW p \in Parameters, NEW n \in 0..Parts
  PROVE  LET sent == SubSeq(InPieces(p), 1, n)
         IN  Len(sent) = n /\ \A i \in 1..n : sent[i].kind = "part"
<1>1. /\ InPieces(p) \in Seq(Message) /\ Len(InPieces(p)) = Parts /\ Parts \in Nat
      /\ \A i \in 1..Parts : InPieces(p)[i] \in Message /\ InPieces(p)[i].kind = "part"
  BY MessageTypes, BoundsAssumption, ElementOfSeq DEF InPieces
<1>2. \A i \in 1..n : i \in 1..Parts
  BY <1>1
<1>3. \A i \in 1..n : InPieces(p)[i] \in Message
  BY <1>1, <1>2
<1>4. /\ Len(SubSeq(InPieces(p), 1, n)) = n
      /\ \A i \in 1..n : SubSeq(InPieces(p), 1, n)[i] = InPieces(p)[i]
  BY <1>3, SubSeqProperties
<1> QED
  BY <1>1, <1>2, <1>4

LEMMA TailOfOne == \A q \in Seq(Message) : Len(q) = 1 => Tail(q) = <<>>
<1> SUFFICES ASSUME NEW q \in Seq(Message), Len(q) = 1 PROVE Tail(q) = <<>>
  OBVIOUS
<1>1. q # <<>>
  BY EmptySeq
<1>2. Tail(q) \in Seq(Message) /\ Len(Tail(q)) = 0
  BY <1>1, HeadTailProperties
<1> QED
  BY <1>2, OnlyOne

LEMMA IgnoredInStep ==
  ASSUME TypeOK, NEW c \in Programs, ProgramLink(c), Ignored(c) \/ Apply(c)
  PROVE  ProgramLink(c)'
<1>1. /\ client[c] = "asked" /\ client'[c] = "busy" /\ down[c] # <<>>
      /\ Head(down[c]).kind \in {"ignore", "reply"}
      /\ child' = child /\ part' = part /\ up' = up /\ c \in Ends
  BY DEF Ignored, Apply, Answered, server, TypeOK
<1>2. PollAnswer(c) /\ Rest(c)' = Rest(c)
  BY <1>1 DEF ProgramLink, Rest
<1>3. down[c] \in Seq(Message) /\ Parts \in Nat
  BY <1>1, Typed
<1>4. down'[c] = <<>> /\ child[c] \in {"recv", "gave"}
  <2>1. CASE Ignored(c)
    <3>1. Len(down[c]) = 1 /\ child[c] = "recv" /\ down'[c] = Tail(down[c])
      BY <1>2, <2>1 DEF Ignored, Answered, PollAnswer, TypeOK
    <3> QED
      BY <1>3, <3>1, TailOfOne
  <2>2. CASE Apply(c)
    <3>1. /\ Head(down[c]).kind = "reply" /\ Len(down[c]) > Parts
          /\ down'[c] = SubSeq(down[c], Parts + 2, Len(down[c]))
      BY <2>2 DEF Apply, Answered, TypeOK
    <3>2. Len(down[c]) = Parts + 1 /\ child[c] \in {"recv", "gave"}
      BY <1>1, <1>2, <1>3, <3>1, Typed DEF PollAnswer
    <3>3. SubSeq(down[c], Parts + 2, Parts + 1) = <<>>
      BY <1>3, SubSeqEmpty
    <3> QED
      BY <3>1, <3>2, <3>3
  <2> QED
    BY <2>1, <2>2
<1>5. up[c] = <<>> /\ Len(up'[c]) = 0 /\ Rest(c) = 0
  BY <1>1, <1>2, <1>4, EmptySeq DEF PollAnswer, Rest
<1>6. PollsComing(c)'
  BY <1>1, <1>2, <1>5 DEF PollsComing, ProgramLink
<1> QED
  BY <1>1, <1>2, <1>4, <1>5, <1>6 DEF ProgramLink

LEMMA PiecesLength == \A p \in Parameters : Len(InPieces(p)) = Parts
  BY MessageTypes, BoundsAssumption DEF InPieces

(* They are all that is on the way when nothing was before. *)
LEMMA PiecesAdded ==
  ASSUME NEW p \in Parameters, NEW n \in 0..Parts, NEW q,
         q = <<>> \o SubSeq(InPieces(p), 1, n)
  PROVE  Len(q) = n /\ \A i \in 1..n : q[i].kind = "part"
<1> DEFINE sent == SubSeq(InPieces(p), 1, n)
<1>1. Len(sent) = n /\ \A i \in 1..n : sent[i].kind = "part"
  BY PiecesSent
<1>2. sent \in Seq(Message)
  <2>1. InPieces(p) \in Seq(Message) /\ Len(InPieces(p)) = Parts /\ Parts \in Nat
    BY MessageTypes, PiecesLength, BoundsAssumption
  <2>2. \A i \in 1..n : i \in 1..Parts
    BY <2>1
  <2> QED
    BY <2>1, <2>2, ElementOfSeq, SubSeqProperties
<1>3. q = sent
  BY <1>2, ConcatEmptySeq
<1> HIDE DEF sent
<1> QED
  BY <1>1, <1>3

(* The parameters, or their first n pieces when the program is stopped, go *)
(* to a child that waits for just them.                                    *)
LEMMA PiecesComing ==
  ASSUME TypeOK, NEW c \in Programs, ProgramLink(c), Answered(c, "send"), NEW n \in 0..Parts,
         up'[c] = up[c] \o SubSeq(InPieces(params[c]), 1, n), UNCHANGED <<child, part>>
  PROVE  PollsComing(c)' /\ Len(up'[c]) = n /\ Rest(c)' = Parts /\ child[c] = "take"
<1>1. PollAnswer(c) /\ Head(down[c]).kind = "send"
  BY DEF Answered, ProgramLink
<1>2. child[c] = "take" /\ part[c] = 1 /\ up[c] = <<>>
  BY <1>1 DEF PollAnswer
<1>3. Rest(c)' = Parts /\ Parts \in Nat /\ n \in Nat /\ n <= Parts
  BY <1>2, BoundsAssumption DEF Rest
<1>4. params[c] \in Parameters
  BY DEF TypeOK
<1>5. Len(up'[c]) = n /\ \A i \in 1..n : up'[c][i].kind = "part"
  BY <1>2, <1>4, PiecesAdded
<1>6. Len(up'[c]) <= Rest(c)' + 1
  BY <1>3, <1>5
<1>7. ASSUME NEW i \in 1..Len(up'[c]) PROVE i <= Rest(c)' /\ up'[c][i].kind = "part"
  <2>1. i \in 1..n
    BY <1>5
  <2>2. i <= Rest(c)'
    BY <1>3, <2>1
  <2>3. up'[c][i].kind = "part"
    BY <1>5, <2>1
  <2> QED
    BY <2>2, <2>3
<1>8. PollsComing(c)'
  BY <1>6, <1>7 DEF PollsComing
<1> QED
  BY <1>2, <1>3, <1>5, <1>8

LEMMA SendInStep ==
  ASSUME TypeOK, NEW c \in Programs, ProgramLink(c), SendParams(c)
  PROVE  ProgramLink(c)'
<1>1. /\ client'[c] = "busy" /\ down[c] # <<>> /\ down'[c] = Tail(down[c])
      /\ child' = child /\ part' = part /\ up'[c] = up[c] \o InPieces(params[c])
      /\ Answered(c, "send") /\ c \in Ends
  BY DEF SendParams, Answered, server, TypeOK
<1>2. params[c] \in Parameters /\ Parts \in Nat
  BY BoundsAssumption DEF TypeOK
<1>3. SubSeq(InPieces(params[c]), 1, Parts) = InPieces(params[c])
  <2>1. InPieces(params[c]) \in Seq(Message) /\ Len(InPieces(params[c])) = Parts
    BY <1>2, MessageTypes, PiecesLength
  <2> QED
    BY <2>1, SubSeqFull
<1>4. PollsComing(c)' /\ Len(up'[c]) = Parts /\ Rest(c)' = Parts /\ child[c] = "take"
  <2>1. up'[c] = up[c] \o SubSeq(InPieces(params[c]), 1, Parts)
    BY <1>1, <1>3, Zenon
  <2>2. Parts \in 0..Parts
    BY <1>2
  <2>3. UNCHANGED <<child, part>>
    BY <1>1
  <2> QED
    BY <1>1, <2>1, <2>2, <2>3, PiecesComing
<1>5. Len(down[c]) = 1 /\ down[c] \in Seq(Message)
  BY <1>1, Typed DEF Answered, ProgramLink, PollAnswer
<1>6. down'[c] = <<>>
  BY <1>1, <1>5, TailOfOne
<1> QED
  BY <1>1, <1>4, <1>6 DEF ProgramLink

LEMMA ConnectInStep ==
  ASSUME TypeOK, NEW c \in Programs, ConnectProgram(c)
  PROVE  ProgramLink(c)'
<1>1. client'[c] = "busy" /\ up'[c] = <<>> /\ down'[c] = <<>> /\ child'[c] = "start" /\ Rest(c)' = 0
  BY DEF ConnectProgram, Connect, Go, Rest, TypeOK
<1>2. Len(up'[c]) = 0
  BY <1>1, EmptySeq
<1> QED
  BY <1>1, <1>2 DEF ProgramLink, PollsComing

LEMMA LeaveInStep ==
  ASSUME TypeOK, NEW c \in Programs, ProgramLink(c), Leave(c)
  PROVE  ProgramLink(c)'
<1>1. /\ client'[c] = "left" /\ child' = child /\ part' = part /\ c \in Ends
      /\ Rest(c)' = Rest(c) /\ c \notin Shells
  BY EndsAssumption DEF Leave, server, Rest, TypeOK
<1>2. PICK n \in 0..Len(Outgoing(c)) : up'[c] = up[c] \o SubSeq(Outgoing(c), 1, n)
  BY <1>1 DEF Leave, TypeOK
<1>3. up[c] \in Seq(Message) /\ params[c] \in Parameters /\ Parts \in Nat
  BY <1>1, BoundsAssumption DEF TypeOK
<1>4. PollsComing(c)'
  <2>1. CASE Answered(c, "send")
    <3>1. Outgoing(c) = InPieces(params[c])
      BY <1>1, <2>1 DEF Outgoing
    <3>2. n \in 0..Parts
      BY <1>3, <3>1, PiecesLength
    <3>3. up'[c] = up[c] \o SubSeq(InPieces(params[c]), 1, n)
      BY <1>2, <3>1, Zenon
    <3> QED
      BY <1>1, <2>1, <3>2, <3>3, PiecesComing
  <2>2. CASE ~Answered(c, "send")
    <3>1. Outgoing(c) = <<>>
      BY <1>1, <2>2 DEF Outgoing
    <3>2. n = 0
      BY <1>2, <3>1, EmptySeq
    <3>3. SubSeq(Outgoing(c), 1, n) = <<>>
      BY <3>2, SubSeqEmpty
    <3>4. up'[c] = up[c]
      BY <1>2, <1>3, <3>3, ConcatEmptySeq
    <3> QED
      BY <1>1, <3>4 DEF ProgramLink, PollsComing
  <2> QED
    BY <2>1, <2>2
<1> QED
  BY <1>1, <1>4 DEF ProgramLink

LEMMA ProgramInStep ==
  ASSUME TypeOK, NEW c \in Programs, ProgramLink(c),
         ProgramChild(c) \/ Program(c) \/ ConnectProgram(c) \/ Leave(c)
  PROVE  ProgramLink(c)'
  BY ProgramChildInStep, PollInStep, IgnoredInStep, SendInStep, ConnectInStep, LeaveInStep
  DEF Program, Responds

(***************************************************************************)
(* The same of the shells.                                                 *)
(***************************************************************************)
LEMMA ShellTakeInStep ==
  ASSUME TypeOK, NEW s \in Shells, ShellLink(s), Take(s)
  PROVE  ShellLink(s)'
<1>1. child[s] = "take" /\ up[s] # <<>> /\ Received(s) /\ client' = client /\ s \in Ends
  BY DEF Take, Comes
<1>2. client[s] \notin {"asked", "open", "going"}
  BY <1>1 DEF ShellLink, DownloadAnswer
<1>3. child'[s] \in {"take", "took"} /\ Rest(s)' = Rest(s) - 1 /\ Rest(s) \in Nat
  BY <1>1, TakesPiece, Typed
<1>4. /\ Len(up'[s]) = Len(up[s]) - 1 /\ Len(up[s]) \in Nat
      /\ \A i \in 1..Len(up'[s]) : up'[s][i] = up[s][i + 1]
  BY <1>1, Receiving, Typed
<1>5. Len(up[s]) <= Rest(s) /\ \A i \in 1..Len(up[s]) : up[s][i].kind = "part"
  BY <1>1 DEF ShellLink, RequestsComing
<1>6. ASSUME NEW i \in 1..Len(up'[s]) PROVE up'[s][i].kind = "part"
  <2>1. i + 1 \in 1..Len(up[s]) /\ up'[s][i] = up[s][i + 1]
    BY <1>4
  <2> QED
    BY <1>5, <2>1
<1>7. Len(up'[s]) <= Rest(s)'
  BY <1>3, <1>4, <1>5
<1>8. RequestsComing(s)'
  BY <1>3, <1>6, <1>7 DEF RequestsComing
<1> QED
  BY <1>1, <1>2, <1>8 DEF ShellLink

LEMMA ShellGiveInStep ==
  ASSUME TypeOK, NEW s \in Shells, ShellLink(s), Give(s)
  PROVE  ShellLink(s)'
<1>1. child[s] = "give" /\ up' = up /\ client' = client /\ s \in Ends
  BY DEF Give
<1>2. /\ IF part[s] = Parts THEN child'[s] = "gave"
                            ELSE child'[s] = "give" /\ part'[s] = part[s] + 1
      /\ client[s] # "left" =>
           Len(down'[s]) = Len(down[s]) + 1 /\ (down[s] # <<>> => Head(down'[s]) = Head(down[s]))
  BY <1>1, GivesPiece
<1>3. part[s] \in 1..Parts /\ Parts \in Nat /\ Len(down[s]) \in Nat
  BY <1>1, Typed
<1>4. RequestsComing(s)'
  BY <1>1, <1>2 DEF ShellLink, RequestsComing
<1>5. client[s] \notin {"open", "going"} /\ (client[s] = "asked" => DownloadAnswer(s))
  BY <1>1 DEF ShellLink
<1>6. ASSUME client[s] = "asked" PROVE DownloadAnswer(s)'
  <2>1. up[s] = <<>> /\ down[s] # <<>> /\ Head(down[s]).kind = "ok" /\ Len(down[s]) = part[s]
    BY <1>1, <1>5, <1>6 DEF DownloadAnswer
  <2>2. Len(down'[s]) = part[s] + 1 /\ Head(down'[s]).kind = "ok"
    BY <1>2, <1>6, <2>1
  <2>3. down'[s] # <<>>
    BY <1>3, <2>2, EmptySeq
  <2>4. /\ child'[s] \in {"give", "gave"}
        /\ Len(down'[s]) = IF child'[s] = "give" THEN part'[s] ELSE Parts + 1
    BY <1>2, <1>3, <2>2
  <2> QED
    BY <1>1, <2>1, <2>2, <2>3, <2>4 DEF DownloadAnswer
<1> QED
  BY <1>1, <1>4, <1>5, <1>6 DEF ShellLink

(* A request is read: what the shell expects follows from which it was.    *)
LEMMA RequestRead ==
  ASSUME TypeOK, NEW s \in Shells, ShellLink(s), child[s] = "recv",
         NEW kind \in {"send", "reply"}, Comes(s, kind), Received(s)
  PROVE  /\ up'[s] = <<>> /\ Len(up'[s]) = 0
         /\ client[s] # "open"
         /\ client[s] = "asked" => kind = "send" /\ down[s] = <<>>
         /\ client[s] = "going" => kind = "reply" /\ down[s] = <<>>
<1>1. up[s] # <<>> /\ Head(up[s]).kind = kind /\ s \in Ends
  BY DEF Comes
<1>2. Len(up[s]) <= 1 /\ Len(up[s]) \in Nat
  BY <1>1, Typed DEF ShellLink, RequestsComing
<1>3. up'[s] = <<>> /\ Len(up'[s]) = 0
  BY <1>1, <1>2, Receiving, OnlyOne
<1>4. Head(<<Msg("send")>>).kind = "send" /\ Head(<<Msg("reply")>>).kind = "reply"
  BY DEF Msg
<1> QED
  BY <1>1, <1>3, <1>4 DEF ShellLink, DownloadAnswer

LEMMA AskedToSendInStep ==
  ASSUME TypeOK, NEW s \in Shells, ShellLink(s), AskedToSend(s)
  PROVE  ShellLink(s)'
<1>1. /\ child[s] = "recv" /\ Comes(s, "send") /\ Received(s) /\ child'[s] = "wait"
      /\ down' = down /\ client' = client
  BY DEF AskedToSend, Go, TypeOK
<1>2. /\ up'[s] = <<>> /\ Len(up'[s]) = 0 /\ client[s] \notin {"open", "going"}
      /\ client[s] = "asked" => down[s] = <<>>
  BY <1>1, RequestRead
<1>3. RequestsComing(s)'
  BY <1>1, <1>2 DEF RequestsComing
<1> QED
  BY <1>1, <1>2, <1>3 DEF ShellLink, DownloadAnswer

LEMMA AskedToReplyInStep ==
  ASSUME TypeOK, NEW s \in Shells, ShellLink(s), AskedToReply(s)
  PROVE  ShellLink(s)'
<1>1. /\ child[s] = "recv" /\ Comes(s, "reply") /\ Received(s)
      /\ child'[s] = "take" /\ part'[s] = 1 /\ client' = client /\ s \in Ends
  BY DEF AskedToReply, GoCopy, Go, TypeOK
<1>2. /\ up'[s] = <<>> /\ Len(up'[s]) = 0 /\ client[s] \notin {"open", "asked"}
      /\ client[s] = "going" => down[s] = <<>>
  BY <1>1, RequestRead
<1>3. RequestsComing(s)'
  <2>1. Rest(s)' \in Nat
    BY <1>1, BoundsAssumption DEF Rest
  <2> QED
    BY <1>1, <1>2, <2>1 DEF RequestsComing
<1>4. ASSUME client[s] = "going" PROVE down'[s] # <<>> /\ Head(down'[s]).kind \in {"ok", "error"}
  <2>1. PICK msgs \in {<<Msg("error"), Msg("ok")>>, <<Msg("ok")>>} : Sends(s, msgs)
    BY DEF AskedToReply
  <2>2. msgs \in Seq(Message) /\ msgs # <<>> /\ Head(msgs).kind \in {"ok", "error"}
    <3>1. Msg("error") \in Message /\ Msg("ok") \in Message
      BY MessageTypes DEF Kinds
    <3>2. Msg("error").kind = "error" /\ Msg("ok").kind = "ok"
      BY DEF Msg
    <3>3. CASE msgs = <<Msg("error"), Msg("ok")>>
      BY <3>1, <3>2, <3>3
    <3>4. CASE msgs = <<Msg("ok")>>
      BY <3>1, <3>2, <3>4
    <3> QED
      BY <3>3, <3>4
  <2>3. down'[s] = down[s] \o msgs
    BY <1>1, <1>4, <2>1, <2>2, Sending
  <2>4. down'[s] = msgs
    BY <1>2, <1>4, <2>2, <2>3, ConcatEmptySeq
  <2> QED
    BY <2>2, <2>4
<1> QED
  BY <1>1, <1>2, <1>3, <1>4 DEF ShellLink

LEMMA WaitInStep ==
  ASSUME TypeOK, NEW s \in Shells, ShellLink(s), Wait(s)
  PROVE  ShellLink(s)'
<1>1. /\ child[s] = "wait" /\ up' = up /\ client' = client /\ s \in Ends
      /\ client[s] \notin {"open", "going"}
      /\ client[s] = "asked" => up[s] = <<>> /\ down[s] = <<>>
  BY DEF Wait, ShellLink, DownloadAnswer
<1>2. PICK kind \in {"ok", "error"} :
        /\ Sends(s, <<Msg(kind)>>)
        /\ IF kind = "ok" THEN child'[s] = "give" /\ part'[s] = 1 ELSE child'[s] = "end"
  BY DEF Wait, GoCopy, Go, TypeOK
<1>3. <<Msg(kind)>> \in Seq(Message) /\ Msg(kind).kind = kind
  BY MessageTypes DEF Kinds, Msg
<1>4. client[s] # "left" => down'[s] = down[s] \o <<Msg(kind)>>
  BY <1>1, <1>2, <1>3, Sending
<1>5. client[s] = "asked" =>
        down'[s] # <<>> /\ Head(down'[s]).kind = kind /\ Len(down'[s]) = 1
  BY <1>1, <1>3, <1>4
<1>6. RequestsComing(s)'
  BY <1>1, <1>2 DEF ShellLink, RequestsComing
<1>7. client[s] = "asked" => DownloadAnswer(s)'
  BY <1>1, <1>2, <1>5 DEF DownloadAnswer
<1> QED
  BY <1>1, <1>6, <1>7 DEF ShellLink

(* The other steps of the child leave both queues alone. *)
LEMMA ShellChildInStep ==
  ASSUME TypeOK, NEW s \in Shells, ShellLink(s), ShellChild(s)
  PROVE  ShellLink(s)'
<1>1. ASSUME StartShell(s) \/ Sent(s)
      PROVE  ShellLink(s)'
  <2>1. /\ UNCHANGED <<client, up, down, part>> /\ child'[s] = "recv"
        /\ child[s] \in {"start", "gave"}
    BY <1>1 DEF StartShell, Sent, Go, TypeOK
  <2>2. RequestsComing(s)'
    BY <2>1 DEF ShellLink, RequestsComing
  <2>3. ASSUME client[s] = "asked", DownloadAnswer(s) PROVE DownloadAnswer(s)'
    BY <2>1, <2>3 DEF DownloadAnswer
  <2> QED
    BY <2>1, <2>2, <2>3 DEF ShellLink
<1>2. ASSUME Left(s) \/ Await(s) \/ EndShell(s) \/ Break(s)
      PROVE  ShellLink(s)'
  <2>1. /\ UNCHANGED <<client, up, down>>
        /\ \/ child[s] \in {"took", "await"} /\ child'[s] \in {"await", "end"}
           \/ child[s] = "end" /\ child'[s] = "none"
           \/ client[s] = "left" /\ child'[s] = "end"
    BY <1>2 DEF Left, Await, EndShell, Break, Go, TypeOK
  <2>2. RequestsComing(s)'
    BY <2>1 DEF RequestsComing
  <2>3. /\ client[s] \notin {"open", "going"}
        /\ client[s] = "asked" =>
             DownloadAnswer(s) /\ child[s] = "end" /\ child'[s] = "none"
    BY <2>1 DEF ShellLink, DownloadAnswer
  <2>4. client[s] = "asked" => DownloadAnswer(s)'
    BY <2>1, <2>3 DEF DownloadAnswer
  <2> QED
    BY <2>1, <2>2, <2>3, <2>4 DEF ShellLink
<1> QED
  BY <1>1, <1>2, ShellTakeInStep, ShellGiveInStep, AskedToSendInStep, AskedToReplyInStep,
     WaitInStep DEF ShellChild

LEMMA DownloadInStep ==
  ASSUME TypeOK, NEW s \in Shells, ShellLink(s), Download(s) \/ NoParameters(s)
  PROVE  ShellLink(s)'
<1>1. /\ client[s] = "asked" /\ down[s] # <<>>
      /\ child' = child /\ part' = part /\ up' = up /\ s \in Ends
  BY DEF Download, NoParameters, Answered, server
<1>2. RequestsComing(s)' /\ DownloadAnswer(s)
  BY <1>1 DEF ShellLink, RequestsComing, Rest
<1>3. CASE Download(s)
  <2>1. /\ Head(down[s]).kind = "ok" /\ Len(down[s]) > Parts /\ client'[s] = "open"
        /\ down'[s] = SubSeq(down[s], Parts + 2, Len(down[s]))
    BY <1>3 DEF Download, Answered, TypeOK
  <2>2. part[s] \in 1..Parts /\ Parts \in Nat /\ Len(down[s]) \in Nat
    BY <1>1, Typed
  <2>3. up[s] = <<>> /\ child[s] \in {"gave", "recv"} /\ Len(down[s]) = Parts + 1
    BY <1>1, <1>2, <2>1, <2>2 DEF DownloadAnswer
  <2>4. SubSeq(down[s], Parts + 2, Parts + 1) = <<>>
    BY <2>2, SubSeqEmpty
  <2>5. down'[s] = <<>>
    BY <2>1, <2>3, <2>4
  <2> QED
    BY <1>1, <1>2, <2>1, <2>3, <2>5 DEF ShellLink
<1>4. CASE NoParameters(s)
  BY <1>2, <1>4 DEF NoParameters, ShellLink, TypeOK
<1> QED
  BY <1>3, <1>4

LEMMA ReplyInStep ==
  ASSUME TypeOK, NEW s \in Shells, ShellLink(s), Reply(s)
  PROVE  ShellLink(s)'
<1>1. /\ client[s] = "open" /\ client'[s] = "going" /\ down' = down /\ child' = child
      /\ up'[s] = Append(up[s], Msg("reply"))
  BY DEF Reply, server, TypeOK
<1>2. child[s] \in {"gave", "recv"} /\ down[s] = <<>> /\ up[s] = <<>>
  BY <1>1 DEF ShellLink
<1>3. up'[s] = <<Msg("reply")>> /\ Msg("reply").kind = "reply"
  BY <1>1, <1>2 DEF Msg
<1>4. RequestsComing(s)'
  BY <1>1, <1>2, <1>3 DEF RequestsComing
<1> QED
  BY <1>1, <1>2, <1>3, <1>4 DEF ShellLink

LEMMA ConnectShellInStep ==
  ASSUME TypeOK, NEW s \in Shells, ConnectShell(s)
  PROVE  ShellLink(s)'
<1>1. /\ client'[s] = "asked" /\ up'[s] = <<Msg("send")>> /\ down'[s] = <<>>
      /\ child'[s] = "start" /\ Msg("send").kind = "send"
  BY DEF ConnectShell, Connect, Go, TypeOK, Msg
<1>2. RequestsComing(s)'
  BY <1>1 DEF RequestsComing
<1> QED
  BY <1>1, <1>2 DEF ShellLink

(* A shell that uploads, or is stopped while it does, leaves its pieces to *)
(* a child that waits for them.                                            *)
LEMMA UploadComing ==
  ASSUME TypeOK, NEW s \in Shells, ShellLink(s), client[s] = "going", down[s] # <<>>,
         NEW n \in 0..Parts, up'[s] = up[s] \o SubSeq(InPieces(held[s]), 1, n),
         UNCHANGED <<child, part>>
  PROVE  RequestsComing(s)'
<1>1. child[s] = "take" /\ part[s] = 1 /\ up[s] = <<>>
  BY DEF ShellLink
<1>2. held[s] \in Parameters
  BY DEF TypeOK
<1>3. Len(up'[s]) = n /\ \A i \in 1..n : up'[s][i].kind = "part"
  BY <1>1, <1>2, PiecesAdded
<1>4. Rest(s)' = Parts /\ Parts \in Nat /\ n <= Parts
  BY <1>1, BoundsAssumption DEF Rest
<1> QED
  BY <1>1, <1>3, <1>4 DEF RequestsComing

LEMMA UploadInStep ==
  ASSUME TypeOK, NEW s \in Shells, ShellLink(s), Upload(s)
  PROVE  ShellLink(s)'
<1>1. /\ client[s] = "going" /\ down[s] # <<>> /\ client'[s] = "left" /\ s \in Ends
      /\ child' = child /\ part' = part
  BY DEF Upload, server, TypeOK
<1>2. held[s] \in Parameters /\ Parts \in Nat
  BY BoundsAssumption DEF TypeOK
<1>3. SubSeq(InPieces(held[s]), 1, Parts) = InPieces(held[s])
  <2>1. InPieces(held[s]) \in Seq(Message) /\ Len(InPieces(held[s])) = Parts
    BY <1>2, MessageTypes, PiecesLength
  <2> QED
    BY <2>1, SubSeqFull
<1>4. CASE Head(down[s]).kind = "ok"
  <2>1. up'[s] = up[s] \o InPieces(held[s])
    BY <1>1, <1>4 DEF Upload, TypeOK
  <2>2. up'[s] = up[s] \o SubSeq(InPieces(held[s]), 1, Parts)
    BY <1>3, <2>1, Zenon
  <2>3. Parts \in 0..Parts
    BY <1>2
  <2>4. UNCHANGED <<child, part>>
    BY <1>1
  <2>5. RequestsComing(s)'
    BY <1>1, <2>2, <2>3, <2>4, UploadComing
  <2> QED
    BY <1>1, <2>5 DEF ShellLink
<1>5. CASE Head(down[s]).kind # "ok"
  <2>1. up' = up
    BY <1>5 DEF Upload
  <2> QED
    BY <1>1, <2>1 DEF ShellLink, RequestsComing, Rest
<1> QED
  BY <1>4, <1>5

LEMMA ShellLeaveInStep ==
  ASSUME TypeOK, NEW s \in Shells, ShellLink(s), Leave(s)
  PROVE  ShellLink(s)'
<1>1. /\ client'[s] = "left" /\ child' = child /\ part' = part /\ s \in Ends
      /\ s \notin Programs
  BY EndsAssumption DEF Leave, server, TypeOK
<1>2. PICK n \in 0..Len(Outgoing(s)) : up'[s] = up[s] \o SubSeq(Outgoing(s), 1, n)
  BY <1>1 DEF Leave, TypeOK
<1>3. up[s] \in Seq(Message) /\ held[s] \in Parameters
  BY <1>1 DEF TypeOK
<1>4. CASE client[s] = "going" /\ down[s] # <<>> /\ Head(down[s]).kind = "ok"
  <2>1. Outgoing(s) = InPieces(held[s])
    BY <1>1, <1>4 DEF Outgoing
  <2>2. n \in 0..Parts
    BY <1>3, <2>1, PiecesLength
  <2>3. up'[s] = up[s] \o SubSeq(InPieces(held[s]), 1, n)
    BY <1>2, <2>1, Zenon
  <2>4. UNCHANGED <<child, part>>
    BY <1>1
  <2>5. RequestsComing(s)'
    BY <1>4, <2>2, <2>3, <2>4, UploadComing
  <2> QED
    BY <1>1, <2>5 DEF ShellLink
<1>5. CASE ~(client[s] = "going" /\ down[s] # <<>> /\ Head(down[s]).kind = "ok")
  <2>1. Outgoing(s) = <<>>
    BY <1>1, <1>5 DEF Outgoing
  <2>2. n = 0
    BY <1>2, <2>1, EmptySeq
  <2>3. SubSeq(Outgoing(s), 1, n) = <<>>
    BY <2>2, SubSeqEmpty
  <2>4. up'[s] = up[s]
    BY <1>2, <1>3, <2>3, ConcatEmptySeq
  <2> QED
    BY <1>1, <2>4 DEF ShellLink, RequestsComing, Rest
<1> QED
  BY <1>4, <1>5

LEMMA ShellInStep ==
  ASSUME TypeOK, NEW s \in Shells, ShellLink(s),
         ShellChild(s) \/ Shell(s) \/ ConnectShell(s) \/ Reply(s) \/ Leave(s)
  PROVE  ShellLink(s)'
  BY ShellChildInStep, DownloadInStep, UploadInStep, ReplyInStep, ConnectShellInStep,
     ShellLeaveInStep
  DEF Shell

(* A step of one connection leaves the others as they are. *)
LEMMA OthersChild ==
  ASSUME TypeOK, NEW d \in Ends, NEW e \in Ends \ {d},
         (d \in Programs /\ ProgramChild(d)) \/ (d \in Shells /\ ShellChild(d))
  PROVE  /\ child'[e] = child[e] /\ part'[e] = part[e] /\ client'[e] = client[e]
         /\ up'[e] = up[e] /\ down'[e] = down[e]
<1> USE DEF Go, GoCopy, memory, server, TypeOK, Sends, Received
<1>1. CASE Take(d) \/ Give(d) \/ Break(d)
  BY <1>1 DEF Take, Give, Break
<1>2. CASE d \in Programs /\ ProgramChild(d) /\ ~(Take(d) \/ Give(d) \/ Break(d))
  BY <1>2 DEF ProgramChild, StartProgram, AnswerPoll, Stored, Replied, EndProgram
<1>3. CASE d \in Shells /\ ShellChild(d) /\ ~(Take(d) \/ Give(d) \/ Break(d))
  <2>1. CASE StartShell(d) \/ AskedToSend(d) \/ Wait(d) \/ Sent(d)
    BY <2>1 DEF StartShell, AskedToSend, Wait, Sent
  <2>2. CASE AskedToReply(d) \/ Left(d) \/ Await(d) \/ EndShell(d)
    BY <2>2 DEF AskedToReply, Left, Await, EndShell
  <2> QED
    BY <1>3, <2>1, <2>2 DEF ShellChild
<1> QED
  BY <1>1, <1>2, <1>3

LEMMA OthersClient ==
  ASSUME TypeOK, NEW d \in Ends, NEW e \in Ends \ {d},
         \/ d \in Programs /\ (Program(d) \/ ConnectProgram(d))
         \/ d \in Shells /\ (Shell(d) \/ ConnectShell(d) \/ Reply(d))
         \/ Leave(d)
  PROVE  /\ child'[e] = child[e] /\ part'[e] = part[e] /\ client'[e] = client[e]
         /\ up'[e] = up[e] /\ down'[e] = down[e]
<1> USE DEF Go, memory, server, TypeOK
<1>1. CASE Leave(d)
  BY <1>1 DEF Leave
<1>2. CASE d \in Programs /\ (Program(d) \/ ConnectProgram(d))
  BY <1>2 DEF Program, Responds, Poll, Ignored, SendParams, Apply, ConnectProgram, Connect
<1>3. CASE d \in Shells /\ (Shell(d) \/ ConnectShell(d) \/ Reply(d))
  BY <1>3 DEF Shell, Download, NoParameters, Upload, ConnectShell, Connect, Reply
<1> QED
  BY <1>1, <1>2, <1>3

(* A link depends on nothing but its own connection. *)
LEMMA LinkAlone ==
  ASSUME NEW e \in Ends, child'[e] = child[e], part'[e] = part[e], client'[e] = client[e],
         up'[e] = up[e], down'[e] = down[e]
  PROVE  (ProgramLink(e) => ProgramLink(e)') /\ (ShellLink(e) => ShellLink(e)')
  BY DEF ProgramLink, PollsComing, PollAnswer, ShellLink, RequestsComing, DownloadAnswer, Rest

LEMMA LinkInit == Init => LinkInv
<1> SUFFICES ASSUME Init PROVE LinkInv
  OBVIOUS
<1>1. ASSUME NEW e \in Ends
      PROVE  child[e] = "none" /\ client[e] = "away"
  BY DEF Init
<1> QED
  BY <1>1 DEF LinkInv, ProgramLink, PollsComing, ShellLink, RequestsComing

LEMMA LinkStep == TypeOK /\ LinkInv /\ [Next]_vars => LinkInv'
<1> SUFFICES ASSUME TypeOK, LinkInv, [Next]_vars PROVE LinkInv'
  OBVIOUS
<1>1. ASSUME NEW d \in Programs, ProgramChild(d) \/ Program(d) \/ ConnectProgram(d) \/ Leave(d)
      PROVE  LinkInv'
  <2>1. ProgramLink(d)'
    BY <1>1, ProgramInStep DEF LinkInv
  <2>2. ASSUME NEW e \in Ends \ {d}
        PROVE  (ProgramLink(e) => ProgramLink(e)') /\ (ShellLink(e) => ShellLink(e)')
    <3>1. /\ child'[e] = child[e] /\ part'[e] = part[e] /\ client'[e] = client[e]
          /\ up'[e] = up[e] /\ down'[e] = down[e]
      BY <1>1, OthersChild, OthersClient
    <3> QED
      BY <3>1, LinkAlone
  <2> QED
    BY <2>1, <2>2, EndsAssumption DEF LinkInv
<1>2. ASSUME NEW d \in Shells,
             ShellChild(d) \/ Shell(d) \/ ConnectShell(d) \/ Reply(d) \/ Leave(d)
      PROVE  LinkInv'
  <2>1. ShellLink(d)'
    BY <1>2, ShellInStep DEF LinkInv
  <2>2. ASSUME NEW e \in Ends \ {d}
        PROVE  (ProgramLink(e) => ProgramLink(e)') /\ (ShellLink(e) => ShellLink(e)')
    <3>1. /\ child'[e] = child[e] /\ part'[e] = part[e] /\ client'[e] = client[e]
          /\ up'[e] = up[e] /\ down'[e] = down[e]
      BY <1>2, OthersChild, OthersClient
    <3> QED
      BY <3>1, LinkAlone
  <2> QED
    BY <2>1, <2>2, EndsAssumption DEF LinkInv
<1>3. CASE UNCHANGED vars
  <2>1. UNCHANGED <<child, part, client, up, down>>
    BY <1>3 DEF vars
  <2>2. \A e \in Ends : (ProgramLink(e) => ProgramLink(e)') /\ (ShellLink(e) => ShellLink(e)')
    BY <2>1, LinkAlone
  <2> QED
    BY <2>2 DEF LinkInv
<1> QED
  BY <1>1, <1>2, <1>3 DEF Next

LEMMA LinkSuffices == TypeOK /\ LinkInv => InStep
<1> SUFFICES ASSUME TypeOK, LinkInv PROVE InStep
  OBVIOUS
<1>1. ASSUME NEW e \in Ends, up[e] # <<>>
      PROVE  1 \in 1..Len(up[e]) /\ Head(up[e]) = up[e][1]
  <2>1. up[e] \in Seq(Message)
    BY Typed
  <2> QED
    BY <1>1, <2>1, OnlyOne
<1>2. ASSUME NEW c \in Programs
      PROVE  /\ child[c] = "recv" /\ up[c] # <<>> => Head(up[c]).kind = "poll"
             /\ client[c] = "busy" => down[c] = <<>>
             /\ client[c] = "asked" /\ down[c] # <<>> =>
                  Head(down[c]).kind \in {"ignore", "send", "reply"}
             /\ child[c] = "take" /\ up[c] # <<>> => Head(up[c]).kind = "part"
  <2>1. ProgramLink(c) /\ c \in Ends
    BY DEF LinkInv
  <2>2. child[c] \in {"recv", "take"} =>
          \A i \in 1..Len(up[c]) : up[c][i].kind = IF i <= Rest(c) THEN "part" ELSE "poll"
    BY <2>1 DEF ProgramLink, PollsComing
  <2>3. child[c] = "recv" => Rest(c) = 0
    BY DEF Rest
  <2>4. child[c] = "take" => Rest(c) \in Nat /\ Rest(c) > 0
    BY <2>1, Typed
  <2>5. child[c] = "recv" /\ up[c] # <<>> => Head(up[c]).kind = "poll"
    BY <1>1, <2>1, <2>2, <2>3
  <2>6. child[c] = "take" /\ up[c] # <<>> => Head(up[c]).kind = "part"
    BY <1>1, <2>1, <2>2, <2>4
  <2> QED
    BY <2>1, <2>5, <2>6 DEF ProgramLink, PollAnswer
<1>3. ASSUME NEW s \in Shells
      PROVE  /\ child[s] = "recv" /\ up[s] # <<>> => Head(up[s]).kind \in {"send", "reply"}
             /\ client[s] = "open" => down[s] = <<>>
             /\ client[s] \in {"asked", "going"} /\ down[s] # <<>> =>
                  Head(down[s]).kind \in {"ok", "error"}
             /\ child[s] = "take" /\ up[s] # <<>> => Head(up[s]).kind = "part"
  <2>1. ShellLink(s) /\ s \in Ends
    BY DEF LinkInv
  <2>2. child[s] = "recv" /\ up[s] # <<>> => Head(up[s]).kind \in {"send", "reply"}
    BY <1>1, <2>1 DEF ShellLink, RequestsComing
  <2>3. child[s] = "take" /\ up[s] # <<>> => Head(up[s]).kind = "part"
    BY <1>1, <2>1 DEF ShellLink, RequestsComing
  <2> QED
    BY <2>1, <2>2, <2>3 DEF ShellLink, DownloadAnswer
<1> QED
  BY <1>2, <1>3 DEF InStep, Ends

(* Whatever the other children do to the shared memory, and wherever a     *)
(* program or a shell is stopped, both ends of every connection agree on   *)
(* what comes next: no piece of the parameters is taken for a request or   *)
(* an answer, and none is left behind.                                     *)
THEOREM InStepCorrect == Spec => []InStep
<1>1. Spec => [](TypeOK /\ LinkInv)
  BY TypeInit, TypeStep, LinkInit, LinkStep, PTL DEF Spec
<1> QED
  BY <1>1, LinkSuffices, PTL

(***************************************************************************)
(* Whole and AppliedOnce, from SessionInv: with one shell at a time only   *)
(* one poll is under way, and the buffer is never used by two children at  *)
(* once, so what is in it is what one of them has put there.               *)
(***************************************************************************)
Pair(c, s) == Prompt /\ c \in Programs /\ Shells = {s}

Together(c, s) ==
  /\ ProgramPlace(c) /\ Stores(c) /\ ShellPlace(s) /\ Holds(s)
  /\ Apart(c, s) /\ Returns(c, s)

Before(c, s) ==
  /\ Pair(c, s) /\ TypeOK /\ ProgramLink(c) /\ ShellLink(s) /\ Together(c, s)

LEMMA Both ==
  ASSUME NEW c, NEW s, Before(c, s)
  PROVE  c # s /\ c \in Programs /\ s \in Shells /\ c \in Ends /\ s \in Ends
  BY EndsAssumption DEF Before, Pair

(* A step that leaves the connection of the shell alone, and nothing new in *)
(* the buffer.                                                              *)
LEMMA HoldsOn ==
  ASSUME NEW c, NEW s, Before(c, s),
         child'[s] = child[s], part'[s] = part[s], up'[s] = up[s], down'[s] = down[s],
         client'[s] = client[s], held' = held, buffer' = buffer, rsstate' = rsstate,
         cpstate' = 2 => cpstate = 2 \/ Uniform(buffer)
  PROVE  Holds(s)'
<1>1. Holds(s)
  BY DEF Before, Together
<1>2. Uniform(held[s])' /\ (cpstate = 2 => Uniform(buffer))'
  BY <1>1 DEF Holds, Uniform
<1>3. (Answering(s) => Uniform(buffer) /\ Carries(down[s], buffer))'
  BY <1>1 DEF Holds, Uniform, Answering, Carries
<1>4. (client[s] \in {"open", "going"} \/ child[s] \in {"take", "took"} \/ rsstate = 2
         => buffer = held[s])'
  BY <1>1 DEF Holds
<1>5. (child[s] \in {"start", "gave", "recv"} /\ up[s] # <<>> /\ Head(up[s]).kind = "reply"
         => buffer = held[s])'
  BY <1>1 DEF Holds
<1>6. (child[s] = "take" => Brings(s, held[s]))'
  BY <1>1 DEF Holds, Brings
<1> QED
  BY <1>2, <1>3, <1>4, <1>5, <1>6 DEF Holds

LEMMA StartProgramTogether ==
  ASSUME NEW c, NEW s, Before(c, s), StartProgram(c)
  PROVE  Together(c, s)'
<1>1. /\ c # s /\ child[c] = "start" /\ child'[c] = "recv" /\ child'[s] = child[s] /\ cpstate' = 1
      /\ UNCHANGED <<rsstate, buffer, part, client, up, down, params, held>>
  BY Both DEF StartProgram, Go, Before, TypeOK
<1>2. ProgramPlace(c)'
  BY <1>1 DEF ProgramPlace
<1>3. up[c] = <<>> /\ ~Replying(c)
  BY <1>1, Both, OnlyOne, Typed DEF Before, Together, ProgramPlace, ProgramLink, PollAnswer, Rest, Replying
<1>4. Stores(c)'
  BY <1>1 DEF Before, Together, Stores
<1>5. ShellPlace(s)'
  BY <1>1 DEF Before, Together, ShellPlace
<1>6. Holds(s)'
  BY <1>1, HoldsOn
<1>7. Apart(c, s)' /\ Returns(c, s)'
  BY <1>1, <1>3 DEF Apart, Returns, Replying, PollComing
<1> QED
  BY <1>2, <1>4, <1>5, <1>6, <1>7 DEF Together

LEMMA EndProgramTogether ==
  ASSUME NEW c, NEW s, Before(c, s), EndProgram(c)
  PROVE  Together(c, s)'
<1>1. /\ c # s /\ child[c] = "end" /\ child'[c] = "none" /\ child'[s] = child[s] /\ cpstate' = 0
      /\ UNCHANGED <<rsstate, buffer, part, client, up, down, params, held>>
  BY Both DEF EndProgram, Go, Before, TypeOK
<1>2. ProgramPlace(c)'
  BY <1>1 DEF ProgramPlace
<1>3. ~Replying(c)
  BY <1>1, Both DEF Before, ProgramLink, Replying
<1>4. Stores(c)'
  BY <1>1 DEF Before, Together, Stores
<1>5. ShellPlace(s)'
  BY <1>1 DEF Before, Together, ShellPlace
<1>6. Holds(s)'
  BY <1>1, HoldsOn
<1>7. Apart(c, s)' /\ Returns(c, s)'
  BY <1>1, <1>3 DEF Apart, Returns, Replying, PollComing
<1> QED
  BY <1>2, <1>4, <1>5, <1>6, <1>7 DEF Together

LEMMA BreakProgramTogether ==
  ASSUME NEW c, NEW s, Before(c, s), Break(c)
  PROVE  Together(c, s)'
<1>1. /\ c # s /\ client[c] = "left" /\ child'[c] = "end" /\ child'[s] = child[s]
      /\ UNCHANGED <<cpstate, rsstate, buffer, part, client, up, down, params, held>>
  BY Both DEF Break, Go, Before, TypeOK, memory
<1>2. ProgramPlace(c)'
  BY <1>1 DEF ProgramPlace
<1>3. ~Replying(c)
  BY <1>1 DEF Replying
<1>4. Stores(c)'
  BY <1>1 DEF Before, Together, Stores
<1>5. ShellPlace(s)'
  BY <1>1 DEF Before, Together, ShellPlace
<1>6. Holds(s)'
  BY <1>1, HoldsOn
<1>7. Apart(c, s)' /\ Returns(c, s)'
  BY <1>1, <1>3 DEF Apart, Returns, Replying, PollComing
<1> QED
  BY <1>2, <1>4, <1>5, <1>6, <1>7 DEF Together

LEMMA StoredTogether ==
  ASSUME NEW c, NEW s, Before(c, s), Stored(c)
  PROVE  Together(c, s)'
<1>1. /\ c # s /\ child[c] = "took" /\ child'[c] = "recv" /\ child'[s] = child[s] /\ cpstate' = 2
      /\ UNCHANGED <<rsstate, buffer, part, client, up, down, params, held>>
  BY Both DEF Stored, Go, Before, TypeOK
<1>2. ProgramPlace(c)'
  BY <1>1 DEF ProgramPlace
<1>3. up[c] = <<>> /\ ~Replying(c)
  BY <1>1, Both, OnlyOne, Typed DEF Before, Together, ProgramPlace, ProgramLink, PollAnswer, Rest, Replying
<1>4. Stores(c)'
  BY <1>1 DEF Before, Together, Stores
<1>5. ShellPlace(s)'
  BY <1>1 DEF Before, Together, ShellPlace
<1>6. Uniform(buffer)
  BY <1>1 DEF Before, Together, Stores, Uniform
<1>7. Holds(s)'
  BY <1>1, <1>6, HoldsOn
<1>8. Apart(c, s)' /\ Returns(c, s)'
  BY <1>1, <1>3 DEF Apart, Returns, Replying, PollComing
<1> QED
  BY <1>2, <1>4, <1>5, <1>7, <1>8 DEF Together

LEMMA RepliedTogether ==
  ASSUME NEW c, NEW s, Before(c, s), Replied(c)
  PROVE  Together(c, s)'
<1>1. /\ c # s /\ child[c] = "gave" /\ child'[c] = "recv" /\ child'[s] = child[s] /\ cpstate' = 1
      /\ UNCHANGED <<rsstate, buffer, part, client, up, down, params, held>>
  BY Both DEF Replied, Go, Before, TypeOK
<1>2. ProgramPlace(c)'
  BY <1>1 DEF ProgramPlace
<1>3. up[c] = <<>> /\ child[s] \in {"await", "end", "none"}
  BY <1>1, Both, OnlyOne, Typed DEF Before, Together, ProgramPlace, Rest, Apart
<1>4. Stores(c)'
  BY <1>1 DEF Before, Together, Stores
<1>5. ShellPlace(s)'
  BY <1>1 DEF Before, Together, ShellPlace
<1>6. Holds(s)'
  BY <1>1, HoldsOn
<1>7. Apart(c, s)' /\ Returns(c, s)'
  BY <1>1, <1>3 DEF Before, Together, Apart, Returns, Replying, PollComing, Carries
<1> QED
  BY <1>2, <1>4, <1>5, <1>6, <1>7 DEF Together

(* A poll is read: what is answered to it, and what the shell's child is at. *)
LEMMA PollRead ==
  ASSUME NEW c, NEW s, Before(c, s), AnswerPoll(c)
  PROVE  /\ child'[s] = child[s] /\ part'[s] = part[s] /\ up'[s] = up[s] /\ down'[s] = down[s]
         /\ UNCHANGED <<cpstate, rsstate, buffer, client, params, held>>
         /\ up'[c] = <<>> /\ Len(up'[c]) = 0 /\ PollComing(c) /\ child[c] = "recv"
         /\ \/ child'[c] = "recv"
            \/ child'[c] = "take" /\ part'[c] = 1 /\ child[s] \in {"wait", "end"} /\ rsstate = 1 /\ cpstate # 2
            \/ child'[c] = "give" /\ part'[c] = 1 /\ child[s] \in {"await", "end"} /\ rsstate = 2
         /\ Replying(c)' => child'[c] = "give" /\ Len(down'[c]) = 1
<1>0. /\ c # s /\ c \in Programs /\ c \in Ends /\ s \in Ends /\ TypeOK
  BY Both DEF Before
<1>1. /\ child[c] = "recv" /\ up[c] # <<>> /\ Received(c)
      /\ child'[s] = child[s] /\ part'[s] = part[s] /\ up'[s] = up[s] /\ down'[s] = down[s]
      /\ UNCHANGED <<cpstate, rsstate, buffer, client, params, held>>
  <2>1. ProgramChild(c)
    BY DEF ProgramChild
  <2>2. child'[s] = child[s] /\ part'[s] = part[s] /\ up'[s] = up[s] /\ down'[s] = down[s]
    BY <1>0, <2>1, OthersChild
  <2> QED
    BY <2>2 DEF AnswerPoll, Comes, memory
<1>2. PollComing(c)
  BY <1>1 DEF PollComing
<1>3. Len(up[c]) <= 1 /\ Len(up[c]) \in Nat
  BY <1>0, <1>1, Typed DEF Before, ProgramLink, PollsComing, Rest
<1>4. up'[c] = <<>> /\ Len(up'[c]) = 0
  BY <1>0, <1>1, <1>3, Receiving, OnlyOne
<1>5. PICK kind \in {"ignore", "send", "reply"} :
        /\ Sends(c, <<Msg(kind)>>)
        /\ CASE kind = "ignore" -> rsstate = 0 /\ child'[c] = "recv"
             [] kind = "send" -> rsstate = 1 /\ child'[c] = "take" /\ part'[c] = 1
             [] OTHER -> rsstate = 2 /\ child'[c] = "give" /\ part'[c] = 1
  BY <1>0, <1>1 DEF AnswerPoll, GoCopy, Go, TypeOK
<1>6. <<Msg(kind)>> \in Seq(Message) /\ Msg(kind).kind = kind /\ Len(<<Msg(kind)>>) = 1
  BY MessageTypes DEF Kinds, Msg
<1>7. client[c] = "asked" => down[c] = <<>>
  BY <1>1 DEF Before, ProgramLink, PollAnswer
<1>8. client[c] = "asked" =>
        down'[c] # <<>> /\ Head(down'[c]).kind = kind /\ Len(down'[c]) = 1
  <2>1. client[c] = "asked" => down'[c] = down[c] \o <<Msg(kind)>>
    BY <1>0, <1>5, <1>6, Sending
  <2>2. <<>> \o <<Msg(kind)>> = <<Msg(kind)>>
    BY <1>6, ConcatEmptySeq
  <2> QED
    BY <1>6, <1>7, <2>1, <2>2
<1>9. /\ kind = "send" => child[s] \in {"wait", "end"} /\ cpstate # 2
      /\ kind = "reply" => child[s] \in {"await", "end"}
  BY <1>2, <1>5 DEF Before, Together, Apart, ShellPlace
<1>10. Replying(c)' => kind = "reply" /\ Len(down'[c]) = 1
  BY <1>1, <1>8 DEF Replying
<1> QED
  BY <1>1, <1>2, <1>4, <1>5, <1>9, <1>10

LEMMA AnswerPollTogether ==
  ASSUME NEW c, NEW s, Before(c, s), AnswerPoll(c)
  PROVE  Together(c, s)'
<1>1. /\ child'[s] = child[s] /\ part'[s] = part[s] /\ up'[s] = up[s] /\ down'[s] = down[s]
      /\ UNCHANGED <<cpstate, rsstate, buffer, client, params, held>>
      /\ up'[c] = <<>> /\ Len(up'[c]) = 0 /\ child[c] = "recv"
      /\ \/ child'[c] = "recv"
         \/ child'[c] = "take" /\ part'[c] = 1 /\ child[s] \in {"wait", "end"} /\ rsstate = 1 /\ cpstate # 2
         \/ child'[c] = "give" /\ part'[c] = 1 /\ child[s] \in {"await", "end"} /\ rsstate = 2
      /\ Replying(c)' => child'[c] = "give" /\ Len(down'[c]) = 1
  BY PollRead
<1>2. ProgramPlace(c)'
  <2>1. Rest(c)' \in Nat
    BY <1>1, BoundsAssumption DEF Rest
  <2>2. child'[c] \in {"recv", "take", "give"}
    BY <1>1
  <2> QED
    BY <1>1, <2>1, <2>2 DEF ProgramPlace
<1>3. Stores(c)'
  <2>1. child'[c] = "take" => part'[c] = 1
    BY <1>1
  <2>2. Brings(c, params[c])'
    BY <1>1 DEF Brings
  <2> QED
    BY <1>1, <2>1, <2>2 DEF Before, Together, Stores
<1>4. ShellPlace(s)'
  BY <1>1 DEF Before, Together, ShellPlace
<1>5. Holds(s)'
  BY <1>1, HoldsOn
<1>6. ~PollComing(c)'
  BY <1>1 DEF PollComing
<1>7. Apart(c, s)'
  BY <1>1, <1>6 DEF Apart
<1>8. Returns(c, s)'
  <2>1. /\ child'[c] = "give" => buffer = held[s]
        /\ Replying(c)' => buffer = held[s] /\ Len(down'[c]) = 1
    BY <1>1 DEF Before, Together, Holds
  <2>2. Len(down'[c]) = 1 => Carries(down[c], buffer)'
    BY DEF Carries
  <2> QED
    BY <1>1, <2>1, <2>2 DEF Returns
<1> QED
  BY <1>2, <1>3, <1>4, <1>5, <1>7, <1>8 DEF Together

(* The piece that has come first is written where it belongs. *)
LEMMA PieceStored ==
  ASSUME NEW e \in Ends, TypeOK, NEW p \in Parameters, Take(e), Brings(e, p)
  PROVE  /\ buffer' = [buffer EXCEPT ![part[e]] = p[part[e]]]
         /\ child'[e] = "take" => \A i \in 1..Len(up'[e]) : up'[e][i].value = p[part'[e] + i - 1]
<1>1. /\ up[e] # <<>> /\ Received(e) /\ buffer' = [buffer EXCEPT ![part[e]] = Head(up[e]).value]
      /\ child[e] = "take"
  BY DEF Take, Comes
<1>2. /\ Len(up'[e]) = Len(up[e]) - 1 /\ Len(up[e]) > 0 /\ Len(up[e]) \in Nat
      /\ \A i \in 1..Len(up'[e]) : up'[e][i] = up[e][i + 1]
      /\ Head(up[e]) = up[e][1] /\ part[e] \in 1..Parts /\ Parts \in Nat
  BY <1>1, Receiving, Typed
<1>3. Head(up[e]).value = p[part[e]]
  <2>1. 1 \in 1..Len(up[e])
    BY <1>2
  <2>2. up[e][1].value = p[part[e] + 1 - 1]
    BY <2>1 DEF Brings
  <2>3. part[e] + 1 - 1 = part[e]
    BY <1>2
  <2> QED
    BY <1>2, <2>2, <2>3
<1>4. ASSUME child'[e] = "take", NEW i \in 1..Len(up'[e])
      PROVE  up'[e][i].value = p[part'[e] + i - 1]
  <2>1. part'[e] = part[e] + 1
    BY <1>4, TakesPiece
  <2>2. i + 1 \in 1..Len(up[e]) /\ i \in Int
    BY <1>2
  <2>3. up[e][i + 1].value = p[part[e] + (i + 1) - 1]
    BY <2>2 DEF Brings
  <2>4. part[e] + (i + 1) - 1 = part'[e] + i - 1
    BY <1>2, <2>1, <2>2
  <2> QED
    BY <1>2, <2>3, <2>4
<1> QED
  BY <1>1, <1>3, <1>4

LEMMA TakeProgramTogether ==
  ASSUME NEW c, NEW s, Before(c, s), Take(c)
  PROVE  Together(c, s)'
<1>0. c # s /\ c \in Programs /\ c \in Ends /\ s \in Ends /\ TypeOK
  BY Both DEF Before
<1>1. /\ child[c] = "take" /\ up[c] # <<>> /\ Received(c)
      /\ child'[s] = child[s] /\ part'[s] = part[s] /\ up'[s] = up[s] /\ down'[s] = down[s]
      /\ UNCHANGED <<cpstate, rsstate, client, down, params, held>>
  <2>1. ProgramChild(c)
    BY DEF ProgramChild
  <2>2. child'[s] = child[s] /\ part'[s] = part[s] /\ up'[s] = up[s] /\ down'[s] = down[s]
    BY <1>0, <2>1, OthersChild
  <2> QED
    BY <2>2 DEF Take, Comes
<1>2. child[s] \in {"wait", "end", "none"} /\ rsstate # 2 /\ cpstate # 2
  BY <1>1 DEF Before, Together, Apart
<1>3. /\ Rest(c) > 0 /\ Rest(c)' = Rest(c) - 1 /\ Rest(c) \in Nat
      /\ child'[c] = IF part[c] = Parts THEN "took" ELSE "take"
      /\ part[c] # Parts => part'[c] = part[c] + 1
      /\ part[c] \in 1..Parts /\ Parts \in Nat
  BY <1>0, TakesPiece, Typed
<1>4. ~Replying(c)
  BY <1>1, Both DEF Before, ProgramLink, PollAnswer, Replying
<1>5. ProgramPlace(c)'
  <2>1. Len(up'[c]) = Len(up[c]) - 1 /\ Len(up[c]) \in Nat
    BY <1>0, <1>1, Receiving, Typed
  <2>2. Len(up[c]) <= Rest(c)
    BY <1>1 DEF Before, Together, ProgramPlace
  <2> QED
    BY <1>3, <2>1, <2>2 DEF ProgramPlace
<1>6. params[c] \in Parameters /\ buffer \in Parameters
  BY <1>0 DEF TypeOK
<1>7. /\ buffer' = [buffer EXCEPT ![part[c]] = params[c][part[c]]]
      /\ child'[c] = "take" => Brings(c, params[c])'
  <2>1. Brings(c, params[c])
    BY <1>1 DEF Before, Together, Stores
  <2>2. /\ buffer' = [buffer EXCEPT ![part[c]] = params[c][part[c]]]
        /\ child'[c] = "take" =>
             \A i \in 1..Len(up'[c]) : up'[c][i].value = params[c][part'[c] + i - 1]
    BY <1>0, <1>6, <2>1, PieceStored
  <2> QED
    BY <1>1, <2>2 DEF Brings
<1>8. \A i \in 1..part[c] : buffer'[i] = params[c][i]
  <2>1. \A i \in 1..(part[c] - 1) : buffer[i] = params[c][i]
    BY <1>1 DEF Before, Together, Stores
  <2> QED
    BY <1>3, <1>6, <1>7, <2>1 DEF Parameters
<1>9. Stores(c)'
  <2>1. Uniform(params[c])'
    BY <1>1 DEF Before, Together, Stores, Uniform
  <2>2. CASE part[c] = Parts
    <3>1. buffer' = params[c]
      BY <1>6, <1>7, <1>8, <2>2 DEF Parameters
    <3> QED
      BY <1>1, <1>3, <2>1, <2>2, <3>1 DEF Stores
  <2>3. CASE part[c] # Parts
    <3>1. part'[c] - 1 = part[c]
      BY <1>3, <2>3
    <3> QED
      BY <1>1, <1>3, <1>7, <1>8, <2>1, <2>3, <3>1 DEF Stores
  <2> QED
    BY <2>2, <2>3
<1>10. ShellPlace(s)'
  BY <1>1 DEF Before, Together, ShellPlace
<1>11. Holds(s)'
  <2>1. client[s] \notin {"open", "going"} /\ ~Answering(s)
    BY <1>2 DEF Before, ShellLink, DownloadAnswer, Answering
  <2>2. ~Answering(s)' /\ Uniform(held[s])'
    BY <1>1, <2>1 DEF Before, Together, Holds, Uniform, Answering
  <2> QED
    BY <1>1, <1>2, <2>1, <2>2 DEF Holds
<1>12. child'[c] # "recv" /\ ~Replying(c)'
  BY <1>1, <1>3, <1>4 DEF Replying
<1>13. Apart(c, s)' /\ Returns(c, s)'
  BY <1>1, <1>2, <1>3, <1>12 DEF Apart, Returns, PollComing
<1> QED
  BY <1>5, <1>9, <1>10, <1>11, <1>13 DEF Together

LEMMA OneMore ==
  ASSUME NEW q \in Seq(Message), NEW m \in Message
  PROVE  /\ Len(q \o <<m>>) = Len(q) + 1 /\ (q \o <<m>>)[Len(q) + 1] = m
         /\ \A i \in 1..Len(q) : (q \o <<m>>)[i] = q[i]
<1>1. <<m>> \in Seq(Message) /\ Len(<<m>>) = 1 /\ <<m>>[1] = m
  OBVIOUS
<1> DEFINE one == <<m>>
<1>2. one \in Seq(Message) /\ Len(one) = 1 /\ one[1] = m /\ Len(q) \in Nat
  BY <1>1
<1> HIDE DEF one
<1>3. /\ Len(q \o one) = Len(q) + Len(one)
      /\ \A i \in 1..(Len(q) + Len(one)) :
           (q \o one)[i] = IF i <= Len(q) THEN q[i] ELSE one[i - Len(q)]
  BY <1>2, ConcatProperties
<1>4. (q \o one)[Len(q) + 1] = one[Len(q) + 1 - Len(q)]
  BY <1>2, <1>3
<1>5. Len(q) + 1 - Len(q) = 1
  BY <1>2
<1>6. \A i \in 1..Len(q) : (q \o one)[i] = q[i]
  BY <1>2, <1>3
<1>7. /\ Len(q \o one) = Len(q) + 1 /\ (q \o one)[Len(q) + 1] = m
  BY <1>2, <1>3, <1>4, <1>5
<1> QED
  BY <1>6, <1>7 DEF one

(* What has come of the answer grows by a piece of the buffer. *)
LEMMA PieceCarried ==
  ASSUME NEW e \in Ends, TypeOK, Give(e), client[e] # "left", Len(down[e]) = part[e],
         Carries(down[e], buffer)
  PROVE  Carries(down'[e], buffer)
<1>1. PICK piece \in Message : piece = [kind |-> "part", value |-> buffer[part[e]]]
  BY DEF TypeOK, Parameters, Message, Kinds
<1>2. down'[e] = down[e] \o <<piece>>
  <2>1. Sends(e, <<piece>>)
    BY <1>1 DEF Give
  <2>2. <<piece>> \in Seq(Message)
    OBVIOUS
  <2> QED
    BY <2>1, <2>2, Sending
<1>3. down[e] \in Seq(Message) /\ part[e] \in 1..Parts /\ Parts \in Nat /\ part[e] \in Nat
  BY Typed
<1>4. /\ Len(down'[e]) = part[e] + 1
      /\ \A i \in 1..part[e] : down'[e][i] = down[e][i]
      /\ down'[e][part[e] + 1] = piece
  <2>1. /\ Len(down[e] \o <<piece>>) = Len(down[e]) + 1
        /\ (down[e] \o <<piece>>)[Len(down[e]) + 1] = piece
        /\ \A i \in 1..Len(down[e]) : (down[e] \o <<piece>>)[i] = down[e][i]
    BY <1>3, OneMore
  <2> QED
    BY <1>2, <2>1, Zenon
<1>5. ASSUME NEW i \in 1..part[e] PROVE down'[e][i + 1].value = buffer[i]
  <2>1. CASE i = part[e]
    BY <1>1, <1>4, <2>1
  <2>2. CASE i # part[e]
    <3>1. i \in 1..(Len(down[e]) - 1) /\ i + 1 \in 1..part[e]
      BY <1>3, <2>2
    <3> QED
      BY <1>4, <3>1 DEF Carries
  <2> QED
    BY <2>1, <2>2
<1>6. Len(down'[e]) - 1 = part[e]
  BY <1>3, <1>4
<1> QED
  BY <1>5, <1>6 DEF Carries

LEMMA GiveProgramTogether ==
  ASSUME NEW c, NEW s, Before(c, s), Give(c)
  PROVE  Together(c, s)'
<1>0. c # s /\ c \in Programs /\ c \in Ends /\ s \in Ends /\ TypeOK
  BY Both DEF Before
<1>1. /\ child[c] = "give"
      /\ child'[s] = child[s] /\ part'[s] = part[s] /\ down'[s] = down[s]
      /\ UNCHANGED <<cpstate, rsstate, buffer, client, up, params, held>>
  <2>1. ProgramChild(c)
    BY DEF ProgramChild
  <2>2. child'[s] = child[s] /\ part'[s] = part[s] /\ down'[s] = down[s]
    BY <1>0, <2>1, OthersChild
  <2> QED
    BY <2>2 DEF Give, memory
<1>2. child[s] \in {"await", "end", "none"} /\ buffer = held[s]
  BY <1>1 DEF Before, Together, Apart, Returns
<1>3. child'[c] \in {"give", "gave"} /\ Rest(c) = 0 /\ Rest(c)' = 0
  BY <1>0, GivesPiece
<1>4. ProgramPlace(c)'
  BY <1>1, <1>3 DEF Before, Together, ProgramPlace
<1>5. Stores(c)'
  BY <1>1, <1>3 DEF Before, Together, Stores, Uniform
<1>6. ShellPlace(s)'
  BY <1>1 DEF Before, Together, ShellPlace
<1>7. Holds(s)'
  BY <1>1, HoldsOn
<1>8. Apart(c, s)'
  BY <1>1, <1>2, <1>3 DEF Apart, PollComing
<1>9. ASSUME Replying(c)' PROVE buffer = held[s] /\ Carries(down'[c], buffer)
  <2>1. client[c] = "asked" /\ down[c] # <<>> /\ PollAnswer(c)
    BY <1>1, <1>9 DEF Replying, Before, ProgramLink
  <2>2. Replying(c) /\ Len(down[c]) = part[c]
    BY <1>1, <2>1 DEF Replying, PollAnswer
  <2>3. buffer = held[s] /\ Carries(down[c], buffer)
    BY <2>2 DEF Before, Together, Returns
  <2> QED
    BY <1>0, <2>1, <2>2, <2>3, PieceCarried
<1>10. Returns(c, s)'
  BY <1>1, <1>2, <1>9 DEF Returns, Carries
<1> QED
  BY <1>4, <1>5, <1>6, <1>7, <1>8, <1>10 DEF Together

(***************************************************************************)
(* The steps of the child of the shell.                                    *)
(***************************************************************************)
LEMMA ShellChildAlone ==
  ASSUME NEW c, NEW s, Before(c, s), ShellChild(s)
  PROVE  /\ c # s /\ s \in Shells /\ s \in Ends /\ TypeOK
         /\ child'[c] = child[c] /\ part'[c] = part[c] /\ up'[c] = up[c] /\ down'[c] = down[c]
         /\ client' = client /\ cpstate' = cpstate /\ params' = params /\ held' = held
<1>1. c # s /\ s \in Shells /\ c \in Ends /\ s \in Ends /\ TypeOK
  BY Both DEF Before
<1>2. child'[c] = child[c] /\ part'[c] = part[c] /\ up'[c] = up[c] /\ down'[c] = down[c]
  BY <1>1, OthersChild
<1>3. client' = client /\ cpstate' = cpstate /\ params' = params /\ held' = held
  <2>1. CASE StartShell(s) \/ AskedToSend(s) \/ Wait(s) \/ Give(s) \/ Sent(s)
    BY <2>1 DEF StartShell, AskedToSend, Wait, Give, Sent, memory
  <2>2. CASE AskedToReply(s) \/ Take(s) \/ Left(s) \/ Await(s) \/ Break(s) \/ EndShell(s)
    BY <2>2 DEF AskedToReply, Take, Left, Await, Break, EndShell, memory
  <2> QED
    BY <2>1, <2>2 DEF ShellChild
<1> QED
  BY <1>1, <1>2, <1>3

(* The program's part of the invariant does not see them, but for the buffer. *)
LEMMA ProgramUntouched ==
  ASSUME NEW c, NEW s, Before(c, s), ShellChild(s), UNCHANGED buffer
  PROVE  ProgramPlace(c)' /\ Stores(c)' /\ (Replying(c)' => Replying(c)) /\ Returns(c, s)'
<1>1. /\ child'[c] = child[c] /\ part'[c] = part[c] /\ up'[c] = up[c] /\ down'[c] = down[c]
      /\ client' = client /\ cpstate' = cpstate /\ params' = params /\ held' = held /\ buffer' = buffer
  BY ShellChildAlone
<1>2. ProgramPlace(c)'
  BY <1>1 DEF Before, Together, ProgramPlace, Rest
<1>3. Stores(c)'
  BY <1>1 DEF Before, Together, Stores, Uniform, Brings
<1>4. Replying(c)' => Replying(c)
  BY <1>1 DEF Replying
<1>5. Returns(c, s)'
  BY <1>1, <1>4 DEF Before, Together, Returns, Carries
<1> QED
  BY <1>2, <1>3, <1>4, <1>5

LEMMA ShellMovesTogether ==
  ASSUME NEW c, NEW s, Before(c, s),
         StartShell(s) \/ Sent(s) \/ Left(s) \/ Await(s) \/ EndShell(s) \/ Break(s)
  PROVE  Together(c, s)'
<1>0. ShellChild(s)
  BY DEF ShellChild
<1>1. /\ c # s /\ s \in Shells /\ s \in Ends /\ TypeOK
      /\ child'[c] = child[c] /\ part'[c] = part[c] /\ up'[c] = up[c] /\ down'[c] = down[c]
      /\ client' = client /\ cpstate' = cpstate /\ params' = params /\ held' = held
  BY <1>0, ShellChildAlone
<1>2. /\ UNCHANGED <<buffer, part, up, down>>
      /\ \/ child[s] = "start" /\ rsstate' = 0 /\ child'[s] = "recv"
         \/ child[s] = "gave" /\ rsstate' = 0 /\ child'[s] = "recv"
         \/ child[s] = "took" /\ rsstate' = 2 /\ child'[s] = "await"
         \/ child[s] = "await" /\ rsstate' = rsstate /\ child'[s] = "end" /\ cpstate # 2
         \/ child[s] = "end" /\ rsstate' = 0 /\ child'[s] = "none"
         \/ child[s] \in {"recv", "take", "give"} /\ rsstate' = rsstate /\ child'[s] = "end"
  BY <1>1 DEF StartShell, Sent, Left, Await, EndShell, Break, Go, memory, TypeOK
<1>3. ProgramPlace(c)' /\ Stores(c)' /\ (Replying(c)' => Replying(c)) /\ Returns(c, s)'
  BY <1>0, <1>2, ProgramUntouched
<1>4. ShellPlace(s)'
  BY <1>2 DEF Before, Together, ShellPlace
<1>5. Holds(s)'
  <2>1. Uniform(held[s])' /\ (cpstate = 2 => Uniform(buffer))'
    BY <1>1, <1>2 DEF Before, Together, Holds, Uniform
  <2>2. (Answering(s) => Uniform(buffer) /\ Carries(down[s], buffer))'
    BY <1>1, <1>2 DEF Before, Together, Holds, Uniform, Carries, Answering
  <2>3. child'[s] # "take"
    BY <1>2
  <2>4. (client[s] \in {"open", "going"} \/ child[s] \in {"take", "took"} \/ rsstate = 2
           => buffer = held[s])'
    BY <1>1, <1>2 DEF Before, Together, Holds
  <2>5. (child[s] \in {"start", "gave", "recv"} /\ up[s] # <<>> /\ Head(up[s]).kind = "reply"
           => buffer = held[s])'
    BY <1>1, <1>2 DEF Before, Together, Holds
  <2> QED
    BY <2>1, <2>2, <2>3, <2>4, <2>5 DEF Holds
<1>6. PollComing(c)' <=> PollComing(c)
  BY <1>1 DEF PollComing
<1>7. Apart(c, s)'
  BY <1>1, <1>2, <1>3, <1>6 DEF Before, Together, Apart, ShellPlace
<1> QED
  BY <1>3, <1>4, <1>5, <1>7 DEF Together

LEMMA AskedToSendTogether ==
  ASSUME NEW c, NEW s, Before(c, s), AskedToSend(s)
  PROVE  Together(c, s)'
<1>0. ShellChild(s)
  BY DEF ShellChild
<1>1. /\ c # s /\ s \in Shells /\ s \in Ends /\ TypeOK /\ ShellLink(s)
      /\ child'[c] = child[c] /\ part'[c] = part[c] /\ up'[c] = up[c] /\ down'[c] = down[c]
      /\ client' = client /\ cpstate' = cpstate /\ params' = params /\ held' = held
  BY <1>0, ShellChildAlone DEF Before
<1>2. /\ child[s] = "recv" /\ Comes(s, "send") /\ Received(s) /\ child'[s] = "wait" /\ rsstate' = 1
      /\ UNCHANGED <<buffer, part, down>>
  BY <1>1 DEF AskedToSend, Go, TypeOK
<1>3. ProgramPlace(c)' /\ Stores(c)' /\ (Replying(c)' => Replying(c)) /\ Returns(c, s)'
  BY <1>0, <1>2, ProgramUntouched
<1>4. up'[s] = <<>> /\ client[s] \notin {"open", "going"}
  BY <1>1, <1>2, RequestRead
<1>5. ShellPlace(s)'
  BY <1>2, <1>4 DEF Before, Together, ShellPlace
<1>6. Holds(s)'
  BY <1>1, <1>2, <1>4 DEF Before, Together, Holds, Uniform, Carries, Answering
<1>7. ~PollComing(c) /\ ~Replying(c) /\ child[c] \notin {"take", "took", "give", "gave"}
  BY <1>2 DEF Before, Together, Apart, Comes
<1>8. Apart(c, s)'
  BY <1>1, <1>3, <1>7 DEF Apart, PollComing
<1> QED
  BY <1>3, <1>5, <1>6, <1>8 DEF Together

LEMMA AskedToReplyTogether ==
  ASSUME NEW c, NEW s, Before(c, s), AskedToReply(s)
  PROVE  Together(c, s)'
<1>0. ShellChild(s)
  BY DEF ShellChild
<1>1. /\ c # s /\ s \in Shells /\ s \in Ends /\ TypeOK /\ ShellLink(s)
      /\ child'[c] = child[c] /\ part'[c] = part[c] /\ up'[c] = up[c] /\ down'[c] = down[c]
      /\ client' = client /\ cpstate' = cpstate /\ params' = params /\ held' = held
  BY <1>0, ShellChildAlone DEF Before
<1>2. /\ child[s] = "recv" /\ Comes(s, "reply") /\ Received(s) /\ child'[s] = "take"
      /\ UNCHANGED <<buffer, rsstate>>
  BY <1>1 DEF AskedToReply, Go, GoCopy, memory, TypeOK
<1>3. ProgramPlace(c)' /\ Stores(c)' /\ (Replying(c)' => Replying(c)) /\ Returns(c, s)'
  BY <1>0, <1>2, ProgramUntouched
<1>4. up'[s] = <<>> /\ Len(up'[s]) = 0 /\ client[s] # "asked"
  BY <1>1, <1>2, RequestRead
<1>5. ShellPlace(s)'
  BY <1>2 DEF Before, Together, ShellPlace
<1>6. buffer = held[s]
  BY <1>2 DEF Before, Together, Holds, Comes
<1>7. Holds(s)'
  BY <1>1, <1>2, <1>4, <1>6 DEF Before, Together, Holds, Uniform, Brings, Answering
<1>8. ~PollComing(c) /\ ~Replying(c) /\ child[c] \notin {"take", "took", "give", "gave"}
  BY <1>2 DEF Before, Together, Apart, Comes
<1>9. Apart(c, s)'
  BY <1>1, <1>3, <1>8 DEF Apart, PollComing
<1> QED
  BY <1>3, <1>5, <1>7, <1>9 DEF Together

LEMMA WaitTogether ==
  ASSUME NEW c, NEW s, Before(c, s), Wait(s)
  PROVE  Together(c, s)'
<1>0. ShellChild(s)
  BY DEF ShellChild
<1>1. /\ c # s /\ s \in Shells /\ s \in Ends /\ TypeOK /\ ShellLink(s)
      /\ child'[c] = child[c] /\ part'[c] = part[c] /\ up'[c] = up[c] /\ down'[c] = down[c]
      /\ client' = client /\ cpstate' = cpstate /\ params' = params /\ held' = held
  BY <1>0, ShellChildAlone DEF Before
<1>2. /\ child[s] = "wait" /\ UNCHANGED <<buffer, rsstate, up>>
      /\ \/ cpstate = 2 /\ Sends(s, <<Msg("ok")>>) /\ child'[s] = "give"
         \/ cpstate = 0 /\ Sends(s, <<Msg("error")>>) /\ child'[s] = "end"
  BY <1>1 DEF Wait, Go, GoCopy, memory, TypeOK
<1>3. ProgramPlace(c)' /\ Stores(c)' /\ (Replying(c)' => Replying(c)) /\ Returns(c, s)'
  BY <1>0, <1>2, ProgramUntouched
<1>4. up[s] = <<>>
  BY <1>2 DEF Before, Together, ShellPlace
<1>5. ShellPlace(s)'
  BY <1>2, <1>4 DEF Before, Together, ShellPlace
<1>6. Answering(s)' => Uniform(buffer) /\ Len(down'[s]) = 1
  <2>1. client[s] = "asked" => down[s] = <<>>
    BY <1>1, <1>2 DEF ShellLink, DownloadAnswer
  <2>2. <<Msg("ok")>> \in Seq(Message) /\ <<Msg("error")>> \in Seq(Message)
    BY MessageTypes DEF Kinds
  <2>3. ASSUME Answering(s)', cpstate = 0 PROVE FALSE
    <3>1. client[s] = "asked" /\ Head(down'[s]).kind = "ok"
      BY <1>1, <2>3 DEF Answering
    <3>2. down'[s] = <<>> \o <<Msg("error")>>
      <4>1. Sends(s, <<Msg("error")>>)
        BY <1>2, <2>3
      <4>2. down'[s] = down[s] \o <<Msg("error")>>
        BY <1>1, <2>2, <3>1, <4>1, Sending
      <4> QED
        BY <2>1, <3>1, <4>2
    <3>3. down'[s] = <<Msg("error")>>
      BY <2>2, <3>2, ConcatEmptySeq
    <3> QED
      BY <3>1, <3>3 DEF Msg
  <2>4. ASSUME Answering(s)', cpstate = 2 PROVE Uniform(buffer) /\ Len(down'[s]) = 1
    <3>1. client[s] = "asked" /\ down[s] = <<>>
      BY <1>1, <2>1, <2>4 DEF Answering
    <3>2. down'[s] = <<>> \o <<Msg("ok")>>
      <4>1. Sends(s, <<Msg("ok")>>)
        BY <1>2, <2>4
      <4>2. down'[s] = down[s] \o <<Msg("ok")>>
        BY <1>1, <2>2, <3>1, <4>1, Sending
      <4> QED
        BY <3>1, <4>2
    <3>3. down'[s] = <<Msg("ok")>>
      BY <2>2, <3>2, ConcatEmptySeq
    <3> QED
      BY <2>4, <3>3 DEF Before, Together, Holds
  <2> QED
    BY <1>2, <2>3, <2>4
<1>7. Holds(s)'
  <2>1. (Answering(s) => Uniform(buffer) /\ Carries(down[s], buffer))'
    <3>1. Answering(s)' => Uniform(buffer) /\ Carries(down'[s], buffer)
      BY <1>6 DEF Carries
    <3> QED
      BY <1>2, <3>1 DEF Uniform, Carries
  <2>2. client[s] \notin {"open", "going"}
    BY <1>1, <1>2 DEF ShellLink
  <2> QED
    BY <1>1, <1>2, <2>1, <2>2 DEF Before, Together, Holds, Uniform
<1>8. Apart(c, s)'
  <2>1. ~Replying(c) /\ child[c] \notin {"give", "gave"}
    BY <1>2 DEF Before, Together, Apart
  <2>2. PollComing(c) \/ child[c] \in {"take", "took"} => cpstate = 0 /\ child'[s] = "end"
    BY <1>2 DEF Before, Together, Apart, ShellPlace
  <2>3. PollComing(c)' <=> PollComing(c)
    BY <1>1 DEF PollComing
  <2> QED
    BY <1>1, <1>2, <1>3, <2>1, <2>2, <2>3 DEF Before, Together, Apart
<1> QED
  BY <1>3, <1>5, <1>7, <1>8 DEF Together

LEMMA GiveShellTogether ==
  ASSUME NEW c, NEW s, Before(c, s), Give(s)
  PROVE  Together(c, s)'
<1>0. ShellChild(s)
  BY DEF ShellChild
<1>1. /\ c # s /\ s \in Shells /\ s \in Ends /\ TypeOK /\ ShellLink(s)
      /\ child'[c] = child[c] /\ part'[c] = part[c] /\ up'[c] = up[c] /\ down'[c] = down[c]
      /\ client' = client /\ cpstate' = cpstate /\ params' = params /\ held' = held
  BY <1>0, ShellChildAlone DEF Before
<1>2. child[s] = "give" /\ child'[s] \in {"give", "gave"} /\ UNCHANGED <<buffer, rsstate, up>>
  BY <1>1, GivesPiece DEF Give, memory
<1>3. ProgramPlace(c)' /\ Stores(c)' /\ (Replying(c)' => Replying(c)) /\ Returns(c, s)'
  BY <1>0, <1>2, ProgramUntouched
<1>4. up[s] = <<>>
  BY <1>2 DEF Before, Together, ShellPlace
<1>5. ShellPlace(s)'
  BY <1>2, <1>4 DEF Before, Together, ShellPlace
<1>6. ASSUME Answering(s)' PROVE Uniform(buffer) /\ Carries(down'[s], buffer)
  <2>1. client[s] = "asked"
    BY <1>1, <1>6 DEF Answering
  <2>2. Answering(s) /\ Len(down[s]) = part[s]
    BY <1>1, <1>2, <2>1 DEF Answering, ShellLink, DownloadAnswer
  <2>3. Uniform(buffer) /\ Carries(down[s], buffer)
    BY <2>2 DEF Before, Together, Holds
  <2> QED
    BY <1>1, <2>1, <2>2, <2>3, PieceCarried
<1>7. Holds(s)'
  <2>1. (Answering(s) => Uniform(buffer) /\ Carries(down[s], buffer))'
    BY <1>2, <1>6 DEF Uniform, Carries
  <2>2. client[s] \notin {"open", "going"}
    BY <1>1, <1>2 DEF ShellLink
  <2> QED
    BY <1>1, <1>2, <1>4, <2>1, <2>2 DEF Before, Together, Holds, Uniform
<1>8. ~PollComing(c) /\ ~Replying(c) /\ child[c] \notin {"take", "took", "give", "gave"}
  BY <1>2 DEF Before, Together, Apart, Comes
<1>9. Apart(c, s)'
  BY <1>1, <1>3, <1>8 DEF Apart, PollComing
<1> QED
  BY <1>3, <1>5, <1>7, <1>9 DEF Together

LEMMA TakeShellTogether ==
  ASSUME NEW c, NEW s, Before(c, s), Take(s)
  PROVE  Together(c, s)'
<1>0. ShellChild(s)
  BY DEF ShellChild
<1>1. /\ c # s /\ s \in Shells /\ s \in Ends /\ TypeOK /\ ShellLink(s)
      /\ child'[c] = child[c] /\ part'[c] = part[c] /\ up'[c] = up[c] /\ down'[c] = down[c]
      /\ client' = client /\ cpstate' = cpstate /\ params' = params /\ held' = held
  BY <1>0, ShellChildAlone DEF Before
<1>2. child[s] = "take" /\ child'[s] \in {"take", "took"} /\ UNCHANGED <<down, rsstate>>
  BY <1>1, TakesPiece DEF Take
<1>3. held[s] \in Parameters /\ buffer \in Parameters /\ part[s] \in 1..Parts
  BY <1>1 DEF TypeOK
<1>4. buffer = held[s] /\ Brings(s, held[s]) /\ client[s] # "asked"
  BY <1>1, <1>2 DEF Before, Together, Holds, ShellLink, DownloadAnswer
<1>5. /\ buffer' = [buffer EXCEPT ![part[s]] = held[s][part[s]]]
      /\ child'[s] = "take" => \A i \in 1..Len(up'[s]) : up'[s][i].value = held[s][part'[s] + i - 1]
  BY <1>1, <1>3, <1>4, PieceStored
<1>6. buffer' = buffer
  BY <1>3, <1>4, <1>5 DEF Parameters
<1>7. ProgramPlace(c)' /\ Stores(c)' /\ (Replying(c)' => Replying(c)) /\ Returns(c, s)'
  BY <1>0, <1>6, ProgramUntouched
<1>8. ShellPlace(s)'
  BY <1>2 DEF Before, Together, ShellPlace
<1>9. Holds(s)'
  <2>1. child'[s] = "take" => Brings(s, held[s])'
    BY <1>1, <1>5 DEF Brings
  <2> QED
    BY <1>1, <1>2, <1>4, <1>6, <2>1 DEF Before, Together, Holds, Uniform, Answering
<1>10. ~PollComing(c) /\ ~Replying(c) /\ child[c] \notin {"take", "took", "give", "gave"}
  BY <1>2 DEF Before, Together, Apart, Comes
<1>11. Apart(c, s)'
  BY <1>1, <1>7, <1>10 DEF Apart, PollComing
<1> QED
  BY <1>7, <1>8, <1>9, <1>11 DEF Together

(***************************************************************************)
(* The steps of the program.                                               *)
(***************************************************************************)
LEMMA ProgramAlone ==
  ASSUME NEW c, NEW s, Before(c, s), Program(c) \/ ConnectProgram(c) \/ Leave(c)
  PROVE  /\ c # s /\ c \in Programs /\ c \in Ends /\ TypeOK /\ ProgramLink(c)
         /\ child'[s] = child[s] /\ part'[s] = part[s] /\ up'[s] = up[s] /\ down'[s] = down[s]
         /\ client'[s] = client[s]
         /\ cpstate' = cpstate /\ rsstate' = rsstate /\ buffer' = buffer /\ held' = held
<1>1. c # s /\ c \in Programs /\ c \in Ends /\ s \in Ends /\ TypeOK /\ ProgramLink(c)
  BY Both DEF Before
<1>2. /\ child'[s] = child[s] /\ part'[s] = part[s] /\ up'[s] = up[s] /\ down'[s] = down[s]
      /\ client'[s] = client[s]
  BY <1>1, OthersClient
<1>3. cpstate' = cpstate /\ rsstate' = rsstate /\ buffer' = buffer /\ held' = held
  BY DEF Program, Responds, Poll, Ignored, SendParams, Apply, ConnectProgram, Connect, Leave, server, memory
<1> QED
  BY <1>1, <1>2, <1>3

(* The shell's part of the invariant does not see them. *)
LEMMA ShellUntouched ==
  ASSUME NEW c, NEW s, Before(c, s), Program(c) \/ ConnectProgram(c) \/ Leave(c)
  PROVE  ShellPlace(s)' /\ Holds(s)'
<1>1. /\ child'[s] = child[s] /\ part'[s] = part[s] /\ up'[s] = up[s] /\ down'[s] = down[s]
      /\ client'[s] = client[s]
      /\ cpstate' = cpstate /\ rsstate' = rsstate /\ buffer' = buffer /\ held' = held
  BY ProgramAlone
<1>2. ShellPlace(s)'
  BY <1>1 DEF Before, Together, ShellPlace
<1>3. Holds(s)'
  BY <1>1, HoldsOn
<1> QED
  BY <1>2, <1>3

LEMMA ConnectProgramTogether ==
  ASSUME NEW c, NEW s, Before(c, s), ConnectProgram(c)
  PROVE  Together(c, s)'
<1>1. /\ c # s /\ c \in Programs /\ c \in Ends /\ TypeOK /\ ProgramLink(c)
      /\ child'[s] = child[s] /\ part'[s] = part[s] /\ up'[s] = up[s] /\ down'[s] = down[s]
      /\ client'[s] = client[s]
      /\ cpstate' = cpstate /\ rsstate' = rsstate /\ buffer' = buffer /\ held' = held
  BY ProgramAlone
<1>2. /\ child[c] = "none" /\ child'[c] = "start" /\ up'[c] = <<>> /\ client'[c] = "busy"
      /\ params'[c] = Default
  BY <1>1 DEF ConnectProgram, Connect, Go, TypeOK
<1>3. ShellPlace(s)' /\ Holds(s)'
  BY ShellUntouched
<1>4. ProgramPlace(c)'
  <2>1. Len(up'[c]) = 0 /\ Rest(c)' = 0
    BY <1>2, EmptySeq DEF Rest
  <2> QED
    BY <1>2, <2>1 DEF ProgramPlace
<1>5. Stores(c)'
  BY <1>2 DEF Stores, Uniform, Default
<1>6. Apart(c, s)' /\ Returns(c, s)'
  BY <1>2 DEF Apart, Returns, Replying, PollComing
<1> QED
  BY <1>3, <1>4, <1>5, <1>6 DEF Together

(* A program polls when nobody has anything to do. *)
LEMMA PollTogether ==
  ASSUME NEW c, NEW s, Before(c, s), Poll(c)
  PROVE  Together(c, s)'
<1>0. Program(c)
  BY DEF Program, Responds
<1>1. /\ c # s /\ c \in Programs /\ c \in Ends /\ TypeOK /\ ProgramLink(c)
      /\ child'[s] = child[s] /\ part'[s] = part[s] /\ up'[s] = up[s] /\ down'[s] = down[s]
      /\ client'[s] = client[s]
      /\ cpstate' = cpstate /\ rsstate' = rsstate /\ buffer' = buffer /\ held' = held
  BY <1>0, ProgramAlone
<1>2. /\ client[c] = "busy" /\ Settled /\ UNCHANGED <<child, part, down>>
  BY DEF Poll, Before, Pair, server
<1>3. child[c] = "recv" /\ down[c] = <<>>
  BY <1>1, <1>2 DEF Settled, ProgramLink, Before, Together, ProgramPlace
<1>4. ShellPlace(s)' /\ Holds(s)'
  BY <1>0, ShellUntouched
<1>5. ProgramPlace(c)'
  BY <1>1, <1>2, <1>3 DEF Before, Together, ProgramPlace
<1>6. Stores(c)'
  <2>1. PICK v : params' = [params EXCEPT ![c] = IF v = version THEN @ ELSE [i \in 1..Parts |-> v]]
    BY DEF Poll
  <2>2. params'[c] = params[c] \/ params'[c] = [i \in 1..Parts |-> v]
    BY <1>1, <2>1 DEF TypeOK
  <2>3. Uniform(params[c])
    BY DEF Before, Together, Stores
  <2>4. Uniform(params[c])'
    BY <2>2, <2>3 DEF Uniform
  <2> QED
    BY <1>2, <1>3, <2>4 DEF Stores
<1>7. s \in Ends
  BY Both
<1>8. \/ child[s] = "none" /\ rsstate = 0
      \/ child[s] = "recv" /\ up[s] = <<>> /\ rsstate = 0
      \/ child[s] = "wait" /\ cpstate = 1
      \/ child[s] = "await" /\ rsstate = 2
  BY <1>2, <1>7 DEF Settled, Before, Together, ShellPlace
<1>9. Apart(c, s)' /\ Returns(c, s)'
  BY <1>1, <1>2, <1>3, <1>8 DEF Apart, Returns, Replying, PollComing
<1> QED
  BY <1>4, <1>5, <1>6, <1>9 DEF Together

LEMMA IgnoredTogether ==
  ASSUME NEW c, NEW s, Before(c, s), Ignored(c)
  PROVE  Together(c, s)'
<1>0. Program(c)
  BY DEF Program, Responds
<1>1. /\ c # s /\ c \in Programs /\ c \in Ends /\ TypeOK /\ ProgramLink(c)
      /\ child'[s] = child[s] /\ part'[s] = part[s] /\ up'[s] = up[s] /\ down'[s] = down[s]
      /\ client'[s] = client[s]
      /\ cpstate' = cpstate /\ rsstate' = rsstate /\ buffer' = buffer /\ held' = held
  BY <1>0, ProgramAlone
<1>2. client'[c] = "busy" /\ UNCHANGED <<child, part, up, params>>
  BY <1>1 DEF Ignored, TypeOK, server
<1>3. ShellPlace(s)' /\ Holds(s)'
  BY <1>0, ShellUntouched
<1>4. ProgramPlace(c)'
  BY <1>1, <1>2 DEF Before, Together, ProgramPlace, Rest
<1>5. Stores(c)'
  BY <1>1, <1>2 DEF Before, Together, Stores, Uniform, Brings
<1>6. Apart(c, s)' /\ Returns(c, s)'
  BY <1>1, <1>2 DEF Before, Together, Apart, Returns, Replying, PollComing
<1> QED
  BY <1>3, <1>4, <1>5, <1>6 DEF Together

(* What a child waits for is what the other end has sent of its parameters. *)
LEMMA PiecesBring ==
  ASSUME NEW p \in Parameters, NEW n \in 0..Parts, NEW q,
         q = <<>> \o SubSeq(InPieces(p), 1, n)
  PROVE  Len(q) = n /\ \A i \in 1..n : q[i].value = p[i]
<1> DEFINE sent == SubSeq(InPieces(p), 1, n)
<1>1. InPieces(p) \in Seq(Message) /\ Len(InPieces(p)) = Parts /\ Parts \in Nat
  BY MessageTypes, PiecesLength, BoundsAssumption
<1>2. \A i \in 1..n : i \in 1..Parts
  BY <1>1
<1>3. sent \in Seq(Message) /\ \A i \in 1..n : sent[i] = InPieces(p)[i]
  BY <1>1, <1>2, ElementOfSeq, SubSeqProperties
<1>4. \A i \in 1..Parts : InPieces(p)[i].value = p[i]
  BY DEF InPieces
<1>5. q = sent
  BY <1>3, ConcatEmptySeq
<1>6. Len(q) = n
  BY PiecesAdded
<1> HIDE DEF sent
<1> QED
  BY <1>2, <1>3, <1>4, <1>5, <1>6

LEMMA SendTogether ==
  ASSUME NEW c, NEW s, Before(c, s), NEW n \in 0..Parts,
         Program(c) \/ Leave(c), Answered(c, "send"), client'[c] \in {"busy", "left"},
         up'[c] = up[c] \o SubSeq(InPieces(params[c]), 1, n), UNCHANGED <<child, part, params>>
  PROVE  Together(c, s)'
<1>1. /\ c # s /\ c \in Programs /\ c \in Ends /\ TypeOK /\ ProgramLink(c)
      /\ child'[s] = child[s] /\ part'[s] = part[s] /\ up'[s] = up[s] /\ down'[s] = down[s]
      /\ client'[s] = client[s]
      /\ cpstate' = cpstate /\ rsstate' = rsstate /\ buffer' = buffer /\ held' = held
  BY ProgramAlone
<1>2. Len(up'[c]) = n /\ Rest(c)' = Parts /\ child[c] = "take"
  BY <1>1, PiecesComing
<1>3. part[c] = 1 /\ up[c] = <<>>
  BY <1>1, <1>2 DEF Answered, ProgramLink, PollAnswer
<1>4. ShellPlace(s)' /\ Holds(s)'
  BY ShellUntouched
<1>5. ProgramPlace(c)'
  <2>1. child'[c] = "take"
    BY <1>2
  <2>2. n <= Parts
    BY BoundsAssumption
  <2>3. Len(up'[c]) <= Rest(c)'
    BY <1>2, <2>2, Zenon
  <2> QED
    BY <2>1, <2>3 DEF ProgramPlace
<1>6. Stores(c)'
  <2>1. params[c] \in Parameters
    BY <1>1 DEF TypeOK
  <2>2. \A i \in 1..n : up'[c][i].value = params[c][i]
    <3>1. up'[c] = <<>> \o SubSeq(InPieces(params[c]), 1, n)
      BY <1>3, Zenon
    <3> QED
      BY <2>1, <3>1, PiecesBring
  <2>3. \A i \in 1..n : 1 + i - 1 = i
    OBVIOUS
  <2>4. Brings(c, params[c])'
    BY <1>2, <1>3, <2>2, <2>3 DEF Brings
  <2>5. Uniform(params[c])'
    BY DEF Before, Together, Stores, Uniform
  <2> QED
    BY <1>2, <1>3, <2>4, <2>5 DEF Stores
<1>7. Apart(c, s)' /\ Returns(c, s)'
  BY <1>1, <1>2 DEF Before, Together, Apart, Returns, Replying, PollComing
<1> QED
  BY <1>4, <1>5, <1>6, <1>7 DEF Together

LEMMA SendParamsTogether ==
  ASSUME NEW c, NEW s, Before(c, s), SendParams(c)
  PROVE  Together(c, s)'
<1>1. /\ c \in Programs /\ TypeOK /\ Parts \in Nat /\ Parts \in 0..Parts
  BY Both, BoundsAssumption DEF Before
<1>2. /\ Program(c) /\ Answered(c, "send") /\ client'[c] = "busy"
      /\ up'[c] = up[c] \o InPieces(params[c]) /\ UNCHANGED <<child, part, params>>
  BY <1>1 DEF SendParams, Program, Responds, server, TypeOK
<1>3. SubSeq(InPieces(params[c]), 1, Parts) = InPieces(params[c])
  <2>1. params[c] \in Parameters
    BY <1>1 DEF TypeOK
  <2>2. InPieces(params[c]) \in Seq(Message) /\ Len(InPieces(params[c])) = Parts
    BY <2>1, MessageTypes, PiecesLength
  <2> QED
    BY <2>2, SubSeqFull
<1>4. up'[c] = up[c] \o SubSeq(InPieces(params[c]), 1, Parts)
  BY <1>2, <1>3, Zenon
<1> QED
  BY <1>1, <1>2, <1>4, SendTogether

(* What follows the answer is the buffer it was read from. *)
LEMMA BodyCarried ==
  ASSUME TypeOK, NEW e \in Ends, Len(down[e]) > Parts, Carries(down[e], buffer)
  PROVE  Body(e) = buffer
<1>1. down[e] \in Seq(Message) /\ Len(down[e]) \in Nat /\ Parts \in Nat /\ buffer \in Parameters
  BY BoundsAssumption DEF TypeOK
<1>2. Body(e) \in Parameters
  BY BodyType
<1>3. ASSUME NEW i \in 1..Parts PROVE Body(e)[i] = buffer[i]
  <2>1. i \in 1..(Len(down[e]) - 1)
    BY <1>1
  <2>2. down[e][i + 1].value = buffer[i]
    BY <2>1 DEF Carries
  <2> QED
    BY <2>2 DEF Body
<1> QED
  BY <1>1, <1>2, <1>3 DEF Parameters

LEMMA ReplyBody ==
  ASSUME NEW c, NEW s, Before(c, s), Apply(c)
  PROVE  /\ Replying(c) /\ Body(c) = held[s] /\ buffer = held[s]
         /\ child[c] \in {"gave", "recv"} /\ child[s] \in {"await", "end", "none"}
         /\ child[c] = "recv" => up[c] = <<>> /\ cpstate # 2
<1>1. c \in Programs /\ c \in Ends /\ TypeOK /\ ProgramLink(c)
  BY Both DEF Before
<1>2. Answered(c, "reply") /\ Len(down[c]) > Parts
  BY DEF Apply
<1>3. Replying(c) /\ PollAnswer(c)
  BY <1>1, <1>2 DEF Answered, Replying, ProgramLink
<1>4. child[c] \in {"gave", "recv"} /\ up[c] = <<>>
  BY <1>1, <1>2, <1>3, Typed DEF PollAnswer, Replying
<1>5. buffer = held[s] /\ Carries(down[c], buffer)
  BY <1>3 DEF Before, Together, Returns
<1>6. Body(c) = buffer
  BY <1>1, <1>2, <1>5, BodyCarried
<1>7. child[s] \in {"await", "end", "none"} /\ (child[c] = "recv" => cpstate # 2)
  BY <1>3 DEF Before, Together, Apart
<1> QED
  BY <1>3, <1>4, <1>5, <1>6, <1>7

LEMMA ApplyTogether ==
  ASSUME NEW c, NEW s, Before(c, s), Apply(c)
  PROVE  Together(c, s)'
<1>0. Program(c)
  BY DEF Program, Responds
<1>1. /\ c # s /\ c \in Programs /\ c \in Ends /\ TypeOK /\ ProgramLink(c)
      /\ child'[s] = child[s] /\ part'[s] = part[s] /\ up'[s] = up[s] /\ down'[s] = down[s]
      /\ client'[s] = client[s]
      /\ cpstate' = cpstate /\ rsstate' = rsstate /\ buffer' = buffer /\ held' = held
  BY <1>0, ProgramAlone
<1>2. client'[c] = "busy" /\ UNCHANGED <<child, part, up>> /\ params'[c] = Body(c)
  BY <1>1 DEF Apply, TypeOK, server
<1>3. ShellPlace(s)' /\ Holds(s)'
  BY <1>0, ShellUntouched
<1>4. ProgramPlace(c)'
  BY <1>1, <1>2 DEF Before, Together, ProgramPlace, Rest
<1>5. Body(c) = held[s] /\ child[c] \in {"gave", "recv"}
  BY ReplyBody
<1>6. Stores(c)'
  <2>1. Uniform(held[s])
    BY DEF Before, Together, Holds
  <2>2. Uniform(params[c])'
    BY <1>2, <1>5, <2>1 DEF Uniform
  <2> QED
    BY <1>2, <1>5, <2>2 DEF Stores
<1>7. Apart(c, s)' /\ Returns(c, s)'
  BY <1>1, <1>2 DEF Before, Together, Apart, Returns, Replying, PollComing
<1> QED
  BY <1>3, <1>4, <1>6, <1>7 DEF Together

LEMMA LeaveProgramTogether ==
  ASSUME NEW c, NEW s, Before(c, s), Leave(c)
  PROVE  Together(c, s)'
<1>1. /\ c # s /\ c \in Programs /\ c \in Ends /\ TypeOK /\ ProgramLink(c)
      /\ child'[s] = child[s] /\ part'[s] = part[s] /\ up'[s] = up[s] /\ down'[s] = down[s]
      /\ client'[s] = client[s]
      /\ cpstate' = cpstate /\ rsstate' = rsstate /\ buffer' = buffer /\ held' = held
  BY ProgramAlone
<1>2. client'[c] = "left" /\ UNCHANGED <<child, part, params>> /\ c \notin Shells
  BY <1>1, EndsAssumption DEF Leave, TypeOK, server
<1>3. PICK n \in 0..Len(Outgoing(c)) : up'[c] = up[c] \o SubSeq(Outgoing(c), 1, n)
  BY <1>1 DEF Leave, TypeOK
<1>4. CASE Answered(c, "send")
  <2>1. Outgoing(c) = InPieces(params[c])
    BY <1>1, <1>2, <1>4 DEF Outgoing
  <2>2. n \in 0..Parts
    BY <1>1, <2>1, PiecesLength DEF TypeOK
  <2>3. up'[c] = up[c] \o SubSeq(InPieces(params[c]), 1, n)
    BY <1>3, <2>1, Zenon
  <2> QED
    BY <1>2, <1>4, <2>2, <2>3, SendTogether
<1>5. CASE ~Answered(c, "send")
  <2>1. Outgoing(c) = <<>>
    BY <1>2, <1>5 DEF Outgoing
  <2>2. n = 0
    BY <1>3, <2>1, EmptySeq
  <2>3. SubSeq(Outgoing(c), 1, n) = <<>>
    BY <2>2, SubSeqEmpty
  <2>4. up[c] \in Seq(Message)
    BY <1>1 DEF TypeOK
  <2>5. up'[c] = up[c]
    BY <1>3, <2>3, <2>4, ConcatEmptySeq
  <2>6. ShellPlace(s)' /\ Holds(s)'
    BY ShellUntouched
  <2>7. ProgramPlace(c)'
    BY <1>1, <1>2, <2>5 DEF Before, Together, ProgramPlace, Rest
  <2>8. Stores(c)'
    BY <1>1, <1>2, <2>5 DEF Before, Together, Stores, Uniform, Brings
  <2>9. Apart(c, s)' /\ Returns(c, s)'
    BY <1>1, <1>2, <2>5 DEF Before, Together, Apart, Returns, Replying, PollComing
  <2> QED
    BY <2>6, <2>7, <2>8, <2>9 DEF Together
<1> QED
  BY <1>4, <1>5

(***************************************************************************)
(* The steps of the shell and its user.                                    *)
(***************************************************************************)
LEMMA ShellAlone ==
  ASSUME NEW c, NEW s, Before(c, s), Shell(s) \/ ConnectShell(s) \/ Reply(s) \/ Leave(s)
  PROVE  /\ c # s /\ s \in Shells /\ s \in Ends /\ TypeOK /\ ShellLink(s)
         /\ child'[c] = child[c] /\ part'[c] = part[c] /\ up'[c] = up[c] /\ down'[c] = down[c]
         /\ client'[c] = client[c]
         /\ cpstate' = cpstate /\ rsstate' = rsstate /\ buffer' = buffer /\ params' = params
<1>1. c # s /\ s \in Shells /\ c \in Ends /\ s \in Ends /\ TypeOK /\ ShellLink(s)
  BY Both DEF Before
<1>2. /\ child'[c] = child[c] /\ part'[c] = part[c] /\ up'[c] = up[c] /\ down'[c] = down[c]
      /\ client'[c] = client[c]
  BY <1>1, OthersClient
<1>3. cpstate' = cpstate /\ rsstate' = rsstate /\ buffer' = buffer /\ params' = params
  BY DEF Shell, Download, NoParameters, Upload, ConnectShell, Connect, Reply, Leave, server, memory
<1> QED
  BY <1>1, <1>2, <1>3

(* The program's part of the invariant does not see them. *)
LEMMA ProgramUnseen ==
  ASSUME NEW c, NEW s, Before(c, s), Shell(s) \/ ConnectShell(s) \/ Reply(s) \/ Leave(s)
  PROVE  ProgramPlace(c)' /\ Stores(c)' /\ (Replying(c)' <=> Replying(c))
         /\ (PollComing(c)' <=> PollComing(c)) /\ (held'[s] = held[s] => Returns(c, s)')
<1>1. /\ child'[c] = child[c] /\ part'[c] = part[c] /\ up'[c] = up[c] /\ down'[c] = down[c]
      /\ client'[c] = client[c]
      /\ cpstate' = cpstate /\ rsstate' = rsstate /\ buffer' = buffer /\ params' = params
  BY ShellAlone
<1>2. ProgramPlace(c)'
  BY <1>1 DEF Before, Together, ProgramPlace, Rest
<1>3. Stores(c)'
  BY <1>1 DEF Before, Together, Stores, Uniform, Brings
<1>4. (Replying(c)' <=> Replying(c)) /\ (PollComing(c)' <=> PollComing(c))
  BY <1>1 DEF Replying, PollComing
<1>5. held'[s] = held[s] => Returns(c, s)'
  BY <1>1, <1>4 DEF Before, Together, Returns, Carries
<1> QED
  BY <1>2, <1>3, <1>4, <1>5

LEMMA ConnectShellTogether ==
  ASSUME NEW c, NEW s, Before(c, s), ConnectShell(s)
  PROVE  Together(c, s)'
<1>1. /\ c # s /\ s \in Shells /\ s \in Ends /\ TypeOK /\ ShellLink(s)
      /\ child'[c] = child[c] /\ part'[c] = part[c] /\ up'[c] = up[c] /\ down'[c] = down[c]
      /\ client'[c] = client[c]
      /\ cpstate' = cpstate /\ rsstate' = rsstate /\ buffer' = buffer /\ params' = params
  BY ShellAlone
<1>2. /\ Settled /\ child[s] = "none" /\ child'[s] = "start" /\ client'[s] = "asked"
      /\ up'[s] = <<Msg("send")>> /\ down'[s] = <<>> /\ held' = held
  BY <1>1 DEF ConnectShell, Connect, Go, TypeOK, Before, Pair
<1>3. /\ ProgramPlace(c)' /\ Stores(c)' /\ (Replying(c)' <=> Replying(c))
      /\ (PollComing(c)' <=> PollComing(c)) /\ Returns(c, s)'
  BY <1>2, ProgramUnseen
<1>4. ShellPlace(s)'
  BY <1>1, <1>2 DEF Before, Together, ShellPlace
<1>5. Holds(s)'
  <2>1. ~Answering(s)' /\ Head(<<Msg("send")>>).kind = "send"
    BY <1>2 DEF Answering, Msg
  <2>2. Uniform(held[s])' /\ (cpstate = 2 => Uniform(buffer))'
    BY <1>1, <1>2 DEF Before, Together, Holds, Uniform
  <2>3. rsstate' # 2
    BY <1>1, <1>2 DEF Before, Together, ShellPlace
  <2> QED
    BY <1>2, <2>1, <2>2, <2>3 DEF Holds
<1>6. c \in Ends
  BY Both
<1>7. ~PollComing(c) /\ ~Replying(c) /\ child[c] \in {"none", "recv"}
  BY <1>2, <1>6 DEF Settled, PollComing, Replying, Before, Together, ProgramPlace
<1>8. Apart(c, s)'
  BY <1>1, <1>3, <1>7 DEF Apart
<1> QED
  BY <1>3, <1>4, <1>5, <1>8 DEF Together

LEMMA DownloadTogether ==
  ASSUME NEW c, NEW s, Before(c, s), Download(s)
  PROVE  Together(c, s)'
<1>0. Shell(s)
  BY DEF Shell
<1>1. /\ c # s /\ s \in Shells /\ s \in Ends /\ TypeOK /\ ShellLink(s)
      /\ child'[c] = child[c] /\ part'[c] = part[c] /\ up'[c] = up[c] /\ down'[c] = down[c]
      /\ client'[c] = client[c]
      /\ cpstate' = cpstate /\ rsstate' = rsstate /\ buffer' = buffer /\ params' = params
  BY <1>0, ShellAlone
<1>2. /\ Answering(s) /\ Len(down[s]) > Parts /\ client[s] = "asked" /\ client'[s] = "open"
      /\ held'[s] = Body(s) /\ UNCHANGED <<child, part, up>>
  BY <1>1 DEF Download, Answered, Answering, TypeOK, server
<1>3. /\ ProgramPlace(c)' /\ Stores(c)' /\ (Replying(c)' <=> Replying(c))
      /\ (PollComing(c)' <=> PollComing(c))
  BY <1>0, ProgramUnseen
<1>4. Uniform(buffer) /\ Carries(down[s], buffer)
  BY <1>2 DEF Before, Together, Holds
<1>5. held'[s] = buffer
  BY <1>1, <1>2, <1>4, BodyCarried
<1>6. child[s] \in {"give", "gave", "recv"} /\ up[s] = <<>>
  BY <1>1, <1>2 DEF Answering, ShellLink, DownloadAnswer
<1>7. ShellPlace(s)'
  BY <1>1, <1>2 DEF Before, Together, ShellPlace
<1>8. Holds(s)'
  <2>1. ~Answering(s)'
    BY <1>2 DEF Answering
  <2>2. Uniform(held[s])' /\ Uniform(buffer)'
    BY <1>1, <1>4, <1>5 DEF Uniform
  <2> QED
    BY <1>1, <1>2, <1>5, <1>6, <2>1, <2>2 DEF Holds
<1>9. Apart(c, s)'
  BY <1>1, <1>2, <1>3 DEF Before, Together, Apart
<1>10. ~Replying(c) /\ child'[c] # "give"
  BY <1>1, <1>6 DEF Before, Together, Apart
<1>11. Returns(c, s)'
  BY <1>3, <1>10 DEF Returns
<1> QED
  BY <1>3, <1>7, <1>8, <1>9, <1>11 DEF Together

(* A user types "go" when nobody has anything to do. *)
LEMMA ReplyTogether ==
  ASSUME NEW c, NEW s, Before(c, s), Reply(s)
  PROVE  Together(c, s)'
<1>1. /\ c # s /\ s \in Shells /\ s \in Ends /\ TypeOK /\ ShellLink(s)
      /\ child'[c] = child[c] /\ part'[c] = part[c] /\ up'[c] = up[c] /\ down'[c] = down[c]
      /\ client'[c] = client[c]
      /\ cpstate' = cpstate /\ rsstate' = rsstate /\ buffer' = buffer /\ params' = params
  BY ShellAlone
<1>2. /\ Settled /\ client[s] = "open" /\ client'[s] = "going"
      /\ UNCHANGED <<child, part, down, held>>
  BY <1>1 DEF Reply, TypeOK, server, Before, Pair
<1>3. /\ ProgramPlace(c)' /\ Stores(c)' /\ (Replying(c)' <=> Replying(c))
      /\ (PollComing(c)' <=> PollComing(c)) /\ Returns(c, s)'
  BY <1>2, ProgramUnseen
<1>4. child[s] = "recv"
  BY <1>1, <1>2 DEF Settled, ShellLink
<1>5. ShellPlace(s)'
  BY <1>1, <1>2, <1>4 DEF Before, Together, ShellPlace
<1>6. Holds(s)'
  <2>1. ~Answering(s)' /\ buffer = held[s]
    BY <1>2 DEF Answering, Before, Together, Holds
  <2> QED
    BY <1>1, <1>2, <1>4, <2>1 DEF Before, Together, Holds, Uniform
<1>7. c \in Ends
  BY Both
<1>8. ~PollComing(c) /\ ~Replying(c) /\ child[c] \in {"none", "recv"}
  BY <1>2, <1>7 DEF Settled, PollComing, Replying, Before, Together, ProgramPlace
<1>9. Apart(c, s)'
  BY <1>1, <1>3, <1>8 DEF Apart
<1> QED
  BY <1>3, <1>5, <1>6, <1>9 DEF Together

(* A shell that uploads, or is stopped while it does. *)
LEMMA UploadsTogether ==
  ASSUME NEW c, NEW s, Before(c, s), Shell(s) \/ Leave(s), NEW n \in 0..Parts,
         client[s] = "going", down[s] # <<>>, client'[s] = "left", held' = held,
         up'[s] = up[s] \o SubSeq(InPieces(held[s]), 1, n), UNCHANGED <<child, part>>
  PROVE  Together(c, s)'
<1>1. /\ c # s /\ s \in Shells /\ s \in Ends /\ TypeOK /\ ShellLink(s)
      /\ child'[c] = child[c] /\ part'[c] = part[c] /\ up'[c] = up[c] /\ down'[c] = down[c]
      /\ client'[c] = client[c]
      /\ cpstate' = cpstate /\ rsstate' = rsstate /\ buffer' = buffer /\ params' = params
  BY ShellAlone
<1>2. child[s] = "take" /\ part[s] = 1 /\ up[s] = <<>>
  BY <1>1 DEF ShellLink
<1>3. /\ ProgramPlace(c)' /\ Stores(c)' /\ (Replying(c)' <=> Replying(c))
      /\ (PollComing(c)' <=> PollComing(c)) /\ Returns(c, s)'
  BY ProgramUnseen
<1>4. ShellPlace(s)'
  BY <1>1, <1>2 DEF Before, Together, ShellPlace
<1>5. Holds(s)'
  <2>1. held[s] \in Parameters
    BY <1>1 DEF TypeOK
  <2>2. Len(up'[s]) = n /\ \A i \in 1..n : up'[s][i].value = held[s][i]
    <3>1. up'[s] = <<>> \o SubSeq(InPieces(held[s]), 1, n)
      BY <1>2, Zenon
    <3> QED
      BY <2>1, <3>1, PiecesBring
  <2>3. \A i \in 1..n : 1 + i - 1 = i
    OBVIOUS
  <2>4. Brings(s, held[s])'
    BY <1>2, <2>2, <2>3 DEF Brings
  <2>5. ~Answering(s)' /\ Uniform(held[s])' /\ (cpstate = 2 => Uniform(buffer))'
    BY <1>1 DEF Before, Together, Holds, Uniform, Answering
  <2>6. buffer = held[s]
    BY <1>2 DEF Before, Together, Holds
  <2> QED
    BY <1>1, <1>2, <2>4, <2>5, <2>6 DEF Holds
<1>6. Apart(c, s)'
  BY <1>1, <1>2, <1>3 DEF Before, Together, Apart
<1> QED
  BY <1>3, <1>4, <1>5, <1>6 DEF Together

(* One that only goes. *)
LEMMA GoesTogether ==
  ASSUME NEW c, NEW s, Before(c, s), Shell(s) \/ Leave(s), client'[s] = "left", held' = held,
         up'[s] = up[s], UNCHANGED <<child, part>>
  PROVE  Together(c, s)'
<1>1. /\ c # s /\ s \in Shells /\ s \in Ends /\ TypeOK /\ ShellLink(s)
      /\ child'[c] = child[c] /\ part'[c] = part[c] /\ up'[c] = up[c] /\ down'[c] = down[c]
      /\ client'[c] = client[c]
      /\ cpstate' = cpstate /\ rsstate' = rsstate /\ buffer' = buffer /\ params' = params
  BY ShellAlone
<1>2. /\ ProgramPlace(c)' /\ Stores(c)' /\ (Replying(c)' <=> Replying(c))
      /\ (PollComing(c)' <=> PollComing(c)) /\ Returns(c, s)'
  BY ProgramUnseen
<1>3. ShellPlace(s)'
  BY <1>1 DEF Before, Together, ShellPlace
<1>4. Holds(s)'
  BY <1>1 DEF Before, Together, Holds, Uniform, Answering, Brings
<1>5. Apart(c, s)'
  BY <1>1, <1>2 DEF Before, Together, Apart
<1> QED
  BY <1>2, <1>3, <1>4, <1>5 DEF Together

LEMMA UploadTogether ==
  ASSUME NEW c, NEW s, Before(c, s), Upload(s)
  PROVE  Together(c, s)'
<1>1. /\ s \in Shells /\ s \in Ends /\ TypeOK /\ Parts \in 0..Parts
  BY Both, BoundsAssumption DEF Before
<1>2. /\ Shell(s) /\ client[s] = "going" /\ down[s] # <<>> /\ client'[s] = "left"
      /\ UNCHANGED <<child, part, held>>
  BY <1>1 DEF Upload, Shell, server, TypeOK
<1>3. SubSeq(InPieces(held[s]), 1, Parts) = InPieces(held[s])
  <2>1. held[s] \in Parameters
    BY <1>1 DEF TypeOK
  <2>2. InPieces(held[s]) \in Seq(Message) /\ Len(InPieces(held[s])) = Parts
    BY <2>1, MessageTypes, PiecesLength
  <2> QED
    BY <2>2, SubSeqFull
<1>4. CASE Head(down[s]).kind = "ok"
  <2>1. up'[s] = up[s] \o InPieces(held[s])
    BY <1>1, <1>4 DEF Upload, TypeOK
  <2>2. up'[s] = up[s] \o SubSeq(InPieces(held[s]), 1, Parts)
    BY <1>3, <2>1, Zenon
  <2> QED
    BY <1>1, <1>2, <2>2, UploadsTogether
<1>5. CASE Head(down[s]).kind # "ok"
  <2>1. up' = up
    BY <1>5 DEF Upload
  <2> QED
    BY <1>2, <2>1, GoesTogether
<1> QED
  BY <1>4, <1>5

LEMMA LeaveShellTogether ==
  ASSUME NEW c, NEW s, Before(c, s), Leave(s)
  PROVE  Together(c, s)'
<1>1. /\ s \in Shells /\ s \in Ends /\ TypeOK /\ s \notin Programs
  BY Both, EndsAssumption DEF Before
<1>2. client'[s] = "left" /\ UNCHANGED <<child, part, held>>
  BY <1>1 DEF Leave, server, TypeOK
<1>3. PICK n \in 0..Len(Outgoing(s)) : up'[s] = up[s] \o SubSeq(Outgoing(s), 1, n)
  BY <1>1 DEF Leave, TypeOK
<1>4. CASE client[s] = "going" /\ down[s] # <<>> /\ Head(down[s]).kind = "ok"
  <2>1. Outgoing(s) = InPieces(held[s])
    BY <1>1, <1>4 DEF Outgoing
  <2>2. n \in 0..Parts
    BY <1>1, <2>1, PiecesLength DEF TypeOK
  <2>3. up'[s] = up[s] \o SubSeq(InPieces(held[s]), 1, n)
    BY <1>3, <2>1, Zenon
  <2> QED
    BY <1>2, <1>4, <2>2, <2>3, UploadsTogether
<1>5. CASE ~(client[s] = "going" /\ down[s] # <<>> /\ Head(down[s]).kind = "ok")
  <2>1. Outgoing(s) = <<>>
    BY <1>1, <1>5 DEF Outgoing
  <2>2. n = 0
    BY <1>3, <2>1, EmptySeq
  <2>3. SubSeq(Outgoing(s), 1, n) = <<>>
    BY <2>2, SubSeqEmpty
  <2>4. up[s] \in Seq(Message)
    BY <1>1 DEF TypeOK
  <2>5. up'[s] = up[s]
    BY <1>3, <2>3, <2>4, ConcatEmptySeq
  <2> QED
    BY <1>2, <2>5, GoesTogether
<1> QED
  BY <1>4, <1>5

LEMMA NoParametersTogether ==
  ASSUME NEW c, NEW s, Before(c, s), NoParameters(s)
  PROVE  Together(c, s)'
<1>1. s \in Shells /\ s \in Ends /\ TypeOK
  BY Both DEF Before
<1>2. Shell(s) /\ client'[s] = "left" /\ UNCHANGED <<child, part, up, held>>
  BY <1>1 DEF NoParameters, Shell, TypeOK, server
<1> QED
  BY <1>2, GoesTogether

LEMMA StutterTogether ==
  ASSUME NEW c, NEW s, Before(c, s), UNCHANGED vars
  PROVE  Together(c, s)'
<1>1. UNCHANGED <<cpstate, rsstate, buffer, child, part, client, up, down, params, held>>
  BY DEF vars
<1>2. ProgramPlace(c)' /\ Stores(c)'
  BY <1>1 DEF Before, Together, ProgramPlace, Stores, Rest, Brings, Uniform
<1>3. ShellPlace(s)' /\ Holds(s)'
  BY <1>1, HoldsOn DEF Before, Together, ShellPlace
<1>4. Apart(c, s)' /\ Returns(c, s)'
  BY <1>1 DEF Before, Together, Apart, Returns, Replying, PollComing, Carries
<1> QED
  BY <1>2, <1>3, <1>4 DEF Together

LEMMA StepTogether ==
  ASSUME NEW c, NEW s, Before(c, s),
         \/ ProgramChild(c) \/ Program(c) \/ ConnectProgram(c) \/ Leave(c)
         \/ ShellChild(s) \/ Shell(s) \/ ConnectShell(s) \/ Reply(s) \/ Leave(s)
         \/ UNCHANGED vars
  PROVE  Together(c, s)'
<1>1. ASSUME ProgramChild(c) PROVE Together(c, s)'
  BY <1>1, StartProgramTogether, AnswerPollTogether, TakeProgramTogether, StoredTogether,
     GiveProgramTogether, RepliedTogether, BreakProgramTogether, EndProgramTogether
  DEF ProgramChild
<1>2. ASSUME Program(c) \/ ConnectProgram(c) \/ Leave(c) PROVE Together(c, s)'
  BY <1>2, PollTogether, IgnoredTogether, SendParamsTogether, ApplyTogether,
     ConnectProgramTogether, LeaveProgramTogether
  DEF Program, Responds
<1>3. ASSUME ShellChild(s) PROVE Together(c, s)'
  BY <1>3, ShellMovesTogether, AskedToSendTogether, WaitTogether, GiveShellTogether,
     AskedToReplyTogether, TakeShellTogether
  DEF ShellChild
<1>4. ASSUME Shell(s) \/ ConnectShell(s) \/ Reply(s) \/ Leave(s) PROVE Together(c, s)'
  BY <1>4, DownloadTogether, NoParametersTogether, UploadTogether, ConnectShellTogether,
     ReplyTogether, LeaveShellTogether
  DEF Shell
<1> QED
  BY <1>1, <1>2, <1>3, <1>4, StutterTogether

(***************************************************************************)
(* The other programs, while one makes a step: only one of them has a poll *)
(* under way, and only that one stores anything.                           *)
(***************************************************************************)
LEMMA OtherPrograms ==
  ASSUME NEW c, NEW d, NEW s, Before(c, s), Before(d, s), c # d,
         ProgramChild(c) \/ Program(c) \/ ConnectProgram(c) \/ Leave(c)
  PROVE  /\ child'[d] = child[d] /\ part'[d] = part[d] /\ up'[d] = up[d] /\ down'[d] = down[d]
         /\ client'[d] = client[d] /\ params'[d] = params[d]
         /\ child'[s] = child[s] /\ up'[s] = up[s] /\ rsstate' = rsstate /\ held' = held
         /\ ~Polling(c) => buffer' = buffer /\ (cpstate' = 2 => cpstate = 2)
<1>1. /\ c \in Programs /\ d \in Ends /\ c \in Ends /\ s \in Ends /\ TypeOK /\ c # s /\ d \in Programs
  BY Both DEF Before
<1>2. /\ child'[d] = child[d] /\ part'[d] = part[d] /\ up'[d] = up[d] /\ down'[d] = down[d]
      /\ client'[d] = client[d] /\ child'[s] = child[s] /\ up'[s] = up[s]
  BY <1>1, OthersChild, OthersClient
<1>3. CASE ProgramChild(c)
  <2>1. params' = params /\ rsstate' = rsstate /\ held' = held
    BY <1>3 DEF ProgramChild, StartProgram, AnswerPoll, Take, Stored, Give, Replied, Break, EndProgram,
                memory
  <2>2. ~Polling(c) => ~Take(c) /\ ~Stored(c)
    BY DEF Polling, Take, Stored
  <2>3. ~Take(c) /\ ~Stored(c) => buffer' = buffer /\ (cpstate' = 2 => cpstate = 2)
    BY <1>3 DEF ProgramChild, StartProgram, AnswerPoll, Give, Replied, Break, EndProgram, memory
  <2> QED
    BY <1>2, <2>1, <2>2, <2>3
<1>4. CASE Program(c) \/ ConnectProgram(c) \/ Leave(c)
  <2>1. rsstate' = rsstate /\ held' = held /\ buffer' = buffer /\ cpstate' = cpstate
    BY <1>4, ProgramAlone
  <2>2. params'[d] = params[d]
    BY <1>1, <1>4 DEF Program, Responds, Poll, Ignored, SendParams, Apply, ConnectProgram, Leave, TypeOK
  <2> QED
    BY <1>2, <2>1, <2>2
<1> QED
  BY <1>3, <1>4

LEMMA OtherTogether ==
  ASSUME NEW c, NEW d, NEW s, Before(c, s), Before(d, s), c # d, ~(Polling(c) /\ Polling(d)),
         ProgramChild(c) \/ Program(c) \/ ConnectProgram(c) \/ Leave(c)
  PROVE  Together(d, s)'
<1>1. /\ child'[d] = child[d] /\ part'[d] = part[d] /\ up'[d] = up[d] /\ down'[d] = down[d]
      /\ client'[d] = client[d] /\ params'[d] = params[d]
      /\ child'[s] = child[s] /\ up'[s] = up[s] /\ rsstate' = rsstate /\ held' = held
      /\ ~Polling(c) => buffer' = buffer /\ (cpstate' = 2 => cpstate = 2)
  BY OtherPrograms
<1>2. ShellPlace(s)' /\ Holds(s)'
  BY StepTogether DEF Together
<1>3. ProgramPlace(d)'
  BY <1>1 DEF Before, Together, ProgramPlace, Rest
<1>4. (PollComing(d)' <=> PollComing(d)) /\ (Replying(d)' <=> Replying(d))
  BY <1>1 DEF PollComing, Replying
<1>5. Uniform(params[d])'
  BY <1>1 DEF Before, Together, Stores, Uniform
<1>6. CASE ~Polling(d)
  <2>1. child'[d] \notin {"take", "took", "give", "gave"} /\ ~PollComing(d)' /\ ~Replying(d)'
    BY <1>1, <1>4, <1>6 DEF Polling, Replying
  <2>2. Stores(d)' /\ Apart(d, s)' /\ Returns(d, s)'
    BY <1>5, <2>1 DEF Stores, Apart, Returns
  <2> QED
    BY <1>2, <1>3, <2>2 DEF Together
<1>7. CASE ~Polling(c)
  <2>1. Stores(d)'
    BY <1>1, <1>5, <1>7 DEF Before, Together, Stores, Brings
  <2>2. Apart(d, s)'
    BY <1>1, <1>4, <1>7 DEF Before, Together, Apart
  <2>3. Returns(d, s)'
    BY <1>1, <1>4, <1>7 DEF Before, Together, Returns, Carries
  <2> QED
    BY <1>2, <1>3, <2>1, <2>2, <2>3 DEF Together
<1> QED
  BY <1>6, <1>7

(* A poll is begun when no other is under way. *)
LEMMA PollComes ==
  ASSUME NEW c, NEW s, Before(c, s),
         ProgramChild(c) \/ Program(c) \/ ConnectProgram(c) \/ Leave(c), PollComing(c)'
  PROVE  PollComing(c) \/ Settled
<1>1. c \in Programs /\ c \in Ends /\ s \in Ends /\ TypeOK /\ ProgramLink(c) /\ Prompt
  BY Both DEF Before, Pair
<1>2. CASE Poll(c) \/ ConnectProgram(c)
  BY <1>1, <1>2 DEF Poll, ConnectProgram, Connect
<1>3. CASE AnswerPoll(c)
  BY <1>3, PollRead DEF PollComing
<1>4. CASE Take(c) \/ Give(c)
  BY <1>1, <1>4, TakesPiece, GivesPiece DEF PollComing
<1>5. CASE Stored(c) \/ Replied(c) \/ StartProgram(c)
  <2>1. child[c] \in {"took", "gave", "start"} /\ up' = up
    BY <1>5 DEF Stored, Replied, StartProgram
  <2>2. up[c] = <<>>
    BY <1>1, <2>1, OnlyOne, Typed DEF Before, Together, ProgramPlace, Rest
  <2> QED
    BY <2>1, <2>2 DEF PollComing
<1>6. CASE EndProgram(c) \/ Break(c)
  BY <1>1, <1>6 DEF EndProgram, Break, Go, TypeOK, PollComing
<1>7. CASE Ignored(c) \/ Apply(c)
  BY <1>7 DEF Ignored, Apply, server, PollComing
<1>8. CASE SendParams(c)
  <2>1. child[c] = "take" /\ child' = child
    BY <1>1, <1>8 DEF SendParams, Answered, ProgramLink, PollAnswer, server
  <2> QED
    BY <2>1 DEF PollComing
<1>9. CASE Leave(c)
  <2>1. child' = child
    BY <1>9 DEF Leave, server
  <2>2. PICK n \in 0..Len(Outgoing(c)) : up'[c] = up[c] \o SubSeq(Outgoing(c), 1, n)
    BY <1>1, <1>9 DEF Leave, TypeOK
  <2>3. CASE Answered(c, "send")
    BY <1>1, <2>1, <2>3 DEF Answered, ProgramLink, PollAnswer, PollComing
  <2>4. CASE ~Answered(c, "send")
    <3>1. Outgoing(c) = <<>>
      BY <1>1, <2>4, EndsAssumption DEF Outgoing
    <3>2. n = 0
      BY <2>2, <3>1, EmptySeq
    <3>3. SubSeq(Outgoing(c), 1, n) = <<>> /\ up[c] \in Seq(Message)
      BY <1>1, <3>2, SubSeqEmpty DEF TypeOK
    <3>4. up'[c] = up[c]
      BY <2>2, <3>3, ConcatEmptySeq
    <3> QED
      BY <2>1, <3>4 DEF PollComing
  <2> QED
    BY <2>3, <2>4
<1> QED
  BY <1>2, <1>3, <1>4, <1>5, <1>6, <1>7, <1>8, <1>9 DEF ProgramChild, Program, Responds

LEMMA PollBegun ==
  ASSUME NEW c, NEW s, Before(c, s),
         ProgramChild(c) \/ Program(c) \/ ConnectProgram(c) \/ Leave(c), Polling(c)'
  PROVE  Polling(c) \/ Settled
<1>1. c \in Programs /\ c \in Ends /\ s \in Ends /\ TypeOK /\ ProgramLink(c) /\ Prompt
  BY Both DEF Before, Pair
<1>2. CASE PollComing(c)'
  BY <1>2, PollComes DEF Polling
<1>3. CASE AnswerPoll(c) \/ Take(c) \/ Give(c) \/ Stored(c) \/ Replied(c)
  BY <1>3 DEF AnswerPoll, Take, Give, Stored, Replied, Comes, Polling, PollComing
<1>4. CASE ~PollComing(c)' /\ (StartProgram(c) \/ EndProgram(c) \/ Break(c))
  <2>1. child'[c] \in {"recv", "none", "end"} /\ UNCHANGED <<down, client>>
    BY <1>1, <1>4 DEF StartProgram, EndProgram, Break, Go, TypeOK
  <2> QED
    BY <1>4, <2>1 DEF Polling
<1>5. CASE Poll(c) \/ ConnectProgram(c)
  BY <1>1, <1>5 DEF Poll, ConnectProgram, Connect
<1>6. CASE Ignored(c) \/ SendParams(c) \/ Apply(c)
  BY <1>6 DEF Ignored, SendParams, Apply, Answered, Polling
<1>7. CASE ~PollComing(c)' /\ Leave(c)
  BY <1>1, <1>7 DEF Leave, Polling, TypeOK, server
<1> QED
  BY <1>2, <1>3, <1>4, <1>5, <1>6, <1>7 DEF ProgramChild, Program, Responds

LEMMA NobodyPolls ==
  ASSUME NEW c, NEW s, Before(c, s), Settled
  PROVE  ~Polling(c)
<1>1. c \in Ends
  BY Both
<1> QED
  BY <1>1 DEF Settled, Polling, PollComing, Before, Together, ProgramPlace

(* The step of a shell leaves all of them as they are. *)
LEMMA PollingOn ==
  ASSUME NEW c, NEW s, Before(c, s),
         ShellChild(s) \/ Shell(s) \/ ConnectShell(s) \/ Reply(s) \/ Leave(s) \/ UNCHANGED vars
  PROVE  Polling(c)' <=> Polling(c)
<1>1. child'[c] = child[c] /\ up'[c] = up[c] /\ down'[c] = down[c] /\ client'[c] = client[c]
  BY ShellAlone, ShellChildAlone DEF vars
<1> QED
  BY <1>1 DEF Polling, PollComing

LEMMA OnePoll ==
  ASSUME NEW s, \A c \in Programs : Before(c, s),
         \A c, d \in Programs : Polling(c) /\ Polling(d) => c = d, [Next]_vars
  PROVE  \A c, d \in Programs : Polling(c)' /\ Polling(d)' => c = d
<1> SUFFICES ASSUME NEW c \in Programs, NEW d \in Programs, Polling(c)', Polling(d)', c # d
             PROVE  FALSE
  OBVIOUS
<1>1. Shells = {s} /\ Before(c, s) /\ Before(d, s)
  BY DEF Before, Pair
<1>2. ASSUME NEW e \in Programs, ProgramChild(e) \/ Program(e) \/ ConnectProgram(e) \/ Leave(e)
      PROVE  FALSE
  <2>1. Before(e, s)
    OBVIOUS
  <2>2. ASSUME NEW x \in Programs, x # e PROVE Polling(x)' <=> Polling(x)
    <3>1. Before(x, s)
      OBVIOUS
    <3>2. child'[x] = child[x] /\ up'[x] = up[x] /\ down'[x] = down[x] /\ client'[x] = client[x]
      BY <1>2, <2>1, <2>2, <3>1, OtherPrograms
    <3> QED
      BY <3>2 DEF Polling, PollComing
  <2>3. Polling(e)' => Polling(e) \/ \A x \in Programs : ~Polling(x)
    BY <1>2, <2>1, PollBegun, NobodyPolls
  <2> QED
    BY <2>2, <2>3
<1>3. CASE ShellChild(s) \/ Shell(s) \/ ConnectShell(s) \/ Reply(s) \/ Leave(s) \/ UNCHANGED vars
  BY <1>1, <1>3, PollingOn
<1> QED
  BY <1>1, <1>2, <1>3 DEF Next

LEMMA AllTogether ==
  ASSUME NEW s, \A c \in Programs : Before(c, s),
         \A c, d \in Programs : Polling(c) /\ Polling(d) => c = d, [Next]_vars
  PROVE  \A c \in Programs : Together(c, s)'
<1> SUFFICES ASSUME NEW d \in Programs PROVE Together(d, s)'
  OBVIOUS
<1>1. Shells = {s} /\ Before(d, s)
  BY DEF Before, Pair
<1>2. ASSUME NEW c \in Programs, ProgramChild(c) \/ Program(c) \/ ConnectProgram(c) \/ Leave(c)
      PROVE  Together(d, s)'
  <2>1. CASE c = d
    BY <1>1, <1>2, <2>1, StepTogether
  <2>2. CASE c # d
    <3>1. Before(c, s) /\ ~(Polling(c) /\ Polling(d))
      BY <2>2
    <3> QED
      BY <1>1, <1>2, <2>2, <3>1, OtherTogether
  <2> QED
    BY <2>1, <2>2
<1>3. CASE ShellChild(s) \/ Shell(s) \/ ConnectShell(s) \/ Reply(s) \/ Leave(s) \/ UNCHANGED vars
  BY <1>1, <1>3, StepTogether
<1> QED
  BY <1>1, <1>2, <1>3 DEF Next

(***************************************************************************)
(* What became of an upload.                                               *)
(***************************************************************************)
LEMMA StageKept ==
  ASSUME NEW s, \A c \in Programs : ~Apply(c), StageAfter(s) = "applied"
  PROVE  stage[s] = "applied" /\ ~ConnectShell(s)
<1>1. ~(stage[s] = "pending" /\ \E d \in Programs : Apply(d) /\ Body(d) = held[s])
  OBVIOUS
<1> QED
  BY <1>1 DEF StageAfter

(* An upload is applied: no other poll is under way. *)
LEMMA ApplyApplied ==
  ASSUME NEW s, \A c \in Programs : Before(c, s),
         \A c, d \in Programs : Polling(c) /\ Polling(d) => c = d, NEW c \in Programs, Apply(c)
  PROVE  Applied(s)'
<1>1. /\ Before(c, s) /\ c \in Ends /\ TypeOK
  BY DEF Before
<1>2. /\ Replying(c) /\ child[c] \in {"gave", "recv"} /\ child[s] \in {"await", "end", "none"}
      /\ child[c] = "recv" => up[c] = <<>> /\ cpstate # 2
  BY <1>1, ReplyBody
<1>3. /\ client'[c] = "busy" /\ UNCHANGED <<child, up, cpstate, rsstate>>
  BY <1>1 DEF Apply, server, TypeOK
<1>4. ~Replying(c)' /\ ~PollComing(c)'
  BY <1>2, <1>3 DEF Replying, PollComing
<1>5. ASSUME NEW d \in Programs, d # c PROVE ~Replying(d)' /\ ~PollComing(d)'
  <2>1. Before(d, s) /\ Program(c)
    BY DEF Program, Responds
  <2>2. /\ child'[d] = child[d] /\ up'[d] = up[d] /\ down'[d] = down[d] /\ client'[d] = client[d]
    BY <1>1, <1>5, <2>1, OtherPrograms
  <2>3. Polling(c)
    BY <1>2 DEF Polling, Replying
  <2>4. ~Polling(d)
    BY <1>5, <2>3
  <2> QED
    BY <2>2, <2>4 DEF Polling, PollComing, Replying
<1>6. \A d \in Programs : ~Replying(d)' /\ ~PollComing(d)'
  BY <1>4, <1>5
<1> QED
  BY <1>2, <1>3, <1>6 DEF Applied

(* Nothing sends it to a program again. *)
LEMMA ProgramApplied ==
  ASSUME NEW s, \A d \in Programs : Before(d, s), Applied(s), NEW c \in Programs,
         ProgramChild(c) \/ Program(c) \/ ConnectProgram(c) \/ Leave(c)
  PROVE  Applied(s)'
<1>1. Before(c, s) /\ c \in Ends /\ s \in Ends /\ c # s /\ TypeOK
  <2>1. Before(c, s)
    OBVIOUS
  <2> QED
    BY <2>1, Both DEF Before
<1>2. ASSUME NEW d \in Programs, d # c
      PROVE  /\ child'[d] = child[d] /\ ~Replying(d)' /\ (PollComing(d)' => rsstate' # 2)
  <2>1. Before(d, s)
    OBVIOUS
  <2>2. /\ child'[d] = child[d] /\ up'[d] = up[d] /\ down'[d] = down[d] /\ client'[d] = client[d]
        /\ rsstate' = rsstate
    BY <1>1, <1>2, <2>1, OtherPrograms
  <2> QED
    BY <2>2 DEF Applied, Replying, PollComing
<1>3. child'[s] = child[s] /\ rsstate' = rsstate
  <2>1. CASE ProgramChild(c)
    <3>1. rsstate' = rsstate
      BY <2>1 DEF ProgramChild, StartProgram, AnswerPoll, Take, Stored, Give, Replied, Break,
                  EndProgram, memory
    <3> QED
      BY <1>1, <2>1, <3>1, OthersChild
  <2>2. CASE Program(c) \/ ConnectProgram(c) \/ Leave(c)
    BY <1>1, <2>2, ProgramAlone
  <2> QED
    BY <2>1, <2>2
<1>4. ~Replying(c) /\ (PollComing(c) => rsstate # 2)
  BY DEF Applied
<1>5. ~Replying(c)'
  <2>1. CASE AnswerPoll(c)
    <3>1. PollComing(c) /\ (Replying(c)' => child'[c] = "give")
          /\ (child'[c] = "give" => rsstate = 2)
      BY <1>1, <2>1, PollRead
    <3> QED
      BY <1>4, <3>1
  <2>2. CASE Give(c)
    <3>1. client' = client /\ child[c] = "give"
      BY <2>2 DEF Give
    <3>2. client[c] = "asked" => Replying(c)
      BY <1>1, <3>1 DEF Before, ProgramLink, PollAnswer, Replying
    <3> QED
      BY <1>4, <3>1, <3>2 DEF Replying
  <2>3. CASE StartProgram(c) \/ Take(c) \/ Stored(c) \/ Replied(c) \/ Break(c) \/ EndProgram(c)
    <3>1. client' = client /\ down' = down
      BY <2>3 DEF StartProgram, Take, Stored, Replied, Break, EndProgram
    <3> QED
      BY <1>4, <3>1 DEF Replying
  <2>4. CASE Poll(c)
    <3>1. down'[c] = <<>>
      BY <1>1, <2>4 DEF Poll, Before, ProgramLink
    <3> QED
      BY <3>1 DEF Replying
  <2>5. CASE Ignored(c) \/ SendParams(c) \/ Apply(c) \/ ConnectProgram(c) \/ Leave(c)
    <3>1. client'[c] \in {"busy", "left"}
      BY <1>1, <2>5 DEF Ignored, SendParams, Apply, ConnectProgram, Leave, TypeOK
    <3> QED
      BY <3>1 DEF Replying
  <2> QED
    BY <2>1, <2>2, <2>3, <2>4, <2>5 DEF ProgramChild, Program, Responds
<1>6. ASSUME PollComing(c)', rsstate = 2 PROVE FALSE
  <2>1. Settled
    BY <1>1, <1>4, <1>6, PollComes
  <2>2. child[s] = "await" /\ cpstate = 2
    BY <1>1, <1>6, <2>1 DEF Settled, Before, Together, ShellPlace
  <2>3. PICK d \in Programs : child[d] = "gave"
    BY <2>2 DEF Applied
  <2> QED
    BY <2>1, <2>3 DEF Settled
<1>7. ASSUME child[s] = "await", cpstate' = 2
      PROVE  cpstate = 2 /\ (child[c] = "gave" => child'[c] = "gave")
  <2>1. CASE ProgramChild(c)
    <3>1. ~Stored(c)
      BY <1>1, <1>7 DEF Stored, Before, Together, Apart
    <3>2. AnswerPoll(c) \/ Take(c) \/ Give(c) \/ Break(c)
      BY <1>7, <2>1, <3>1 DEF ProgramChild, StartProgram, Replied, EndProgram
    <3> QED
      BY <1>7, <3>2 DEF AnswerPoll, Take, Give, Break, memory
  <2>2. CASE Program(c) \/ ConnectProgram(c) \/ Leave(c)
    <3>1. cpstate' = cpstate
      BY <1>1, <2>2, ProgramAlone
    <3>2. child[c] # "none" => child' = child
      BY <2>2 DEF Program, Responds, Poll, Ignored, SendParams, Apply, ConnectProgram, Connect, Leave, server
    <3> QED
      BY <1>7, <3>1, <3>2
  <2> QED
    BY <2>1, <2>2
<1>8. child'[s] = "await" /\ cpstate' = 2 => \E d \in Programs : child'[d] = "gave"
  <2> SUFFICES ASSUME child'[s] = "await", cpstate' = 2 PROVE \E d \in Programs : child'[d] = "gave"
    OBVIOUS
  <2>1. cpstate = 2 /\ (child[c] = "gave" => child'[c] = "gave") /\ child[s] = "await"
    BY <1>3, <1>7
  <2>2. PICK d \in Programs : child[d] = "gave"
    BY <2>1 DEF Applied
  <2> QED
    BY <1>2, <2>1, <2>2
<1>9. \A d \in Programs : ~Replying(d)' /\ (PollComing(d)' => rsstate' # 2)
  BY <1>2, <1>3, <1>5, <1>6
<1>10. child'[s] \in {"await", "end", "none"}
  BY <1>3 DEF Applied
<1> QED
  BY <1>8, <1>9, <1>10 DEF Applied

LEMMA ShellApplied ==
  ASSUME NEW s, \A d \in Programs : Before(d, s), Programs # {}, Applied(s),
         ShellChild(s) \/ Shell(s) \/ Reply(s) \/ Leave(s) \/ UNCHANGED vars
  PROVE  Applied(s)'
<1>1. s \in Ends /\ s \in Shells /\ TypeOK
  BY Both DEF Before
<1>2. ASSUME NEW d \in Programs
      PROVE  /\ child'[d] = child[d] /\ up'[d] = up[d] /\ down'[d] = down[d] /\ client'[d] = client[d]
             /\ cpstate' = cpstate
  <2>1. Before(d, s)
    OBVIOUS
  <2> QED
    BY <2>1, ShellChildAlone, ShellAlone DEF vars
<1>3. /\ child'[s] = child[s] \/ child'[s] \in {"end", "none"}
      /\ rsstate' = rsstate \/ rsstate' = 0
  <2>1. CASE ShellChild(s)
    <3>1. child[s] \in {"await", "end", "none"}
      BY DEF Applied
    <3>2. Await(s) \/ EndShell(s)
      BY <2>1, <3>1 DEF ShellChild, StartShell, AskedToSend, Wait, Give, Sent, AskedToReply, Take,
                        Left, Break
    <3> QED
      BY <1>1, <3>2 DEF Await, EndShell, Go, memory, TypeOK
  <2>2. CASE Shell(s) \/ Reply(s) \/ Leave(s) \/ UNCHANGED vars
    BY <2>2 DEF Shell, Download, NoParameters, Upload, Reply, Leave, server, vars
  <2> QED
    BY <2>1, <2>2
<1>4. \A d \in Programs : ~Replying(d)' /\ (PollComing(d)' => rsstate' # 2)
  BY <1>2, <1>3 DEF Applied, Replying, PollComing
<1>5. child'[s] = "await" /\ cpstate' = 2 => \E d \in Programs : child'[d] = "gave"
  BY <1>2, <1>3 DEF Applied
<1>6. child'[s] \in {"await", "end", "none"}
  BY <1>3 DEF Applied
<1> QED
  BY <1>4, <1>5, <1>6 DEF Applied

LEMMA StageStep ==
  ASSUME NEW s, Shells = {s}, \A c \in Programs : Before(c, s), Programs # {}, Stage(s), [Next]_vars,
         \A c, d \in Programs : Polling(c) /\ Polling(d) => c = d,
         stage'[s] = StageAfter(s) \/ UNCHANGED <<vars, stage>>
  PROVE  Stage(s)'
<1> SUFFICES ASSUME stage'[s] = "applied" PROVE Applied(s)'
  BY DEF Stage, Applied
<1>1. CASE \E c \in Programs : Apply(c)
  BY <1>1, ApplyApplied
<1>2. CASE \A c \in Programs : ~Apply(c)
  <2>1. stage[s] = "applied" /\ (~ConnectShell(s) \/ UNCHANGED vars)
    BY <1>2, StageKept
  <2>2. Applied(s)
    BY <2>1 DEF Stage, Applied
  <2>3. CASE \E c \in Programs : ProgramChild(c) \/ Program(c) \/ ConnectProgram(c) \/ Leave(c)
    BY <2>2, <2>3, ProgramApplied
  <2>4. CASE ShellChild(s) \/ Shell(s) \/ Reply(s) \/ Leave(s) \/ UNCHANGED vars
    BY <2>2, <2>4, ShellApplied
  <2> QED
    BY <2>1, <2>3, <2>4 DEF Next
<1> QED
  BY <1>1, <1>2

LEMMA SessionStart ==
  ASSUME OneUser, SessionInit
  PROVE  SessionInv
<1>1. PICK s \in Shells : Shells = {s}
  BY DEF OneUser
<1>2. /\ cpstate = 0 /\ rsstate = 0
      /\ \A e \in Ends : child[e] = "none" /\ client[e] = "away" /\ up[e] = <<>>
      /\ \A c \in Programs : params[c] = Default
      /\ held[s] = Default /\ stage[s] = "none"
  BY <1>1 DEF SessionInit, Init
<1>3. Uniform(Default)
  BY DEF Uniform, Default
<1>4. ASSUME NEW c \in Programs
      PROVE  ProgramPlace(c) /\ Stores(c) /\ ~Polling(c) /\ Apart(c, s) /\ Returns(c, s)
  <2>1. c \in Ends
    OBVIOUS
  <2> QED
    BY <1>2, <1>3, <2>1 DEF ProgramPlace, Stores, Polling, PollComing, Apart, Returns, Replying
<1>5. ShellPlace(s) /\ Holds(s) /\ Stage(s)
  BY <1>1, <1>2, <1>3 DEF ShellPlace, Holds, Answering, Stage
<1> QED
  BY <1>1, <1>4, <1>5 DEF SessionInv, SessionInit

LEMMA SessionStep ==
  ASSUME OneUser, TypeOK, LinkInv, SessionInv, [SessionNext]_sessionVars
  PROVE  SessionInv'
<1>1. PICK s : Prompt /\ Programs # {} /\ Shells = {s}
  BY DEF OneUser
<1>2. /\ \A c \in Programs : Before(c, s)
      /\ \A c, d \in Programs : Polling(c) /\ Polling(d) => c = d
      /\ Stage(s)
  BY <1>1 DEF Pair, Before, Together, LinkInv, SessionInv
<1>3. [Next]_vars /\ (stage'[s] = StageAfter(s) \/ UNCHANGED <<vars, stage>>)
  BY <1>1 DEF SessionNext, sessionVars
<1>4. \A c \in Programs : Together(c, s)'
  BY <1>2, <1>3, AllTogether
<1>5. \A c, d \in Programs : Polling(c)' /\ Polling(d)' => c = d
  BY <1>2, <1>3, OnePoll
<1>6. Stage(s)'
  BY <1>1, <1>2, <1>3, StageStep
<1>7. fresh' \subseteq Shells
  <2>1. fresh \subseteq Shells
    BY DEF SessionInv
  <2>2. CASE UNCHANGED sessionVars
    BY <2>1, <2>2 DEF sessionVars
  <2>3. CASE SessionNext
    <3>1. \/ fresh' = fresh \cup { d \in Shells : child[d] = "wait" }
          \/ fresh' = { d \in fresh : child'[d] # "wait" \/ child[d] = "wait" }
      BY <2>3 DEF SessionNext
    <3> QED
      BY <2>1, <3>1
  <2> QED
    BY <2>2, <2>3
<1>8. ShellPlace(s)' /\ Holds(s)'
  BY <1>1, <1>4 DEF Together
<1> QED
  BY <1>1, <1>4, <1>5, <1>6, <1>7, <1>8 DEF Together, SessionInv

LEMMA SessionSafe ==
  ASSUME OneUser
  PROVE  SessionSpec => [](TypeOK /\ LinkInv /\ SessionInv)
<1>1. SessionInit => TypeOK /\ LinkInv /\ SessionInv
  BY TypeInit, LinkInit, SessionStart DEF SessionInit
<1>2. TypeOK /\ LinkInv /\ SessionInv /\ [SessionNext]_sessionVars => (TypeOK /\ LinkInv /\ SessionInv)'
  <2>1. [SessionNext]_sessionVars => [Next]_vars
    BY DEF SessionNext, sessionVars
  <2> QED
    BY <2>1, TypeStep, LinkStep, SessionStep
<1> QED
  BY <1>1, <1>2, PTL DEF SessionSpec

(* The parameters a shell is given, if they were stored for it, are those  *)
(* of one moment, whatever control programs connect and are stopped while  *)
(* it waits, as long as it is the only shell.                              *)
THEOREM WholeCorrect ==
  ASSUME OneUser
  PROVE  SessionSpec => []Whole
<1>1. TypeOK /\ LinkInv /\ SessionInv => Whole
  BY DEF Whole, SessionInv, Holds, Uniform
<1> QED
  BY <1>1, SessionSafe, PTL

(* What a user uploads is what the program applies, and it is applied once. *)
THEOREM AppliedOnceCorrect ==
  ASSUME OneUser
  PROVE  SessionSpec => AppliedOnce
<1>1. TypeOK /\ LinkInv /\ SessionInv /\ [SessionNext]_sessionVars =>
        [ \A c \in Programs : Apply(c) =>
            \E s \in Shells : stage[s] # "applied" /\ held[s] = Body(c) ]_sessionVars
  <2> SUFFICES ASSUME TypeOK, LinkInv, SessionInv, NEW c \in Programs, Apply(c)
               PROVE  \E s \in Shells : stage[s] # "applied" /\ held[s] = Body(c)
    OBVIOUS
  <2>1. PICK s : Prompt /\ Shells = {s}
    BY DEF OneUser
  <2>2. Before(c, s) /\ Stage(s)
    BY <2>1 DEF Pair, Before, Together, LinkInv, SessionInv
  <2>3. Replying(c) /\ Body(c) = held[s]
    BY <2>2, ReplyBody
  <2>4. stage[s] # "applied"
    BY <2>2, <2>3 DEF Stage, Applied
  <2> QED
    BY <2>1, <2>3, <2>4
<1> QED
  BY <1>1, SessionSafe, PTL DEF SessionSpec, AppliedOnce
=============================================================================
