------------------------------- MODULE FanOut --------------------------------
(***************************************************************************)
(* The child process of rtserver (socket.c, connect.c, msgmem.c) that      *)
(* copies the byte stream its parent writes into a pipe to every client    *)
(* that is connected.  One process serves all the clients from a loop      *)
(* around select; a client that does not keep up loses its oldest bytes.   *)
(*                                                                         *)
(* A byte is the number of its place in the stream the child has read, so  *)
(* the pipe is the count of the bytes in it.  The functions the loop calls *)
(* are one step each; between them the parent, the clients and SIGUSR1 may *)
(* act, so that fdset, filled by select, may be old when it is used.       *)
(***************************************************************************)
EXTENDS Integers, Sequences, FiniteSets, Functions

CONSTANTS Clients,     \* programs that may connect
          ClientMax,   \* CLIENT_MAX
          BufSize,     \* BUF_SIZE
          PipeSize,    \* bytes the kernel holds for the pipe
          SocketSize,  \* bytes the kernel holds for a connection
          Backlog,     \* the 5 of listen(sock,5)
          Signals,     \* TRUE: SIGUSR1 may be sent to the child
          MaxBytes     \* bound: the length of the stream

NoSocket == "NoSocket"

ASSUME ClientsAssumption == NoSocket \notin Clients
ASSUME SizesAssumption ==
  /\ {ClientMax, BufSize, PipeSize, SocketSize, Backlog} \subseteq Nat \ {0}
  /\ MaxBytes \in Nat
  /\ Signals \in BOOLEAN

Slots == 0..(ClientMax - 1)

VARIABLES
  pc,       \* where procsocket is
  poll, runloop, fdset,
  sock,     \* client[i].sock: the client at the other end, or NoSocket
  out,      \* out_buf[0..out_sze-1] of client[i]
  msgmax,
  pipe,     \* the number of bytes in the pipe
  arrived,  \* the number of bytes the child has read from it
  eof,      \* the parent has closed its end
  backlog,  \* clients waiting to be accepted
  peer,     \* the client's end: "away", "there", "gone" (closed, not yet noticed)
  inflight, \* the number of bytes the kernel holds for the connection of a slot
  since, sent \* history of a connection: arrived at its start, last byte written

listVars == <<sock, msgmax>>
pipeVars == <<pipe, arrived, eof>>
historyVars == <<since, sent>>
vars == <<pc, poll, runloop, fdset, sock, out, msgmax, pipe, arrived, eof, backlog, peer,
          inflight, since, sent>>

Listen == "listen"
InPipe == "inpipe"

Labels == {"select", "open", "pipe", "write", "read", "while", "done"}

Init ==
  /\ pc = "select" /\ poll = FALSE /\ runloop = TRUE /\ fdset = {}
  /\ sock = [i \in Slots |-> NoSocket]
  /\ out = [i \in Slots |-> <<>>]
  /\ msgmax = 0
  /\ pipe = 0 /\ arrived = 0 /\ eof = FALSE
  /\ backlog = <<>>
  /\ peer = [c \in Clients |-> "away"]
  /\ inflight = [i \in Slots |-> 0]
  /\ since = [i \in Slots |-> 0] /\ sent = [i \in Slots |-> 0]

(***************************************************************************)
(* The parent and the clients.  Clients only read.  What one writes all    *)
(* the same would go to in_buf, which nobody looks at; the branch of        *)
(* readsock for more of it than BUF_SIZE is left out.                      *)
(***************************************************************************)
Produce(n) ==
  /\ ~eof
  /\ pipe + n <= PipeSize
  /\ arrived + pipe + n <= MaxBytes
  /\ pipe' = pipe + n
  /\ UNCHANGED <<pc, poll, runloop, fdset, out, listVars, arrived, eof, backlog, peer, inflight,
                 historyVars>>

(* The parent exits: its end of the pipe is closed. *)
CloseParent ==
  /\ ~eof
  /\ eof' = TRUE
  /\ UNCHANGED <<pc, poll, runloop, fdset, out, listVars, pipe, arrived, backlog, peer, inflight,
                 historyVars>>

Connect(c) ==
  /\ pc # "done"
  /\ peer[c] = "away"
  /\ Len(backlog) < Backlog
  /\ peer' = [peer EXCEPT ![c] = "there"]
  /\ backlog' = Append(backlog, c)
  /\ UNCHANGED <<pc, poll, runloop, fdset, out, listVars, pipeVars, inflight, historyVars>>

Disconnect(c) ==
  /\ peer[c] = "there"
  /\ peer' = [peer EXCEPT ![c] = "gone"]
  /\ UNCHANGED <<pc, poll, runloop, fdset, out, listVars, pipeVars, backlog, inflight,
                 historyVars>>

(* The client of slot i reads what has come. *)
Drain(i) ==
  /\ sock[i] # NoSocket
  /\ peer[sock[i]] = "there"
  /\ inflight[i] > 0
  /\ inflight' = [inflight EXCEPT ![i] = 0]
  /\ UNCHANGED <<pc, poll, runloop, fdset, out, listVars, pipeVars, backlog, peer, historyVars>>

Open == { i \in Slots : sock[i] # NoSocket }
Listed == { i \in Slots : i < msgmax }
Least(a, b) == IF a <= b THEN a ELSE b

(***************************************************************************)
(* Faulty variants of some of the definitions below, as a slip in the code *)
(* would make them: no specification uses them, they show that the         *)
(* properties can fail.                                                    *)
(***************************************************************************)
CloseSocks_shrink(K) ==
  /\ sock' = [i \in Slots |-> IF i \in K THEN NoSocket ELSE sock[i]]
  /\ msgmax' = IF K # {} THEN msgmax - 1 ELSE msgmax
  /\ peer' = [c \in Clients |-> IF \E i \in K : sock[i] = c THEN "away" ELSE peer[c]]

FirstFree_noSearch(i) == i = msgmax

Joined_dropNewest(buf, msg) == SubSeq(buf \o msg, 1, Least(Len(buf) + Len(msg), BufSize))

Refuse_noDequeue(i) ==
  /\ i >= ClientMax
  /\ UNCHANGED <<backlog, peer, listVars, inflight, historyVars>>

EndOfPipe_noBreak ==
  /\ pc = "pipe" /\ InPipe \in fdset /\ pipe = 0 /\ eof
  /\ pc' = "write"
  /\ UNCHANGED <<poll, runloop, fdset, out, listVars, pipeVars, backlog, peer, inflight,
                 historyVars>>

WriteSock_noMemmove ==
  /\ pc = "write"
  /\ LET byte == [i \in Slots |->
           IF i \in Open \cap Listed THEN Least(Len(out[i]), SocketSize - inflight[i]) ELSE 0]
     IN /\ out' = [i \in Slots |-> SubSeq(out[i], 1, Len(out[i]) - byte[i])]
        /\ inflight' = [i \in Slots |-> inflight[i] + byte[i]]
        /\ sent' = [i \in Slots |-> IF byte[i] = 0 THEN sent[i] ELSE out[i][byte[i]]]
        /\ poll' = \E i \in Slots : byte[i] > 0 /\ byte[i] < Len(out[i])
  /\ pc' = "read"
  /\ UNCHANGED <<runloop, fdset, pipeVars, backlog, listVars, peer, since>>

ReadSock_notClosed ==
  /\ pc = "read"
  /\ pc' = "while"
  /\ UNCHANGED <<poll, runloop, fdset, out, listVars, pipeVars, backlog, peer, inflight,
                 historyVars>>

(***************************************************************************)
(* Operators on the client list.                                           *)
(***************************************************************************)
(* The slots of K are closed, in ascending order: msgmax goes down by one, *)
(* if the last slot listed is among them.  The buffers keep their bytes.   *)
CloseSocks(K) ==
  /\ sock' = [i \in Slots |-> IF i \in K THEN NoSocket ELSE sock[i]]
  /\ msgmax' = IF msgmax - 1 \in K THEN msgmax - 1 ELSE msgmax
  /\ peer' = [c \in Clients |-> IF \E i \in K : sock[i] = c THEN "away" ELSE peer[c]]

(* Process exit: the kernel closes every descriptor. *)
Leave ==
  /\ pc' = "done"
  /\ sock' = [i \in Slots |-> NoSocket]
  /\ peer' = [c \in Clients |-> "away"]
  /\ backlog' = <<>>
  /\ UNCHANGED msgmax

(* The slot opensock takes: the first that is not open, or msgmax. *)
FirstFree(i) ==
  /\ i < msgmax => sock[i] = NoSocket
  /\ \A j \in 0..(i - 1) : sock[j] # NoSocket

(* A message joins a buffer: when there is no room the oldest bytes go. *)
Joined(buf, msg) ==
  LET delta == Len(msg) + Len(buf) - BufSize
  IN IF delta > 0 THEN SubSeq(buf, delta + 1, Len(buf)) \o msg ELSE buf \o msg

(***************************************************************************)
(* The steps of the loop.                                                  *)
(***************************************************************************)
Watched == {Listen, InPipe} \cup { sock[i] : i \in Open \cap Listed }

Ready ==
  { fd \in Watched : CASE fd = Listen -> backlog # <<>>
                       [] fd = InPipe -> pipe > 0 \/ eof
                       [] OTHER -> peer[fd] = "gone" }

Select ==
  /\ pc = "select"
  /\ poll \/ Ready # {}
  /\ fdset' = Ready
  /\ pc' = "open"
  /\ UNCHANGED <<poll, runloop, out, listVars, pipeVars, backlog, peer, inflight, historyVars>>

(* trap_reset.  A select that blocks is interrupted and "continue" tests   *)
(* runloop; one that only polls may be interrupted too, which leaves fdset *)
(* as it was passed.  Between the test and the call nothing is interrupted. *)
TrapReset ==
  /\ Signals
  /\ pc # "done"
  /\ runloop' = FALSE
  /\ \/ UNCHANGED <<pc, fdset>>
     \/ pc = "select" /\ ~poll /\ pc' = "while" /\ UNCHANGED fdset
     \/ pc = "select" /\ poll /\ pc' = "open" /\ fdset' = Watched
  /\ UNCHANGED <<poll, out, listVars, pipeVars, backlog, peer, inflight, historyVars>>

(* accept of the first client that waits; it blocks if there is none.  It  *)
(* may fail for a client that has gone.  There are descriptors for all the *)
(* slots, and fcntl does not fail on a socket that was just accepted.      *)
Accept(i) ==
  /\ i < ClientMax
  /\ sock' = [sock EXCEPT ![i] = Head(backlog)]
  /\ msgmax' = IF i = msgmax THEN msgmax + 1 ELSE msgmax
  /\ inflight' = [inflight EXCEPT ![i] = 0]
  /\ since' = [since EXCEPT ![i] = arrived]
  /\ sent' = [sent EXCEPT ![i] = 0]
  /\ backlog' = Tail(backlog)
  /\ UNCHANGED peer

AcceptFails(i) ==
  /\ i < ClientMax
  /\ peer[Head(backlog)] = "gone"
  /\ backlog' = Tail(backlog)
  /\ peer' = [peer EXCEPT ![Head(backlog)] = "away"]
  /\ UNCHANGED <<listVars, inflight, historyVars>>

Refuse(i) ==
  /\ i >= ClientMax
  /\ backlog' = Tail(backlog)
  /\ peer' = [peer EXCEPT ![Head(backlog)] = "away"]
  /\ UNCHANGED <<listVars, inflight, historyVars>>

OpenSock ==
  /\ pc = "open"
  /\ IF Listen \in fdset
     THEN /\ backlog # <<>>
          /\ \E i \in 0..msgmax : FirstFree(i) /\ (Accept(i) \/ AcceptFails(i) \/ Refuse(i))
     ELSE UNCHANGED <<backlog, peer, inflight, listVars, historyVars>>
  /\ poll' = FALSE
  /\ pc' = "pipe"
  /\ UNCHANGED <<runloop, fdset, out, pipeVars>>

(* writeraw, with its test of sock against 0 and not -1: every slot below  *)
(* msgmax gets the bytes, the closed ones as well.                         *)
WriteRaw(buf) ==
  out' = [i \in Slots |-> IF i \in Listed THEN Joined(out[i], buf) ELSE out[i]]

(* The next bytes of the stream after the first a. *)
BytesAfter(a, size) == [k \in 1..size |-> a + k]

(* The read of the pipe blocks when it is empty and the parent is there. *)
ReadPipe ==
  /\ pc = "pipe" /\ InPipe \in fdset /\ pipe > 0
  /\ LET size == Least(pipe, BufSize)
     IN /\ WriteRaw(BytesAfter(arrived, size))
        /\ pipe' = pipe - size
        /\ arrived' = arrived + size
  /\ pc' = "write"
  /\ UNCHANGED <<poll, runloop, fdset, listVars, eof, backlog, peer, inflight, historyVars>>

NoPipe ==
  /\ pc = "pipe" /\ InPipe \notin fdset
  /\ pc' = "write"
  /\ UNCHANGED <<poll, runloop, fdset, out, listVars, pipeVars, backlog, peer, inflight,
                 historyVars>>

EndOfPipe ==
  /\ pc = "pipe" /\ InPipe \in fdset /\ pipe = 0 /\ eof
  /\ Leave
  /\ UNCHANGED <<poll, runloop, fdset, out, pipeVars, inflight, historyVars>>

(* writesock.  A write takes what the kernel has room for; it fails, or is *)
(* taken for nothing, when the client has gone.  A write that fails for    *)
(* lack of room is not counted, so that poll is set only by one that took  *)
(* a part of the buffer.                                                   *)
WriteSock ==
  /\ pc = "write"
  /\ \E failed \in SUBSET { i \in Open \cap Listed : out[i] # <<>> /\ peer[sock[i]] = "gone" } :
       LET byte == [i \in Slots |->
             IF i \in (Open \cap Listed) \ failed
             THEN Least(Len(out[i]), SocketSize - inflight[i]) ELSE 0]
       IN /\ CloseSocks(failed)
          /\ out' = [i \in Slots |-> SubSeq(out[i], byte[i] + 1, Len(out[i]))]
          /\ inflight' = [i \in Slots |-> inflight[i] + byte[i]]
          /\ sent' = [i \in Slots |-> IF byte[i] = 0 THEN sent[i] ELSE out[i][byte[i]]]
          /\ poll' = \E i \in Slots : byte[i] > 0 /\ byte[i] < Len(out[i])
  /\ pc' = "read"
  /\ UNCHANGED <<runloop, fdset, pipeVars, backlog, since>>

(* readsock: a read that gives nothing is the end of a connection. *)
ReadSock ==
  /\ pc = "read"
  /\ CloseSocks({ i \in Open \cap Listed : sock[i] \in fdset /\ peer[sock[i]] = "gone" })
  /\ pc' = "while"
  /\ UNCHANGED <<poll, runloop, fdset, out, pipeVars, backlog, inflight, historyVars>>

While ==
  /\ pc = "while"
  /\ IF runloop THEN pc' = "select" /\ UNCHANGED <<listVars, peer, backlog>> ELSE Leave
  /\ UNCHANGED <<poll, runloop, fdset, out, pipeVars, inflight, historyVars>>

Server ==
  \/ Select \/ OpenSock \/ ReadPipe \/ NoPipe \/ EndOfPipe \/ WriteSock \/ ReadSock \/ While

Environment ==
  \/ \E n \in 1..PipeSize : Produce(n)
  \/ CloseParent
  \/ \E c \in Clients : Connect(c) \/ Disconnect(c)
  \/ \E i \in Slots : Drain(i)

Next == Server \/ TrapReset \/ Environment

Spec == Init /\ [][Next]_vars

(* The child runs; nothing is assumed of its parent, its clients or the    *)
(* senders of SIGUSR1.                                                     *)
FairSpec == Spec /\ WF_vars(Server)

(***************************************************************************)
(* What the child promises.                                                *)
(***************************************************************************)
TypeOK ==
  /\ pc \in Labels
  /\ poll \in BOOLEAN /\ runloop \in BOOLEAN /\ eof \in BOOLEAN
  /\ fdset \subseteq Clients \cup {Listen, InPipe}
  /\ sock \in [Slots -> Clients \cup {NoSocket}]
  /\ out \in [Slots -> Seq(1..arrived)]
  /\ \A i \in Slots : Len(out[i]) <= BufSize
  /\ msgmax \in 0..ClientMax
  /\ pipe \in 0..PipeSize /\ arrived \in Nat
  /\ backlog \in Seq(Clients)
  /\ peer \in [Clients -> {"away", "there", "gone"}]
  /\ inflight \in [Slots -> 0..SocketSize]
  /\ since \in [Slots -> 0..arrived] /\ sent \in [Slots -> 0..arrived]

(* The loops of pollsock, writeraw, writesock and readsock go up to msgmax: *)
(* a connection is never left above it, where nobody would serve or close  *)
(* it, however connections are opened and closed in any order.             *)
OpenIsListed == Open \subseteq Listed

(* A client is sent bytes in the order of the stream and none twice,       *)
(* however its writes are cut short and its buffer overflows.              *)
InOrder ==
  \A i \in Slots :
    /\ \A j, k \in DOMAIN out[i] : j < k => out[i][j] < out[i][k]
    /\ sock[i] # NoSocket => \A j \in DOMAIN out[i] : sent[i] < out[i][j]

(* A slow client loses only its oldest bytes: of what has come since it    *)
(* connected and was not sent, the last BufSize bytes are in its buffer.   *)
RecentKept ==
  \A i \in Open : \A b \in (since[i] + 1)..arrived :
    b > sent[i] /\ b > arrived - BufSize => b \in Range(out[i])

(* A client that waits for an answer is only turned away when there are    *)
(* ClientMax connections, though slots are freed in any order.             *)
RefusedWhenFull ==
  [][ pc = "open" => \A c \in Clients :
        peer[c] = "there" /\ peer'[c] = "away" => Open = Slots ]_vars

(* Once the parent has gone the child ends, after it has read what is left *)
(* in the pipe, and the client port is free for the next child.            *)
EndsWithParent == eof ~> pc = "done" \/ ~runloop

(* A client that connects is served or turned away, also while data keep   *)
(* coming and when all the slots are taken.                                *)
Answered == \A c \in Clients : c \in Range(backlog) ~> c \notin Range(backlog) \/ ~runloop

(* The slot of a client that has gone is freed without any data coming.    *)
GoneNoticed ==
  \A i \in Slots :
    i \in Open /\ peer[sock[i]] = "gone" ~> i \notin Open \/ peer[sock[i]] # "gone" \/ ~runloop

(***************************************************************************)
(* The inductive invariant behind InOrder and RecentKept.                  *)
(***************************************************************************)
(* The bytes of a buffer are as far apart as their places in the stream at *)
(* least: they are in order, and n bytes span n places.                    *)
Spread ==
  \A i \in Slots : \A j, k \in 1..Len(out[i]) : j <= k => out[i][k] - out[i][j] >= k - j

(* What is in a buffer has not been sent. *)
Unsent == \A i \in Open : \A j \in 1..Len(out[i]) : sent[i] < out[i][j]

BufferInv == TypeOK /\ OpenIsListed /\ Spread /\ Unsent /\ RecentKept
==============================================================================
