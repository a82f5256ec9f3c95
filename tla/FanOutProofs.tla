---------------------------- MODULE FanOutProofs -----------------------------
(***************************************************************************)
(* Proofs about FanOut: no connection is left out of the loops, a client   *)
(* is turned away only when all slots are taken, and each client is sent   *)
(* the bytes of the stream in order, losing only the oldest ones.          *)
(***************************************************************************)
EXTENDS FanOut, SequenceTheorems, TLAPS

USE DEF Slots, Labels, Listen, InPipe

(* The first bytes of a buffer leave it. *)
LEMMA DroppedProperties ==
  ASSUME NEW S, NEW buf \in Seq(S), NEW byte \in 0..Len(buf)
  PROVE  /\ SubSeq(buf, byte + 1, Len(buf)) \in Seq(S)
         /\ Len(SubSeq(buf, byte + 1, Len(buf))) = Len(buf) - byte
         /\ \A k \in 1..(Len(buf) - byte) : SubSeq(buf, byte + 1, Len(buf))[k] = buf[k + byte]
<1> DEFINE rest == SubSeq(buf, byte + 1, Len(buf))
<1>1. Len(buf) \in Nat /\ byte + 1 \in Int /\ Len(buf) \in Int
  OBVIOUS
<1>2. \A k \in (byte + 1)..Len(buf) : buf[k] \in S
  BY <1>1
<1>3. /\ rest \in Seq(S)
      /\ Len(rest) = IF byte + 1 <= Len(buf) THEN Len(buf) - (byte + 1) + 1 ELSE 0
      /\ \A k \in 1..(Len(buf) - (byte + 1) + 1) : rest[k] = buf[byte + 1 + k - 1]
  BY <1>1, <1>2, SubSeqProperties
<1> HIDE DEF rest
<1>4. Len(rest) = Len(buf) - byte
  BY <1>1, <1>3
<1>5. ASSUME NEW k \in 1..(Len(buf) - byte) PROVE rest[k] = buf[k + byte]
  <2>1. k \in 1..(Len(buf) - (byte + 1) + 1) /\ byte + 1 + k - 1 = k + byte
    BY <1>1
  <2> QED
    BY <2>1, <1>3
<1> QED
  BY <1>3, <1>4, <1>5 DEF rest

(* The number of bytes that make room for a message. *)
Gone(buf, size) ==
  IF size + Len(buf) - BufSize > 0 THEN size + Len(buf) - BufSize ELSE 0

(* The bytes of a buffer that a message joins: those of the old buffer but *)
(* the first "gone" of them, then those of the message.                    *)
LEMMA JoinedProperties ==
  ASSUME NEW a \in Nat, NEW size \in 1..BufSize,
         NEW buf \in Seq(1..a), Len(buf) <= BufSize
  PROVE  LET joined == Joined(buf, BytesAfter(a, size))
             kept == Len(buf) - Gone(buf, size)
         IN /\ Gone(buf, size) \in 0..Len(buf)
            /\ joined \in Seq(1..(a + size))
            /\ Len(joined) = kept + size
            /\ Len(joined) <= BufSize
            /\ \A k \in 1..kept : joined[k] = buf[k + Gone(buf, size)]
            /\ \A k \in (kept + 1)..Len(joined) : joined[k] = a + (k - kept)
<1> DEFINE msg == BytesAfter(a, size)
           joined == Joined(buf, msg)
<1>1. BufSize \in Nat /\ Len(buf) \in Nat /\ size \in Nat
  BY SizesAssumption
<1>2. /\ msg \in Seq(1..(a + size)) /\ Len(msg) = size
      /\ \A k \in 1..size : msg[k] = a + k
  BY <1>1 DEF BytesAfter
<1> HIDE DEF msg
<1>3. buf \in Seq(1..(a + size))
  BY <1>1
<1> DEFINE gone == Gone(buf, size)
<1>4. gone \in 0..Len(buf) /\ Len(buf) - gone + size <= BufSize
  BY <1>1 DEF Gone
<1> DEFINE rest == SubSeq(buf, gone + 1, Len(buf))
<1>5. joined = rest \o msg
  <2>1. CASE size + Len(buf) - BufSize > 0
    BY <2>1, <1>2 DEF Joined, Gone
  <2>2. CASE ~(size + Len(buf) - BufSize > 0)
    <3>1. joined = buf \o msg
      BY <2>2, <1>2 DEF Joined
    <3>2. gone + 1 = 1
      BY <2>2 DEF Gone
    <3>3. rest = buf
      BY <3>2, <1>3, SubSeqFull
    <3> QED
      BY <3>1, <3>3
  <2> QED
    BY <2>1, <2>2
<1>6. /\ rest \in Seq(1..(a + size))
      /\ Len(rest) = Len(buf) - gone
      /\ \A k \in 1..(Len(buf) - gone) : rest[k] = buf[k + gone]
  <2>1. gone \in 0..Len(buf)
    BY <1>4
  <2> QED
    BY <2>1, <1>3, DroppedProperties, Zenon
<1> HIDE DEF rest, gone, joined
<1>6a. Len(rest) = Len(buf) - gone /\ Len(msg) = size /\ gone \in 0..Len(buf)
  BY <1>2, <1>4, <1>6, Zenon
<1>7. /\ joined \in Seq(1..(a + size))
      /\ Len(joined) = Len(rest) + Len(msg)
      /\ \A k \in 1..(Len(rest) + Len(msg)) :
           joined[k] = IF k <= Len(rest) THEN rest[k] ELSE msg[k - Len(rest)]
  <2> DEFINE S == 1..(a + size)
  <2>1. rest \in Seq(S) /\ msg \in Seq(S)
    BY <1>2, <1>6
  <2> HIDE DEF S
  <2>2. /\ rest \o msg \in Seq(S)
        /\ Len(rest \o msg) = Len(rest) + Len(msg)
        /\ \A k \in 1..(Len(rest) + Len(msg)) :
             (rest \o msg)[k] = IF k <= Len(rest) THEN rest[k] ELSE msg[k - Len(rest)]
    BY <2>1, ConcatProperties, Zenon
  <2> QED
    BY <2>2, <1>5, Zenon DEF S
<1>8. Len(joined) = Len(buf) - gone + size
  BY <1>2, <1>6, <1>7, Zenon
<1>9. ASSUME NEW k \in 1..(Len(buf) - gone) PROVE joined[k] = buf[k + gone]
  <2>1. k \in 1..(Len(rest) + Len(msg)) /\ k <= Len(rest)
    BY <1>1, <1>6a
  <2> QED
    BY <2>1, <1>6, <1>7, Zenon
<1>10. ASSUME NEW k \in (Len(buf) - gone + 1)..Len(joined)
       PROVE  joined[k] = a + (k - (Len(buf) - gone))
  <2>1. k \in 1..(Len(rest) + Len(msg)) /\ ~(k <= Len(rest))
    BY <1>1, <1>8, <1>6a
  <2>2. k - Len(rest) \in 1..size
    BY <2>1, <1>1, <1>6a
  <2>3. joined[k] = msg[k - Len(rest)]
    BY <2>1, <1>7, Zenon
  <2> QED
    BY <2>2, <2>3, <1>2, <1>6, Zenon
<1> QED
  <2>1. gone \in 0..Len(buf) /\ Len(joined) <= BufSize
    BY <1>4, <1>8
  <2> QED
    BY <2>1, <1>7, <1>8, <1>9, <1>10, Zenon DEF gone, joined, msg

(* Closing slots leaves the other ones open, and msgmax above them. *)
LEMMA Closing ==
  ASSUME TypeOK, NEW K \in SUBSET Slots, CloseSocks(K)
  PROVE  /\ sock' \in [Slots -> Clients \cup {NoSocket}]
         /\ msgmax' \in 0..ClientMax
         /\ peer' \in [Clients -> {"away", "there", "gone"}]
         /\ \A i \in Slots : sock'[i] = IF i \in K THEN NoSocket ELSE sock[i]
         /\ OpenIsListed => OpenIsListed'
<1>1. ClientMax \in Nat
  BY SizesAssumption
<1>2. sock' \in [Slots -> Clients \cup {NoSocket}]
  BY DEF TypeOK, CloseSocks
<1>3. msgmax' \in 0..ClientMax
  <2>1. CASE msgmax - 1 \in K
    BY <2>1, <1>1 DEF TypeOK, CloseSocks
  <2>2. CASE msgmax - 1 \notin K
    BY <2>2 DEF TypeOK, CloseSocks
  <2> QED
    BY <2>1, <2>2
<1>4. peer' \in [Clients -> {"away", "there", "gone"}]
  BY DEF TypeOK, CloseSocks
<1>5. \A i \in Slots : sock'[i] = IF i \in K THEN NoSocket ELSE sock[i]
  BY DEF CloseSocks
<1>6. ASSUME OpenIsListed PROVE OpenIsListed'
  <2> SUFFICES ASSUME NEW i \in Slots, sock'[i] # NoSocket PROVE i < msgmax'
    BY DEF OpenIsListed, Open, Listed
  <2>1. i \notin K /\ sock[i] # NoSocket
    BY <1>5
  <2>2. i < msgmax /\ msgmax \in Nat /\ i \in Nat
    <3>1. i < msgmax
      BY <2>1, <1>6 DEF OpenIsListed, Open, Listed
    <3>2. msgmax \in 0..ClientMax
      BY DEF TypeOK
    <3> QED
      BY <3>1, <3>2, <1>1
  <2>3. CASE msgmax - 1 \in K
    <3>1. i # msgmax - 1
      BY <2>1, <2>3
    <3>2. msgmax' = msgmax - 1
      BY <2>3 DEF CloseSocks
    <3> QED
      BY <3>1, <3>2, <2>2
  <2>4. CASE msgmax - 1 \notin K
    BY <2>2, <2>4 DEF CloseSocks
  <2> QED
    BY <2>3, <2>4
<1> QED
  BY <1>2, <1>3, <1>4, <1>5, <1>6

(* What a write takes of a buffer: no more than there is, nor than the     *)
(* kernel has room for.                                                    *)
LEMMA Written ==
  ASSUME TypeOK, NEW F \in SUBSET Slots, NEW i \in Slots,
         NEW n, n = IF i \in (Open \cap Listed) \ F
                    THEN Least(Len(out[i]), SocketSize - inflight[i]) ELSE 0
  PROVE  /\ n \in 0..Len(out[i])
         /\ inflight[i] + n \in 0..SocketSize
<1>1. Len(out[i]) \in Nat /\ inflight[i] \in 0..SocketSize /\ SocketSize \in Nat
  <2>1. out[i] \in Seq(1..arrived)
    BY DEF TypeOK
  <2> QED
    BY <2>1, SizesAssumption DEF TypeOK
<1>2. CASE n = Len(out[i]) /\ Len(out[i]) <= SocketSize - inflight[i]
  BY <1>1, <1>2
<1>3. CASE n = SocketSize - inflight[i] /\ ~(Len(out[i]) <= SocketSize - inflight[i])
  BY <1>1, <1>3
<1>4. CASE n = 0
  BY <1>1, <1>4
<1> QED
  BY <1>2, <1>3, <1>4 DEF Least

(* Accepting a client takes a slot of the list, or the first above it. *)
LEMMA Accepting ==
  ASSUME TypeOK, backlog # <<>>, NEW i \in 0..msgmax, FirstFree(i), Accept(i)
  PROVE  /\ i \in Slots
         /\ sock' \in [Slots -> Clients \cup {NoSocket}]
         /\ sock' = [sock EXCEPT ![i] = sock'[i]]
         /\ sock'[i] \in Clients
         /\ msgmax' \in 0..ClientMax
         /\ OpenIsListed => OpenIsListed'
<1>1. ClientMax \in Nat /\ msgmax \in 0..ClientMax /\ i \in Nat /\ i <= msgmax /\ i < ClientMax
  BY SizesAssumption DEF TypeOK, Accept
<1>2. i \in Slots
  BY <1>1
<1>3. Head(backlog) \in Clients
  BY HeadTailProperties DEF TypeOK
<1>4. sock' = [sock EXCEPT ![i] = Head(backlog)]
  BY DEF Accept
<1>5. sock' \in [Slots -> Clients \cup {NoSocket}] /\ sock'[i] = Head(backlog)
  BY <1>2, <1>3, <1>4 DEF TypeOK
<1>6. msgmax' \in 0..ClientMax /\ i < msgmax' /\ msgmax <= msgmax'
  BY <1>1 DEF Accept
<1>7. ASSUME OpenIsListed PROVE OpenIsListed'
  <2> SUFFICES ASSUME NEW j \in Slots, sock'[j] # NoSocket PROVE j < msgmax'
    BY DEF OpenIsListed, Open, Listed
  <2>1. CASE j = i
    BY <2>1, <1>6
  <2>2. CASE j # i
    <3>1. sock[j] # NoSocket
      BY <2>2, <1>4 DEF TypeOK
    <3>2. j < msgmax /\ j \in Nat
      BY <3>1, <1>1, <1>7 DEF OpenIsListed, Open, Listed
    <3> QED
      BY <3>2, <1>1, <1>6
  <2> QED
    BY <2>1, <2>2
<1> QED
  BY <1>2, <1>3, <1>4, <1>5, <1>6, <1>7

(* A buffer that was filled stays within the stream read so far. *)
LEMMA StreamGrows ==
  ASSUME NEW a \in Nat, NEW b \in Nat, a <= b, NEW buf \in Seq(1..a)
  PROVE  buf \in Seq(1..b)
OBVIOUS

LEMMA WatchedType == TypeOK => Watched \subseteq Clients \cup {Listen, InPipe}
<1> SUFFICES ASSUME TypeOK, NEW i \in Open PROVE sock[i] \in Clients
  BY DEF Watched
<1> QED
  BY DEF TypeOK, Open

(* What a read of the pipe does to the buffers. *)
ReadEffect(size) ==
  /\ arrived' = arrived + size
  /\ pipe' \in 0..PipeSize
  /\ UNCHANGED <<sock, msgmax, since, sent>>
  /\ out' \in [Slots -> Seq(1..(arrived + size))]
  /\ \A i \in Slots : Len(out'[i]) <= BufSize
  /\ \A i \in Slots \ Listed : out'[i] = out[i]
  /\ \A i \in Listed :
       LET gone == Gone(out[i], size)
           kept == Len(out[i]) - gone
       IN /\ gone \in 0..Len(out[i])
          /\ Len(out'[i]) = kept + size
          /\ \A k \in 1..kept : out'[i][k] = out[i][k + gone]
          /\ \A k \in (kept + 1)..Len(out'[i]) : out'[i][k] = arrived + (k - kept)

LEMMA Reading ==
  ASSUME TypeOK, ReadPipe
  PROVE  \E size \in 1..BufSize : ReadEffect(size)
<1> USE DEF listVars, historyVars
<1> DEFINE size == Least(pipe, BufSize)
<1>1. size \in 1..BufSize /\ size <= pipe /\ BufSize \in Nat /\ arrived \in Nat
  BY SizesAssumption DEF ReadPipe, Least, TypeOK
<1>2. arrived' = arrived + size /\ pipe' = pipe - size
  BY DEF ReadPipe
<1>3. pipe' \in 0..PipeSize /\ arrived <= arrived + size /\ arrived + size \in Nat
  BY <1>1, <1>2, SizesAssumption DEF TypeOK
<1>4. out' = [i \in Slots |->
               IF i \in Listed THEN Joined(out[i], BytesAfter(arrived, size)) ELSE out[i]]
  BY DEF ReadPipe, WriteRaw
<1> HIDE DEF size
<1>5. ASSUME NEW i \in Slots PROVE out[i] \in Seq(1..arrived) /\ Len(out[i]) <= BufSize
  BY DEF TypeOK
<1>6. ASSUME NEW i \in Listed
      PROVE  LET kept == Len(out[i]) - Gone(out[i], size)
             IN /\ Gone(out[i], size) \in 0..Len(out[i])
                /\ out'[i] \in Seq(1..(arrived + size))
                /\ Len(out'[i]) = kept + size
                /\ Len(out'[i]) <= BufSize
                /\ \A k \in 1..kept : out'[i][k] = out[i][k + Gone(out[i], size)]
                /\ \A k \in (kept + 1)..Len(out'[i]) : out'[i][k] = arrived + (k - kept)
  <2>1. out[i] \in Seq(1..arrived) /\ Len(out[i]) <= BufSize
    BY <1>5 DEF Listed
  <2>2. out'[i] = Joined(out[i], BytesAfter(arrived, size))
    BY <1>4 DEF Listed
  <2> DEFINE joined == Joined(out[i], BytesAfter(arrived, size))
             kept == Len(out[i]) - Gone(out[i], size)
  <2>3. /\ Gone(out[i], size) \in 0..Len(out[i])
        /\ joined \in Seq(1..(arrived + size))
        /\ Len(joined) = kept + size
        /\ Len(joined) <= BufSize
        /\ \A k \in 1..kept : joined[k] = out[i][k + Gone(out[i], size)]
        /\ \A k \in (kept + 1)..Len(joined) : joined[k] = arrived + (k - kept)
    <3>1. arrived \in Nat
      BY <1>1
    <3>2. size \in 1..BufSize
      BY <1>1
    <3>3. out[i] \in Seq(1..arrived)
      BY <2>1
    <3>4. Len(out[i]) <= BufSize
      BY <2>1
    <3> QED
      BY <3>1, <3>2, <3>3, <3>4, JoinedProperties
  <2> QED
    BY <2>2, <2>3, Zenon
<1>7. ASSUME NEW i \in Listed
      PROVE  out'[i] \in Seq(1..(arrived + size)) /\ Len(out'[i]) <= BufSize
  BY <1>6, Zenon
<1>8. \A i \in Slots \ Listed : out'[i] = out[i]
  BY <1>4
<1>9. ASSUME NEW i \in Slots \ Listed
      PROVE  out'[i] \in Seq(1..(arrived + size)) /\ Len(out'[i]) <= BufSize
  <2>1. out[i] \in Seq(1..arrived) /\ Len(out[i]) <= BufSize
    BY <1>5
  <2> QED
    BY <2>1, <1>1, <1>3, <1>8, StreamGrows
<1>10. out' \in [Slots -> Seq(1..(arrived + size))] /\ \A i \in Slots : Len(out'[i]) <= BufSize
  <2>1. \A i \in Slots : out'[i] \in Seq(1..(arrived + size)) /\ Len(out'[i]) <= BufSize
    BY <1>7, <1>9
  <2> QED
    BY <1>4, <2>1
<1>11. UNCHANGED <<sock, msgmax, since, sent>>
  BY DEF ReadPipe
<1>12. ReadEffect(size)
  BY <1>2, <1>3, <1>6, <1>8, <1>10, <1>11, Zenon DEF ReadEffect
<1> QED
  BY <1>1, <1>12

(* What the writes to the clients do to the buffers and the connections. *)
WriteEffect(byte) ==
  /\ UNCHANGED <<arrived, since>>
  /\ poll' \in BOOLEAN
  /\ out' \in [Slots -> Seq(1..arrived)]
  /\ inflight' \in [Slots -> 0..SocketSize]
  /\ sent' \in [Slots -> 0..arrived]
  /\ sock' \in [Slots -> Clients \cup {NoSocket}]
  /\ msgmax' \in 0..ClientMax
  /\ peer' \in [Clients -> {"away", "there", "gone"}]
  /\ OpenIsListed => OpenIsListed'
  /\ \A i \in Slots :
       /\ sock'[i] \in {sock[i], NoSocket}
       /\ byte[i] \in 0..Len(out[i])
       /\ Len(out'[i]) = Len(out[i]) - byte[i]
       /\ Len(out'[i]) <= BufSize
       /\ \A k \in 1..Len(out'[i]) : out'[i][k] = out[i][k + byte[i]]
       /\ sent'[i] = IF byte[i] = 0 THEN sent[i] ELSE out[i][byte[i]]

LEMMA Writing ==
  ASSUME TypeOK, WriteSock
  PROVE  \E byte \in [Slots -> Nat] : WriteEffect(byte)
<1>1. PICK F \in SUBSET { i \in Open \cap Listed : out[i] # <<>> /\ peer[sock[i]] = "gone" } :
        LET byte == [i \in Slots |->
              IF i \in (Open \cap Listed) \ F
              THEN Least(Len(out[i]), SocketSize - inflight[i]) ELSE 0]
        IN /\ CloseSocks(F)
           /\ out' = [i \in Slots |-> SubSeq(out[i], byte[i] + 1, Len(out[i]))]
           /\ inflight' = [i \in Slots |-> inflight[i] + byte[i]]
           /\ sent' = [i \in Slots |-> IF byte[i] = 0 THEN sent[i] ELSE out[i][byte[i]]]
           /\ poll' = \E i \in Slots : byte[i] > 0 /\ byte[i] < Len(out[i])
  BY DEF WriteSock
<1> DEFINE byte == [i \in Slots |->
                      IF i \in (Open \cap Listed) \ F
                      THEN Least(Len(out[i]), SocketSize - inflight[i]) ELSE 0]
<1>2. F \in SUBSET Slots
  BY DEF Open
<1>3. \A i \in Slots : byte[i] \in 0..Len(out[i]) /\ inflight[i] + byte[i] \in 0..SocketSize
  BY <1>2, Written
<1>4. /\ out' = [i \in Slots |-> SubSeq(out[i], byte[i] + 1, Len(out[i]))]
      /\ inflight' = [i \in Slots |-> inflight[i] + byte[i]]
      /\ sent' = [i \in Slots |-> IF byte[i] = 0 THEN sent[i] ELSE out[i][byte[i]]]
      /\ poll' \in BOOLEAN
      /\ CloseSocks(F)
  BY <1>1
<1> HIDE DEF byte
<1>5. ASSUME NEW i \in Slots
      PROVE  /\ out'[i] \in Seq(1..arrived)
             /\ Len(out'[i]) <= BufSize
             /\ sent'[i] \in 0..arrived
             /\ byte[i] \in 0..Len(out[i])
             /\ Len(out'[i]) = Len(out[i]) - byte[i]
             /\ \A k \in 1..Len(out'[i]) : out'[i][k] = out[i][k + byte[i]]
             /\ sent'[i] = IF byte[i] = 0 THEN sent[i] ELSE out[i][byte[i]]
  <2>1. out[i] \in Seq(1..arrived) /\ Len(out[i]) <= BufSize /\ sent[i] \in 0..arrived
    BY DEF TypeOK
  <2>2. byte[i] \in 0..Len(out[i])
    BY <1>3
  <2>3. out'[i] = SubSeq(out[i], byte[i] + 1, Len(out[i]))
    BY <1>4
  <2>4. /\ out'[i] \in Seq(1..arrived) /\ Len(out'[i]) = Len(out[i]) - byte[i]
        /\ \A k \in 1..Len(out'[i]) : out'[i][k] = out[i][k + byte[i]]
    <3>1. out[i] \in Seq(1..arrived)
      BY <2>1
    <3>2. /\ SubSeq(out[i], byte[i] + 1, Len(out[i])) \in Seq(1..arrived)
          /\ Len(SubSeq(out[i], byte[i] + 1, Len(out[i]))) = Len(out[i]) - byte[i]
          /\ \A k \in 1..(Len(out[i]) - byte[i]) :
               SubSeq(out[i], byte[i] + 1, Len(out[i]))[k] = out[i][k + byte[i]]
      BY <3>1, <2>2, DroppedProperties, Zenon
    <3> QED
      BY <3>2, <2>3
  <2>5. Len(out'[i]) <= BufSize
    BY <2>1, <2>2, <2>4, SizesAssumption
  <2>6. sent'[i] = IF byte[i] = 0 THEN sent[i] ELSE out[i][byte[i]]
    BY <1>4
  <2>7. byte[i] # 0 => out[i][byte[i]] \in 1..arrived
    <3> SUFFICES ASSUME byte[i] # 0 PROVE out[i][byte[i]] \in 1..arrived
      OBVIOUS
    <3>1. out[i] \in Seq(1..arrived)
      BY <2>1
    <3>2. byte[i] \in 1..Len(out[i])
      BY <3>1, <2>2
    <3> QED
      BY <3>1, <3>2, ElementOfSeq
  <2> QED
    BY <2>1, <2>2, <2>4, <2>5, <2>6, <2>7 DEF TypeOK
<1>6. /\ out' \in [Slots -> Seq(1..arrived)]
      /\ sent' \in [Slots -> 0..arrived]
      /\ inflight' \in [Slots -> 0..SocketSize]
  BY <1>3, <1>4, <1>5
<1>7. /\ sock' \in [Slots -> Clients \cup {NoSocket}]
      /\ msgmax' \in 0..ClientMax
      /\ peer' \in [Clients -> {"away", "there", "gone"}]
      /\ \A i \in Slots : sock'[i] \in {sock[i], NoSocket}
      /\ OpenIsListed => OpenIsListed'
  BY <1>2, <1>4, Closing
<1>8. byte \in [Slots -> Nat]
  <2>1. ASSUME NEW i \in Slots PROVE byte[i] \in Nat
    BY <1>5
  <2> QED
    BY <2>1 DEF byte
<1>9. UNCHANGED <<arrived, since>>
  BY DEF WriteSock, pipeVars
<1>10. WriteEffect(byte)
  BY <1>4, <1>5, <1>6, <1>7, <1>9, Zenon DEF WriteEffect
<1> QED
  BY <1>8, <1>10

LEMMA TypeStep == TypeOK /\ [Next]_vars => TypeOK'
<1> SUFFICES ASSUME TypeOK, [Next]_vars PROVE TypeOK'
  OBVIOUS
<1> USE DEF listVars, pipeVars, historyVars
<1>1. ASSUME NEW n \in 1..PipeSize, Produce(n) PROVE TypeOK'
  BY <1>1, SizesAssumption DEF TypeOK, Produce
<1>2. CASE CloseParent
  BY <1>2 DEF TypeOK, CloseParent
<1>3. ASSUME NEW c \in Clients, Connect(c) PROVE TypeOK'
  <2>1. backlog' \in Seq(Clients)
    BY <1>3 DEF TypeOK, Connect
  <2>2. peer' \in [Clients -> {"away", "there", "gone"}]
    BY <1>3 DEF TypeOK, Connect
  <2> QED
    BY <1>3, <2>1, <2>2 DEF TypeOK, Connect
<1>4. ASSUME NEW c \in Clients, Disconnect(c) PROVE TypeOK'
  BY <1>4 DEF TypeOK, Disconnect
<1>5. ASSUME NEW i \in Slots, Drain(i) PROVE TypeOK'
  BY <1>5, SizesAssumption DEF TypeOK, Drain
<1>6. CASE TrapReset
  <2>1. fdset' \subseteq Clients \cup {Listen, InPipe} /\ pc' \in Labels
    BY <1>6, WatchedType DEF TypeOK, TrapReset
  <2> QED
    BY <1>6, <2>1 DEF TypeOK, TrapReset
<1>7. CASE Select
  <2>1. Ready \subseteq Watched
    BY DEF Ready
  <2>2. fdset' \subseteq Clients \cup {Listen, InPipe}
    BY <1>7, <2>1, WatchedType DEF Select
  <2> QED
    BY <1>7, <2>2 DEF TypeOK, Select
<1>8. CASE OpenSock
  <2>1. CASE Listen \notin fdset
    BY <1>8, <2>1 DEF TypeOK, OpenSock
  <2>2. CASE Listen \in fdset
    <3>1. PICK i \in 0..msgmax : FirstFree(i) /\ (Accept(i) \/ AcceptFails(i) \/ Refuse(i))
      BY <1>8, <2>2 DEF OpenSock
    <3>2. backlog # <<>>
      BY <1>8, <2>2 DEF OpenSock
    <3>3. Tail(backlog) \in Seq(Clients) /\ Head(backlog) \in Clients
      BY <3>2, HeadTailProperties DEF TypeOK
    <3>4. CASE Accept(i)
      <4>1. i \in Slots /\ sock' \in [Slots -> Clients \cup {NoSocket}] /\ msgmax' \in 0..ClientMax
        BY <3>1, <3>2, <3>4, Accepting
      <4>2. inflight' \in [Slots -> 0..SocketSize] /\ since' \in [Slots -> 0..arrived]
            /\ sent' \in [Slots -> 0..arrived]
        BY <3>4, <4>1, SizesAssumption DEF Accept, TypeOK
      <4> QED
        BY <1>8, <3>3, <3>4, <4>1, <4>2 DEF OpenSock, Accept, TypeOK
    <3>5. CASE AcceptFails(i)
      BY <1>8, <3>3, <3>5 DEF OpenSock, AcceptFails, TypeOK
    <3>6. CASE Refuse(i)
      BY <1>8, <3>3, <3>6 DEF OpenSock, Refuse, TypeOK
    <3> QED
      BY <3>1, <3>4, <3>5, <3>6
  <2> QED
    BY <2>1, <2>2
<1>9. CASE ReadPipe
  <2>1. PICK size \in 1..BufSize : ReadEffect(size)
    BY <1>9, Reading
  <2>2. arrived' = arrived + size /\ pipe' \in 0..PipeSize /\ arrived \in Nat /\ size \in Nat
    BY <2>1, SizesAssumption DEF ReadEffect, TypeOK
  <2>3. out' \in [Slots -> Seq(1..arrived')] /\ \A i \in Slots : Len(out'[i]) <= BufSize
    BY <2>1 DEF ReadEffect
  <2>4. since' \in [Slots -> 0..arrived'] /\ sent' \in [Slots -> 0..arrived']
    BY SMTT(30), <1>9, <2>2 DEF ReadPipe, TypeOK
  <2> QED
    BY <1>9, <2>2, <2>3, <2>4 DEF ReadPipe, TypeOK
<1>10. CASE NoPipe
  BY <1>10 DEF TypeOK, NoPipe
<1>11. CASE EndOfPipe
  BY <1>11 DEF TypeOK, EndOfPipe, Leave
<1>12. CASE WriteSock
  <2>1. PICK byte \in [Slots -> Nat] : WriteEffect(byte)
    BY <1>12, Writing
  <2>2. /\ out' \in [Slots -> Seq(1..arrived)]
        /\ \A i \in Slots : Len(out'[i]) <= BufSize
        /\ sent' \in [Slots -> 0..arrived]
        /\ inflight' \in [Slots -> 0..SocketSize]
        /\ poll' \in BOOLEAN
        /\ sock' \in [Slots -> Clients \cup {NoSocket}]
        /\ msgmax' \in 0..ClientMax
        /\ peer' \in [Clients -> {"away", "there", "gone"}]
    BY <2>1 DEF WriteEffect
  <2> QED
    BY <1>12, <2>2 DEF WriteSock, TypeOK
<1>13. CASE ReadSock
  <2> DEFINE K == { i \in Open \cap Listed : sock[i] \in fdset /\ peer[sock[i]] = "gone" }
  <2>1. K \in SUBSET Slots /\ CloseSocks(K)
    BY <1>13 DEF ReadSock, Open
  <2>2. /\ sock' \in [Slots -> Clients \cup {NoSocket}]
        /\ msgmax' \in 0..ClientMax
        /\ peer' \in [Clients -> {"away", "there", "gone"}]
    BY <2>1, Closing
  <2> QED
    BY <1>13, <2>2 DEF ReadSock, TypeOK
<1>14. CASE While
  <2>1. CASE runloop
    BY <1>14, <2>1 DEF TypeOK, While
  <2>2. CASE ~runloop
    BY <1>14, <2>2 DEF TypeOK, While, Leave
  <2> QED
    BY <2>1, <2>2
<1>15. CASE UNCHANGED vars
  BY <1>15 DEF TypeOK, vars
<1> QED
  BY <1>1, <1>2, <1>3, <1>4, <1>5, <1>6, <1>7, <1>8, <1>9, <1>10, <1>11, <1>12, <1>13, <1>14, <1>15
  DEF Next, Server, Environment

LEMMA TypeInit == Init => TypeOK
<1> SUFFICES ASSUME Init PROVE TypeOK
  OBVIOUS
<1>1. ClientMax \in Nat /\ BufSize \in Nat /\ SocketSize \in Nat /\ PipeSize \in Nat
  BY SizesAssumption
<1>2. out \in [Slots -> Seq(1..arrived)] /\ \A i \in Slots : Len(out[i]) <= BufSize
  BY <1>1 DEF Init
<1>3. /\ msgmax \in 0..ClientMax /\ pipe \in 0..PipeSize /\ arrived \in Nat
      /\ inflight \in [Slots -> 0..SocketSize]
      /\ since \in [Slots -> 0..arrived] /\ sent \in [Slots -> 0..arrived]
  BY <1>1 DEF Init
<1>4. /\ sock \in [Slots -> Clients \cup {NoSocket}] /\ backlog \in Seq(Clients)
      /\ peer \in [Clients -> {"away", "there", "gone"}]
  BY DEF Init
<1>5. /\ pc \in Labels /\ poll \in BOOLEAN /\ runloop \in BOOLEAN /\ eof \in BOOLEAN
      /\ fdset \subseteq Clients \cup {Listen, InPipe}
  BY DEF Init
<1> QED
  BY <1>2, <1>3, <1>4, <1>5 DEF TypeOK

(* The children's state stays well-typed; no buffer grows beyond BufSize. *)
THEOREM TypeCorrect == Spec => []TypeOK
  BY TypeInit, TypeStep, PTL DEF Spec

(***************************************************************************)
(* The four ways in which a step changes the connections and their buffers.*)
(***************************************************************************)
Closes ==
  /\ UNCHANGED <<out, arrived, since, sent>>
  /\ \A i \in Slots : sock'[i] \in {sock[i], NoSocket}
  /\ OpenIsListed => OpenIsListed'

Accepts(i) ==
  /\ UNCHANGED <<out, arrived>>
  /\ sock' = [sock EXCEPT ![i] = sock'[i]]
  /\ since' = [since EXCEPT ![i] = arrived]
  /\ sent' = [sent EXCEPT ![i] = 0]
  /\ OpenIsListed => OpenIsListed'

LEMMA StepKinds ==
  ASSUME TypeOK, [Next]_vars
  PROVE  \/ Closes
         \/ \E i \in Slots : Accepts(i)
         \/ \E size \in 1..BufSize : ReadEffect(size)
         \/ \E byte \in [Slots -> Nat] : WriteEffect(byte)
<1> USE DEF listVars, pipeVars, historyVars
<1> DEFINE Quiet == UNCHANGED <<out, arrived, since, sent, sock, msgmax>>
<1>1. ASSUME Quiet PROVE Closes
  BY <1>1 DEF Closes, OpenIsListed, Open, Listed
<1>2. ASSUME NEW n \in 1..PipeSize, Produce(n) PROVE Closes
  BY <1>1, <1>2 DEF Produce
<1>3. CASE CloseParent
  BY <1>1, <1>3 DEF CloseParent
<1>4. ASSUME NEW c \in Clients, Connect(c) \/ Disconnect(c) PROVE Closes
  BY <1>1, <1>4 DEF Connect, Disconnect
<1>5. ASSUME NEW i \in Slots, Drain(i) PROVE Closes
  BY <1>1, <1>5 DEF Drain
<1>6. CASE TrapReset \/ Select \/ NoPipe
  BY <1>1, <1>6 DEF TrapReset, Select, NoPipe
<1>7. CASE OpenSock
  <2>1. CASE Listen \notin fdset
    BY <1>1, <1>7, <2>1 DEF OpenSock
  <2>2. CASE Listen \in fdset
    <3>1. backlog # <<>>
      BY <1>7, <2>2 DEF OpenSock
    <3>2. PICK i \in 0..msgmax : FirstFree(i) /\ (Accept(i) \/ AcceptFails(i) \/ Refuse(i))
      BY <1>7, <2>2 DEF OpenSock
    <3>3. CASE Accept(i)
      <4>1. i \in Slots /\ sock' = [sock EXCEPT ![i] = sock'[i]] /\ (OpenIsListed => OpenIsListed')
        BY <3>1, <3>2, <3>3, Accepting
      <4>2. Accepts(i)
        BY <1>7, <3>3, <4>1 DEF OpenSock, Accept, Accepts
      <4> QED
        BY <4>1, <4>2
    <3>4. CASE AcceptFails(i) \/ Refuse(i)
      BY <1>1, <1>7, <3>4 DEF OpenSock, AcceptFails, Refuse
    <3> QED
      BY <3>2, <3>3, <3>4
  <2> QED
    BY <2>1, <2>2
<1>8. ASSUME Leave, UNCHANGED <<out, arrived, since, sent>> PROVE Closes
  BY <1>8 DEF Leave, Closes, OpenIsListed, Open
<1>9. CASE EndOfPipe
  BY <1>8, <1>9 DEF EndOfPipe
<1>10. CASE ReadSock
  <2> DEFINE K == { i \in Open \cap Listed : sock[i] \in fdset /\ peer[sock[i]] = "gone" }
  <2>1. K \in SUBSET Slots /\ CloseSocks(K)
    BY <1>10 DEF ReadSock, Open
  <2>2. (\A i \in Slots : sock'[i] \in {sock[i], NoSocket}) /\ (OpenIsListed => OpenIsListed')
    BY <2>1, Closing
  <2> QED
    BY <1>10, <2>2 DEF ReadSock, Closes
<1>11. CASE While
  <2>1. CASE runloop
    BY <1>1, <1>11, <2>1 DEF While
  <2>2. CASE ~runloop
    <3>1. Leave /\ UNCHANGED <<out, arrived, since, sent>>
      BY <1>11, <2>2 DEF While
    <3> QED
      BY <3>1, <1>8
  <2> QED
    BY <2>1, <2>2
<1>12. CASE UNCHANGED vars
  BY <1>1, <1>12 DEF vars
<1> QED
  BY <1>2, <1>3, <1>4, <1>5, <1>6, <1>7, <1>9, <1>10, <1>11, <1>12, Reading, Writing
  DEF Next, Server, Environment

(* No connection is left above msgmax. *)
LEMMA ListedStep == TypeOK /\ OpenIsListed /\ [Next]_vars => OpenIsListed'
<1> SUFFICES ASSUME TypeOK, OpenIsListed, [Next]_vars PROVE OpenIsListed'
  OBVIOUS
<1>1. ASSUME NEW size \in 1..BufSize, ReadEffect(size) PROVE OpenIsListed'
  BY <1>1 DEF ReadEffect, OpenIsListed, Open, Listed
<1> QED
  BY <1>1, StepKinds DEF Closes, Accepts, WriteEffect

THEOREM OpenIsListedCorrect == Spec => []OpenIsListed
<1>1. Init => OpenIsListed
  BY DEF Init, OpenIsListed, Open
<1> QED
  BY <1>1, ListedStep, TypeCorrect, PTL DEF Spec

(* A client that is there is turned away only by Refuse, which is reached  *)
(* when every slot below ClientMax was found open.                         *)
THEOREM RefusedWhenFullCorrect == Spec => RefusedWhenFull
<1>1. ASSUME TypeOK, [Next]_vars, pc = "open", NEW c \in Clients, peer[c] = "there", peer'[c] = "away"
      PROVE  Open = Slots
  <2> USE <1>1 DEF listVars, pipeVars, historyVars
  <2>1. CASE OpenSock
    <3>1. CASE Listen \notin fdset
      BY <2>1, <3>1 DEF OpenSock
    <3>2. CASE Listen \in fdset
      <4>1. PICK i \in 0..msgmax : FirstFree(i) /\ (Accept(i) \/ AcceptFails(i) \/ Refuse(i))
        BY <2>1, <3>2 DEF OpenSock
      <4>2. CASE Accept(i)
        BY <4>2 DEF Accept
      <4>3. CASE AcceptFails(i)
        BY <4>3 DEF AcceptFails, TypeOK
      <4>4. CASE Refuse(i)
        <5>1. i \in Nat /\ ClientMax \in Nat /\ i >= ClientMax
          BY <4>4, SizesAssumption DEF Refuse, TypeOK
        <5>2. Slots \subseteq 0..(i - 1)
          BY <5>1
        <5> QED
          BY <4>1, <5>2 DEF FirstFree, Open
      <4> QED
        BY <4>1, <4>2, <4>3, <4>4
    <3> QED
      BY <3>1, <3>2
  <2>2. ASSUME NEW n \in 1..PipeSize, Produce(n) PROVE FALSE
    BY <2>2 DEF Produce
  <2>3. CASE CloseParent
    BY <2>3 DEF CloseParent
  <2>4. ASSUME NEW d \in Clients, Connect(d) \/ Disconnect(d) PROVE FALSE
    BY <2>4 DEF Connect, Disconnect, TypeOK
  <2>5. ASSUME NEW i \in Slots, Drain(i) PROVE FALSE
    BY <2>5 DEF Drain
  <2>6. CASE TrapReset
    BY <2>6 DEF TrapReset
  <2>7. CASE UNCHANGED vars
    BY <2>7 DEF vars
  <2>8. ~(Select \/ ReadPipe \/ NoPipe \/ EndOfPipe \/ WriteSock \/ ReadSock \/ While)
    BY DEF Select, ReadPipe, NoPipe, EndOfPipe, WriteSock, ReadSock, While
  <2> QED
    BY <2>1, <2>2, <2>3, <2>4, <2>5, <2>6, <2>7, <2>8 DEF Next, Server, Environment
<1>2. TypeOK /\ [Next]_vars =>
        [ pc = "open" => \A c \in Clients :
            peer[c] = "there" /\ peer'[c] = "away" => Open = Slots ]_vars
  BY <1>1
<1> QED
  BY <1>2, TypeCorrect, PTL DEF Spec, RefusedWhenFull

(* The bytes of a buffer are places of the stream. *)
LEMMA BufferType ==
  ASSUME TypeOK, NEW i \in Slots
  PROVE  /\ Len(out[i]) \in Nat /\ BufSize \in Nat /\ arrived \in Nat
         /\ Len(out[i]) <= BufSize
         /\ \A k \in 1..Len(out[i]) : out[i][k] \in 1..arrived
<1>1. out[i] \in Seq(1..arrived) /\ Len(out[i]) <= BufSize /\ arrived \in Nat /\ BufSize \in Nat
  BY SizesAssumption DEF TypeOK
<1>2. Len(out[i]) \in Nat
  BY <1>1
<1>3. ASSUME NEW k \in 1..Len(out[i]) PROVE out[i][k] \in 1..arrived
  BY <1>1, ElementOfSeq
<1> QED
  BY <1>1, <1>2, <1>3

(* Spread is kept by a read: the old bytes stay as far apart as they were, *)
(* the new ones follow each other, and the last old one is at most arrived.*)
LEMMA SpreadStep == TypeOK /\ Spread /\ [Next]_vars => Spread'
<1> SUFFICES ASSUME TypeOK, Spread, [Next]_vars PROVE Spread'
  OBVIOUS
<1>1. ASSUME UNCHANGED out PROVE Spread'
  BY <1>1 DEF Spread
<1>2. ASSUME NEW byte \in [Slots -> Nat], WriteEffect(byte) PROVE Spread'
  <2> SUFFICES ASSUME NEW i \in Slots,
                      NEW j \in 1..Len(out'[i]), NEW k \in 1..Len(out'[i]), j <= k
               PROVE  out'[i][k] - out'[i][j] >= k - j
    BY DEF Spread
  <2>1. byte[i] \in 0..Len(out[i]) /\ Len(out'[i]) = Len(out[i]) - byte[i] /\ Len(out[i]) \in Nat
    BY <1>2, BufferType DEF WriteEffect
  <2>2. out'[i][k] = out[i][k + byte[i]] /\ out'[i][j] = out[i][j + byte[i]]
    BY <1>2 DEF WriteEffect
  <2>3. /\ k + byte[i] \in 1..Len(out[i]) /\ j + byte[i] \in 1..Len(out[i])
        /\ j + byte[i] <= k + byte[i] /\ (k + byte[i]) - (j + byte[i]) = k - j
    BY <2>1
  <2>4. out[i][k + byte[i]] - out[i][j + byte[i]] >= (k + byte[i]) - (j + byte[i])
    BY <2>3 DEF Spread
  <2> QED
    BY <2>2, <2>3, <2>4
<1>3. ASSUME NEW size \in 1..BufSize, ReadEffect(size) PROVE Spread'
  <2> SUFFICES ASSUME NEW i \in Slots,
                      NEW j \in 1..Len(out'[i]), NEW k \in 1..Len(out'[i]), j <= k
               PROVE  out'[i][k] - out'[i][j] >= k - j
    BY DEF Spread
  <2>1. CASE i \notin Listed
    <3>1. out'[i] = out[i]
      BY <1>3, <2>1 DEF ReadEffect
    <3> QED
      BY <3>1 DEF Spread
  <2>2. CASE i \in Listed
    <3> DEFINE n == Len(out[i])
               gone == Gone(out[i], size)
               kept == n - gone
    <3>1. n \in Nat /\ arrived \in Nat /\ \A x \in 1..n : out[i][x] \in 1..arrived
      BY BufferType
    <3>2. /\ gone \in 0..n
          /\ Len(out'[i]) = kept + size
          /\ \A x \in 1..kept : out'[i][x] = out[i][x + gone]
          /\ \A x \in (kept + 1)..Len(out'[i]) : out'[i][x] = arrived + (x - kept)
      BY <1>3, <2>2 DEF ReadEffect
    <3>3. \A x, y \in 1..n : x <= y => out[i][y] - out[i][x] >= y - x
      BY DEF Spread
    <3> HIDE DEF n, gone
    <3>4. CASE k <= kept
      <4>1. /\ k \in 1..kept /\ j \in 1..kept /\ k + gone \in 1..n /\ j + gone \in 1..n
            /\ j + gone <= k + gone /\ (k + gone) - (j + gone) = k - j
        BY <3>1, <3>2, <3>4
      <4>2. out[i][k + gone] - out[i][j + gone] >= (k + gone) - (j + gone)
        BY <3>3, <4>1
      <4> QED
        BY <3>2, <4>1, <4>2
    <3>5. CASE j > kept
      <4>1. j \in (kept + 1)..Len(out'[i]) /\ k \in (kept + 1)..Len(out'[i])
        BY <3>1, <3>2, <3>5
      <4>2. out'[i][j] = arrived + (j - kept) /\ out'[i][k] = arrived + (k - kept)
        BY <3>2, <4>1
      <4> QED
        BY <3>1, <3>2, <4>2
    <3>6. CASE j <= kept /\ kept < k
      <4>1. j \in 1..kept /\ k \in (kept + 1)..Len(out'[i]) /\ j + gone \in 1..n /\ n \in 1..n
        BY <3>1, <3>2, <3>6
      <4>2. out'[i][j] = out[i][j + gone] /\ out'[i][k] = arrived + (k - kept)
        BY <3>2, <4>1
      <4>3. out[i][n] - out[i][j + gone] >= n - (j + gone)
        <5>1. j + gone <= n
          BY <4>1, <3>1
        <5> QED
          BY <3>3, <4>1, <5>1
      <4>4. out[i][n] \in 1..arrived /\ out[i][j + gone] \in 1..arrived
        BY <3>1, <4>1
      <4> DEFINE x == out[i][n]
                 y == out[i][j + gone]
      <4>5. x - y >= n - (j + gone) /\ x \in Int /\ y \in Int /\ x <= arrived /\ arrived \in Int
        BY <3>1, <4>3, <4>4
      <4>6. j \in Int /\ k \in Int /\ n \in Int /\ gone \in Int
        BY <3>1, <3>2, <4>1
      <4> HIDE DEF x, y
      <4>7. (arrived + (k - kept)) - y >= k - j
        BY <4>5, <4>6
      <4> QED
        BY <4>2, <4>7 DEF y
    <3> QED
      BY <3>1, <3>2, <3>4, <3>5, <3>6
  <2> QED
    BY <2>1, <2>2
<1> QED
  BY <1>1, <1>2, <1>3, StepKinds DEF Closes, Accepts

(* What is in the buffer of a connection has not been sent over it. *)
LEMMA UnsentStep == TypeOK /\ Spread /\ Unsent /\ [Next]_vars => Unsent'
<1> SUFFICES ASSUME TypeOK, Spread, Unsent, [Next]_vars,
                    NEW i \in Slots, sock'[i] # NoSocket,
                    NEW j \in 1..Len(out'[i])
             PROVE  sent'[i] < out'[i][j]
  BY DEF Unsent, Open
<1>1. /\ Len(out[i]) \in Nat /\ arrived \in Nat /\ \A k \in 1..Len(out[i]) : out[i][k] \in 1..arrived
      /\ sent[i] \in 0..arrived
  BY BufferType DEF TypeOK
<1>2. sock[i] # NoSocket => \A k \in 1..Len(out[i]) : sent[i] < out[i][k]
  BY DEF Unsent, Open
<1>3. CASE Closes
  <2>1. sock[i] # NoSocket /\ out'[i] = out[i] /\ sent'[i] = sent[i]
    BY <1>3 DEF Closes
  <2> QED
    BY <1>2, <2>1
<1>4. ASSUME NEW f \in Slots, Accepts(f) PROVE sent'[i] < out'[i][j]
  <2>1. out'[i] = out[i]
    BY <1>4 DEF Accepts
  <2>2. CASE f = i
    <3>1. sent'[i] = 0
      BY <1>4, <2>2 DEF Accepts, TypeOK
    <3>2. out'[i][j] \in 1..arrived
      BY <1>1, <2>1
    <3> QED
      BY <3>1, <3>2, <1>1
  <2>3. CASE f # i
    <3>1. sock[i] # NoSocket /\ sent'[i] = sent[i]
      BY <1>4, <2>3 DEF Accepts, TypeOK
    <3> QED
      BY <1>2, <2>1, <3>1
  <2> QED
    BY <2>2, <2>3
<1>5. ASSUME NEW size \in 1..BufSize, ReadEffect(size) PROVE sent'[i] < out'[i][j]
  <2>1. sock[i] # NoSocket /\ sent'[i] = sent[i]
    BY <1>5 DEF ReadEffect
  <2>2. CASE i \notin Listed
    <3>1. out'[i] = out[i]
      BY <1>5, <2>2 DEF ReadEffect
    <3> QED
      BY <1>2, <2>1, <3>1
  <2>3. CASE i \in Listed
    <3> DEFINE gone == Gone(out[i], size)
               kept == Len(out[i]) - gone
    <3>1. /\ gone \in 0..Len(out[i])
          /\ \A x \in 1..kept : out'[i][x] = out[i][x + gone]
          /\ \A x \in (kept + 1)..Len(out'[i]) : out'[i][x] = arrived + (x - kept)
          /\ Len(out'[i]) = kept + size
      BY <1>5, <2>3 DEF ReadEffect
    <3> HIDE DEF gone
    <3>2. CASE j <= kept
      <4>1. j \in 1..kept /\ j + gone \in 1..Len(out[i])
        BY <1>1, <3>1, <3>2
      <4>2. out'[i][j] = out[i][j + gone]
        BY <3>1, <4>1
      <4> QED
        BY <1>2, <2>1, <4>1, <4>2
    <3>3. CASE j > kept
      <4>1. j \in (kept + 1)..Len(out'[i])
        BY <1>1, <3>1, <3>3
      <4>2. out'[i][j] = arrived + (j - kept)
        BY <3>1, <4>1
      <4>3. j \in Nat /\ kept \in Int /\ sent[i] \in 0..arrived /\ arrived \in Nat
        BY <1>1, <3>1, <4>1
      <4> QED
        BY <2>1, <3>3, <4>2, <4>3
    <3> QED
      BY <1>1, <3>1, <3>2, <3>3
  <2> QED
    BY <2>2, <2>3
<1>6. ASSUME NEW byte \in [Slots -> Nat], WriteEffect(byte) PROVE sent'[i] < out'[i][j]
  <2>1. /\ sock[i] # NoSocket
        /\ byte[i] \in 0..Len(out[i]) /\ Len(out'[i]) = Len(out[i]) - byte[i]
        /\ out'[i][j] = out[i][j + byte[i]]
        /\ sent'[i] = IF byte[i] = 0 THEN sent[i] ELSE out[i][byte[i]]
    BY <1>6 DEF WriteEffect
  <2>2. j + byte[i] \in 1..Len(out[i])
    BY <1>1, <2>1
  <2>3. CASE byte[i] = 0
    BY <1>2, <2>1, <2>2, <2>3
  <2>4. CASE byte[i] # 0
    <3>1. byte[i] \in 1..Len(out[i]) /\ byte[i] <= j + byte[i] /\ (j + byte[i]) - byte[i] >= 1
      BY <1>1, <2>1, <2>4
    <3>2. out[i][j + byte[i]] - out[i][byte[i]] >= (j + byte[i]) - byte[i]
      BY <2>2, <3>1 DEF Spread
    <3>3. out[i][j + byte[i]] \in 1..arrived /\ out[i][byte[i]] \in 1..arrived
      BY <1>1, <2>2, <3>1
    <3>4. out[i][byte[i]] < out[i][j + byte[i]]
      <4> DEFINE x == out[i][j + byte[i]]
                 y == out[i][byte[i]]
                 d == (j + byte[i]) - byte[i]
      <4>1. x \in Int /\ y \in Int /\ d \in Int
        BY <1>1, <2>1, <3>1, <3>3
      <4>2. x - y >= d /\ d >= 1
        BY <3>1, <3>2
      <4> HIDE DEF x, y, d
      <4>3. y < x
        BY <4>1, <4>2
      <4> QED
        BY <4>3 DEF x, y
    <3>5. sent'[i] = out[i][byte[i]]
      BY <2>1, <2>4
    <3> QED
      BY <2>1, <3>4, <3>5
  <2> QED
    BY <2>3, <2>4
<1> QED
  BY <1>3, <1>4, <1>5, <1>6, StepKinds

(* A byte that a read pushes out of a buffer is more than BufSize behind.  *)
LEMMA RecentStep ==
  TypeOK /\ OpenIsListed /\ Spread /\ Unsent /\ RecentKept /\ [Next]_vars => RecentKept'
<1> SUFFICES ASSUME TypeOK, OpenIsListed, Spread, Unsent, RecentKept, [Next]_vars
             PROVE  RecentKept'
  OBVIOUS
<1>0. TypeOK'
  BY TypeStep
<1> SUFFICES ASSUME NEW i \in Slots, sock'[i] # NoSocket,
                    NEW b \in (since'[i] + 1)..arrived',
                    b > sent'[i], b > arrived' - BufSize
             PROVE  \E k \in 1..Len(out'[i]) : out'[i][k] = b
  <2>1. out' \in [Slots -> Seq(1..arrived')]
    BY <1>0 DEF TypeOK
  <2>2. \A j \in Slots : DOMAIN out'[j] = 1..Len(out'[j])
    BY <2>1
  <2> QED
    BY <2>2 DEF RecentKept, Open, Range
<1>1. /\ Len(out[i]) \in Nat /\ arrived \in Nat /\ BufSize \in Nat /\ Len(out[i]) <= BufSize
      /\ \A k \in 1..Len(out[i]) : out[i][k] \in 1..arrived
      /\ sent[i] \in 0..arrived /\ since[i] \in 0..arrived
  BY BufferType DEF TypeOK
<1>2. ASSUME sock[i] # NoSocket, NEW c \in (since[i] + 1)..arrived, c > sent[i], c > arrived - BufSize
      PROVE  \E k \in 1..Len(out[i]) : out[i][k] = c
  <2>1. out[i] \in Seq(1..arrived)
    BY DEF TypeOK
  <2>2. DOMAIN out[i] = 1..Len(out[i])
    BY <2>1
  <2> QED
    BY <1>2, <2>2 DEF RecentKept, Open, Range
<1>3. CASE Closes
  <2>1. sock[i] # NoSocket /\ UNCHANGED <<out, arrived, since, sent>>
    BY <1>3 DEF Closes
  <2> QED
    BY <1>2, <2>1
<1>4. ASSUME NEW f \in Slots, Accepts(f)
      PROVE  \E k \in 1..Len(out'[i]) : out'[i][k] = b
  <2>1. CASE f = i
    <3>1. since'[i] = arrived /\ arrived' = arrived
      BY <1>4, <2>1 DEF Accepts, TypeOK
    <3> QED
      BY <3>1, <1>1
  <2>2. CASE f # i
    <3>1. /\ sock[i] # NoSocket /\ sent'[i] = sent[i] /\ since'[i] = since[i]
          /\ arrived' = arrived /\ out'[i] = out[i]
      BY <1>4, <2>2 DEF Accepts, TypeOK
    <3> QED
      BY <1>2, <3>1
  <2> QED
    BY <2>1, <2>2
<1>5. ASSUME NEW size \in 1..BufSize, ReadEffect(size)
      PROVE  \E k \in 1..Len(out'[i]) : out'[i][k] = b
  <2> DEFINE n == Len(out[i])
             gone == Gone(out[i], size)
             kept == n - gone
  <2>1. /\ sock[i] # NoSocket /\ sent'[i] = sent[i] /\ since'[i] = since[i]
        /\ arrived' = arrived + size
    BY <1>5 DEF ReadEffect
  <2>2. i \in Listed
    BY <2>1 DEF OpenIsListed, Open
  <2>3. /\ gone \in 0..n
        /\ Len(out'[i]) = kept + size
        /\ \A k \in 1..kept : out'[i][k] = out[i][k + gone]
        /\ \A k \in (kept + 1)..Len(out'[i]) : out'[i][k] = arrived + (k - kept)
    BY <1>5, <2>2 DEF ReadEffect
  <2>4. gone > 0 => gone = size + n - BufSize
    BY <1>1 DEF Gone
  <2>5. \A x, y \in 1..n : x <= y => out[i][y] - out[i][x] >= y - x
    BY DEF Spread
  <2>6. n \in Nat /\ b \in Int /\ size \in Nat /\ kept \in Nat
    BY <1>1, <2>1, <2>3
  <2> HIDE DEF n, gone
  <2>7. CASE b > arrived
    <3>1. kept + (b - arrived) \in (kept + 1)..Len(out'[i]) /\ kept + (b - arrived) \in 1..Len(out'[i])
      BY <1>1, <2>1, <2>3, <2>6, <2>7
    <3>2. out'[i][kept + (b - arrived)] = arrived + ((kept + (b - arrived)) - kept)
      BY <2>3, <3>1
    <3>3. arrived + ((kept + (b - arrived)) - kept) = b
      BY <1>1, <2>6
    <3> QED
      BY <3>1, <3>2, <3>3
  <2>8. CASE b <= arrived
    <3>1. b \in (since[i] + 1)..arrived /\ b > sent[i] /\ b > arrived - BufSize
      BY <1>1, <2>1, <2>6, <2>8
    <3>2. PICK k \in 1..n : out[i][k] = b
      BY <1>2, <2>1, <3>1 DEF n
    <3>3. k > gone
      <4> SUFFICES ASSUME k <= gone PROVE FALSE
        BY <2>3, <2>6
      <4>1. gone = size + n - BufSize
        BY <2>3, <2>4, <2>6
      <4>2. n \in 1..n /\ k <= n
        BY <2>6
      <4>3. out[i][n] - out[i][k] >= n - k
        BY <2>5, <4>2
      <4>4. out[i][n] \in 1..arrived
        BY <1>1, <4>2 DEF n
      <4> DEFINE last == out[i][n]
      <4>5. last - b >= n - k /\ last \in Int /\ last <= arrived
        BY <3>2, <4>3, <4>4, <1>1
      <4> HIDE DEF last
      <4>6. b > (arrived + size) - BufSize
        BY <2>1
      <4> QED
        BY <4>1, <4>5, <4>6, <1>1, <2>3, <2>6
    <3>4. k - gone \in 1..kept /\ (k - gone) + gone = k /\ k - gone \in 1..Len(out'[i])
      BY <2>3, <2>6, <3>3
    <3>5. out'[i][k - gone] = out[i][k]
      BY <2>3, <3>4
    <3> QED
      BY <3>2, <3>4, <3>5
  <2> QED
    BY <1>1, <2>6, <2>7, <2>8
<1>6. ASSUME NEW byte \in [Slots -> Nat], WriteEffect(byte)
      PROVE  \E k \in 1..Len(out'[i]) : out'[i][k] = b
  <2>1. /\ sock[i] # NoSocket /\ arrived' = arrived /\ since'[i] = since[i]
        /\ byte[i] \in 0..Len(out[i]) /\ Len(out'[i]) = Len(out[i]) - byte[i]
        /\ \A k \in 1..Len(out'[i]) : out'[i][k] = out[i][k + byte[i]]
        /\ sent'[i] = IF byte[i] = 0 THEN sent[i] ELSE out[i][byte[i]]
    BY <1>6 DEF WriteEffect
  <2>2. \A x, y \in 1..Len(out[i]) : x <= y => out[i][y] - out[i][x] >= y - x
    BY DEF Spread
  <2>3. b > sent[i]
    <3>1. CASE byte[i] = 0
      BY <2>1, <3>1
    <3>2. CASE byte[i] # 0
      <4>1. byte[i] \in 1..Len(out[i])
        BY <1>1, <2>1, <3>2
      <4>2. b > out[i][byte[i]]
        BY <2>1, <3>2
      <4>3. out[i][byte[i]] > sent[i] /\ out[i][byte[i]] \in 1..arrived
        BY <1>1, <2>1, <4>1 DEF Unsent, Open
      <4> DEFINE x == out[i][byte[i]]
      <4>4. b > x /\ x > sent[i] /\ x \in Int /\ sent[i] \in Int /\ b \in Int
        BY <1>1, <2>1, <4>2, <4>3
      <4> HIDE DEF x
      <4> QED
        BY <4>4
    <3> QED
      BY <3>1, <3>2
  <2>4. PICK k \in 1..Len(out[i]) : out[i][k] = b
    BY <1>2, <2>1, <2>3
  <2>5. k > byte[i]
    <3> SUFFICES ASSUME k <= byte[i] PROVE FALSE
      BY <1>1, <2>1
    <3>1. byte[i] \in 1..Len(out[i]) /\ byte[i] # 0 /\ byte[i] - k >= 0
      BY <1>1, <2>1
    <3>2. out[i][byte[i]] - out[i][k] >= byte[i] - k
      BY <2>2, <3>1
    <3> DEFINE x == out[i][byte[i]]
               d == byte[i] - k
    <3>3. x - b >= d /\ d >= 0 /\ b > x /\ x \in Int /\ b \in Int /\ d \in Int
      BY <1>1, <2>1, <2>4, <3>1, <3>2
    <3> HIDE DEF x, d
    <3> QED
      BY <3>3
  <2>6. k - byte[i] \in 1..Len(out'[i]) /\ (k - byte[i]) + byte[i] = k
    BY <1>1, <2>1, <2>5
  <2>7. out'[i][k - byte[i]] = out[i][k]
    BY <2>1, <2>6
  <2> QED
    BY <2>4, <2>6, <2>7
<1> QED
  BY <1>3, <1>4, <1>5, <1>6, StepKinds

LEMMA BufferInvariant == Spec => []BufferInv
<1>1. Init => BufferInv
  <2> SUFFICES ASSUME Init, TypeOK PROVE OpenIsListed /\ Spread /\ Unsent /\ RecentKept
    <3>1. Init => TypeOK
      BY TypeInit
    <3> QED
      BY <3>1 DEF BufferInv
  <2>1. Open = {} /\ \A i \in Slots : Len(out[i]) = 0
    BY DEF Init, Open
  <2> QED
    BY <2>1 DEF OpenIsListed, Spread, Unsent, RecentKept
<1>2. BufferInv /\ [Next]_vars => BufferInv'
  BY TypeStep, ListedStep, SpreadStep, UnsentStep, RecentStep DEF BufferInv
<1> QED
  BY <1>1, <1>2, PTL DEF Spec

(* Whatever the sizes of the buffers, the number of clients and the order  *)
(* in which they come and go, a client is sent the stream in order.        *)
THEOREM InOrderCorrect == Spec => []InOrder
<1>1. BufferInv => InOrder
  <2> SUFFICES ASSUME BufferInv, NEW i \in Slots
               PROVE  /\ \A j, k \in DOMAIN out[i] : j < k => out[i][j] < out[i][k]
                      /\ sock[i] # NoSocket => \A j \in DOMAIN out[i] : sent[i] < out[i][j]
    BY DEF InOrder
  <2>1. /\ DOMAIN out[i] = 1..Len(out[i])
        /\ Len(out[i]) \in Nat
        /\ \A k \in 1..Len(out[i]) : out[i][k] \in 1..arrived
    <3>1. out[i] \in Seq(1..arrived)
      BY DEF BufferInv, TypeOK
    <3>2. DOMAIN out[i] = 1..Len(out[i])
      BY <3>1
    <3> QED
      BY <3>2, BufferType DEF BufferInv
  <2>2. ASSUME NEW j \in 1..Len(out[i]), NEW k \in 1..Len(out[i]), j < k
        PROVE  out[i][j] < out[i][k]
    <3>1. out[i][k] - out[i][j] >= k - j
      BY <2>2, <2>1 DEF BufferInv, Spread
    <3> DEFINE x == out[i][k]
               y == out[i][j]
    <3>2. x - y >= k - j /\ x \in Int /\ y \in Int /\ k - j >= 1
      BY <2>1, <2>2, <3>1
    <3> HIDE DEF x, y
    <3>3. y < x
      BY <3>2, <2>2
    <3> QED
      BY <3>3 DEF x, y
  <2>3. sock[i] # NoSocket => \A j \in 1..Len(out[i]) : sent[i] < out[i][j]
    BY DEF BufferInv, Unsent, Open
  <2> QED
    BY <2>1, <2>2, <2>3
<1> QED
  BY <1>1, BufferInvariant, PTL

(* What a slow client loses is always the oldest. *)
THEOREM RecentKeptCorrect == Spec => []RecentKept
<1>1. BufferInv => RecentKept
  BY DEF BufferInv
<1> QED
  BY <1>1, BufferInvariant, PTL
==============================================================================
