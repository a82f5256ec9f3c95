----------------------------- MODULE ErrLogProofs -----------------------------
(***************************************************************************)
(* Proofs about ErrLog: its types, the files, and what a process reports   *)
(* and is answered over a connection it has for itself, for every set of   *)
(* processes and connections and every length of names and texts.          *)
(***************************************************************************)
EXTENDS ErrLog, SequenceTheorems, TLAPS

USE DEF Days, Pieces, HeaderLen

(***************************************************************************)
(* Messages and their pieces.                                              *)
(***************************************************************************)
LEMMA Ends ==
  /\ End(1) = 1 /\ End(2) = 2 /\ End(3) = 4 /\ End(4) = 6
  /\ End(5) = 6 + NameLen /\ End(6) = 6 + NameLen + TextLen
  /\ Start(1) = 0 /\ \A k \in 2..6 : Start(k) = End(k - 1)
  /\ \A k \in 1..6 : End(k) \in Nat /\ Start(k) \in Nat /\ Start(k) < End(k)
<1>1. /\ End(1) = 1 /\ End(2) = 2 /\ End(3) = 4 /\ End(4) = 6
      /\ End(5) = 6 + NameLen /\ End(6) = 6 + NameLen + TextLen
  BY DEF End
<1>2. Start(1) = 0 /\ \A k \in 2..6 : Start(k) = End(k - 1)
  BY DEF Start
<1>3. ASSUME NEW k \in 1..6 PROVE End(k) \in Nat /\ Start(k) \in Nat /\ Start(k) < End(k)
  <2>1. k = 1 \/ k = 2 \/ k = 3 \/ k = 4 \/ k = 5 \/ k = 6
    OBVIOUS
  <2>2. Start(2) = 1 /\ Start(3) = 2 /\ Start(4) = 4 /\ Start(5) = 6 /\ Start(6) = 6 + NameLen
    BY <1>1, <1>2
  <2> QED
    BY <1>1, <1>2, <2>1, <2>2, SizesAssumption
<1> QED
  BY <1>1, <1>2, <1>3

LEMMA PieceOfType ==
  /\ \A k \in 1..6 : \A i \in (Start(k) + 1)..End(k) : PieceOf(i) = k
  /\ \A i \in 1..End(6) : PieceOf(i) \in 1..6
<1>1. PieceOf(1) = 1 /\ PieceOf(2) = 2 /\ PieceOf(3) = 3 /\ PieceOf(4) = 3 /\ PieceOf(5) = 4 /\ PieceOf(6) = 4
  BY DEF PieceOf
<1>2. \A i \in 7..(6 + NameLen) : PieceOf(i) = 5
  BY Ends DEF PieceOf
<1>3. \A i \in (6 + NameLen + 1)..(6 + NameLen + TextLen) : PieceOf(i) = 6
  BY Ends, SizesAssumption DEF PieceOf
<1>4. /\ Start(1) = 0 /\ Start(2) = 1 /\ Start(3) = 2 /\ Start(4) = 4 /\ Start(5) = 6
      /\ Start(6) = 6 + NameLen
  BY Ends
<1>5. ASSUME NEW k \in 1..6, NEW i \in (Start(k) + 1)..End(k) PROVE PieceOf(i) = k
  <2>1. k = 1 \/ k = 2 \/ k = 3 \/ k = 4 \/ k = 5 \/ k = 6
    OBVIOUS
  <2> QED
    BY <1>1, <1>2, <1>3, <1>4, <2>1, Ends
<1>6. ASSUME NEW i \in 1..End(6) PROVE PieceOf(i) \in 1..6
  <2>1. i \in 1..6 \/ i \in 7..(6 + NameLen) \/ i \in (6 + NameLen + 1)..(6 + NameLen + TextLen)
    BY Ends, SizesAssumption
  <2>2. i \in 1..6 => i = 1 \/ i = 2 \/ i = 3 \/ i = 4 \/ i = 5 \/ i = 6
    OBVIOUS
  <2> QED
    BY <1>1, <1>2, <1>3, <2>1, <2>2
<1> QED
  BY <1>5, <1>6

(* The beginning of message n of p, up to piece k. *)
First(p, n, k) == [i \in 1..End(k) |-> Unit(p, n, PieceOf(i))]

LEMMA FirstProperties ==
  ASSUME NEW p \in Procs, NEW n \in 1..MaxCalls, NEW k \in 1..6
  PROVE  /\ First(p, n, k) \in Seq(Units)
         /\ Len(First(p, n, k)) = End(k)
         /\ First(p, n, k) # <<>>
         /\ First(p, n, k)[1].call = n
         /\ k >= 4 => /\ Nlen(First(p, n, k)) = NameLen /\ Blen(First(p, n, k)) = TextLen
                      /\ Total(First(p, n, k)) = End(6)
<1> DEFINE w == First(p, n, k)
<1>1. End(k) \in Nat /\ End(k) >= 1 /\ End(k) <= End(6)
  <2>1. k = 1 \/ k = 2 \/ k = 3 \/ k = 4 \/ k = 5 \/ k = 6
    OBVIOUS
  <2> QED
    BY <2>1, Ends, SizesAssumption
<1>2. \A i \in 1..End(k) : Unit(p, n, PieceOf(i)) \in Units
  <2>1. \A i \in 1..End(k) : i \in 1..End(6)
    BY <1>1, Ends
  <2> QED
    BY <2>1, PieceOfType DEF Unit, Units
<1>3. w \in [1..End(k) -> Units]
  BY <1>2 DEF First
<1>4. w \in Seq(Units) /\ Len(w) = End(k) /\ w # <<>>
  BY <1>1, <1>3
<1>5. w[1].call = n
  BY <1>1 DEF First, Unit
<1>6. ASSUME k >= 4 PROVE Nlen(w) = NameLen /\ Blen(w) = TextLen /\ Total(w) = End(6)
  <2>1. End(k) >= 6
    <3>1. k = 4 \/ k = 5 \/ k = 6
      BY <1>6
    <3> QED
      BY <3>1, Ends, SizesAssumption
  <2>2. /\ w[3] = Unit(p, n, PieceOf(3)) /\ w[4] = Unit(p, n, PieceOf(4))
        /\ w[5] = Unit(p, n, PieceOf(5)) /\ w[6] = Unit(p, n, PieceOf(6))
    BY <1>1, <2>1 DEF First
  <2>3. PieceOf(3) = 3 /\ PieceOf(4) = 3 /\ PieceOf(5) = 4 /\ PieceOf(6) = 4
    BY DEF PieceOf
  <2>4. Nlen(w) = NameLen /\ Blen(w) = TextLen
    BY <2>2, <2>3 DEF Nlen, Blen, Length, Unit
  <2> QED
    BY <2>4, Ends, SizesAssumption DEF Total, Good
<1> QED
  BY <1>4, <1>5, <1>6

LEMMA PieceProperties ==
  ASSUME NEW p \in Procs, NEW n \in 1..MaxCalls, NEW k \in 1..6
  PROVE  /\ Piece(p, n, k) \in Seq(Units)
         /\ k = 1 => Piece(p, n, k) = First(p, n, 1)
         /\ k > 1 => First(p, n, k - 1) \o Piece(p, n, k) = First(p, n, k)
<1> DEFINE len == End(k) - Start(k)
<1>1. len \in Nat /\ End(k) \in Nat /\ Start(k) \in Nat /\ End(k) = Start(k) + len
  BY Ends
<1>2. \A i \in 1..len : Unit(p, n, k) \in Units
  BY DEF Unit, Units
<1>3. Piece(p, n, k) \in [1..len -> Units]
  BY <1>2 DEF Piece
<1> HIDE DEF len
<1>4. Piece(p, n, k) \in Seq(Units) /\ Len(Piece(p, n, k)) = len
  BY <1>1, <1>3
<1>5. ASSUME k = 1 PROVE Piece(p, n, k) = First(p, n, 1)
  BY <1>5, Ends, PieceOfType DEF Piece, First
<1>6. ASSUME k > 1 PROVE First(p, n, k - 1) \o Piece(p, n, k) = First(p, n, k)
  <2> DEFINE a == First(p, n, k - 1)
             b == Piece(p, n, k)
             w == First(p, n, k)
  <2>1. Start(k) = End(k - 1) /\ k - 1 \in 1..6
    BY <1>6, Ends
  <2>2. a \in Seq(Units) /\ Len(a) = Start(k) /\ w \in Seq(Units) /\ Len(w) = End(k)
    BY <2>1, FirstProperties
  <2>3. a \o b \in Seq(Units) /\ Len(a \o b) = End(k)
    BY <1>1, <1>4, <2>2
  <2>4. ASSUME NEW i \in 1..End(k) PROVE (a \o b)[i] = w[i]
    <3>1. CASE i \in 1..Start(k)
      <4>1. (a \o b)[i] = a[i]
        BY <1>4, <2>2, <3>1
      <4> QED
        BY <2>1, <3>1, <4>1 DEF First
    <3>2. CASE i \notin 1..Start(k)
      <4>1. i - Start(k) \in 1..len
        BY <1>1, <3>2
      <4>2. (a \o b)[i] = b[i - Start(k)]
        BY <1>1, <1>4, <2>2, <4>1
      <4>3. b[i - Start(k)] = Unit(p, n, k)
        BY <4>1 DEF Piece, len
      <4>4. PieceOf(i) = k
        BY <1>1, <3>2, PieceOfType
      <4> QED
        BY <4>2, <4>3, <4>4 DEF First
    <3> QED
      BY <3>1, <3>2
  <2> HIDE DEF a, b, w
  <2>5. a \o b = w
    BY <2>2, <2>3, <2>4, SeqEqual
  <2> QED
    BY <2>5 DEF a, b, w
<1> QED
  BY <1>4, <1>5, <1>6

-----------------------------------------------------------------------------
(***************************************************************************)
(* The types.                                                              *)
(***************************************************************************)
(* What operate() takes for a message is there. *)
LEMMA ReceiveType ==
  ASSUME TypeOK, NEW c \in Conns, Receive(c)
  PROVE  /\ Total(wire[c]) \in 1..Len(wire[c])
         /\ wire' \in [Conns -> Seq(Units)] /\ line' \in [Conns -> Seq(Units)]
         /\ answers' \in [Conns -> Seq({"ok", "fail"})]
         /\ child' \in [Conns -> ChildPlaces] /\ used' \in [Conns -> BOOLEAN]
<1> DEFINE w == wire[c]
<1>1. w \in Seq(Units) /\ Len(w) \in Nat
  BY DEF TypeOK
<1>2. Total(w) \in 1..Len(w)
  <2>1. Good(w) => Nlen(w) \in Nat /\ Blen(w) \in Nat
    BY SizesAssumption DEF Good, Nlen, Blen, Length
  <2>2. Total(w) \in Nat /\ Total(w) >= 6
    BY <2>1 DEF Total
  <2>3. Len(w) >= Total(w)
    BY DEF Receive, Complete
  <2> QED
    BY <1>1, <2>2, <2>3
<1>3. SubSeq(w, Total(w) + 1, Len(w)) \in Seq(Units) /\ SubSeq(w, 1, Total(w)) \in Seq(Units)
  BY <1>1, <1>2, SubSeqProperties
<1>4. wire' \in [Conns -> Seq(Units)] /\ line' \in [Conns -> Seq(Units)]
  BY <1>3 DEF Receive, TypeOK
<1>5. answers' \in [Conns -> Seq({"ok", "fail"})]
  <2>1. answers[c] \in Seq({"ok", "fail"})
    BY DEF TypeOK
  <2>2. Append(answers[c], "ok") \in Seq({"ok", "fail"}) /\ Append(answers[c], "fail") \in Seq({"ok", "fail"})
    BY <2>1
  <2>3. PICK a \in Seq({"ok", "fail"}) : answers' = [answers EXCEPT ![c] = a]
    BY <2>1, <2>2 DEF Receive
  <2> QED
    BY <2>3 DEF TypeOK
<1>6. child' \in [Conns -> ChildPlaces]
  BY DEF Receive, TypeOK, ChildPlaces
<1>7. used' \in [Conns -> BOOLEAN]
  BY DEF Receive, TypeOK, Good
<1> QED
  BY <1>2, <1>4, <1>5, <1>6, <1>7

Begins == \A p \in Procs : piece[p] > 0 => calls[p] > 0

LEMMA SendType ==
  ASSUME TypeOK, Begins, NEW p \in Procs, Send(p)
  PROVE  /\ calls' \in [Procs -> 0..MaxCalls] /\ piece' \in [Procs -> 0..Pieces]
         /\ result' \in [Procs -> Results] /\ wire' \in [Conns -> Seq(Units)]
         /\ Begins'
         /\ calls'[p] = IF piece[p] = 0 THEN calls[p] + 1 ELSE calls[p]
         /\ calls'[p] \in 1..MaxCalls /\ piece[p] + 1 \in 1..Pieces
<1> DEFINE n == IF piece[p] = 0 THEN calls[p] + 1 ELSE calls[p]
           refused == piece[p] = 0 /\ child[conn[p]] = "gone"
<1>1. calls[p] \in 0..MaxCalls /\ piece[p] \in 0..6 /\ MaxCalls \in Nat
  BY SizesAssumption DEF TypeOK
<1>2. n \in 1..MaxCalls
  <2>1. n <= MaxCalls
    BY DEF Send
  <2> QED
    BY <1>1, <2>1 DEF Begins
<1>3. piece[p] + 1 \in 1..6
  BY <1>1 DEF Send
<1>4. /\ calls' = [calls EXCEPT ![p] = n]
      /\ piece' = [piece EXCEPT ![p] = IF refused THEN 0 ELSE @ + 1]
      /\ result' = [result EXCEPT ![p] = IF refused THEN "fail" ELSE @]
  BY DEF Send
<1>5. wire' = wire \/ wire' = [wire EXCEPT ![conn[p]] = @ \o Piece(p, n, piece[p] + 1)]
  <2>1. CASE child[conn[p]] = "gone"
    BY <2>1 DEF Send, TypeOK
  <2>2. CASE child[conn[p]] # "gone"
    BY <2>2 DEF Send, TypeOK
  <2> QED
    BY <2>1, <2>2
<1> HIDE DEF n, refused
<1>6. wire' \in [Conns -> Seq(Units)]
  <2>1. conn[p] \in Conns /\ wire[conn[p]] \in Seq(Units)
    BY SizesAssumption DEF TypeOK
  <2> DEFINE more == Piece(p, n, piece[p] + 1)
  <2>2. more \in Seq(Units)
    BY <1>2, <1>3, PieceProperties
  <2> HIDE DEF more
  <2>3. wire[conn[p]] \o more \in Seq(Units)
    BY <2>1, <2>2
  <2>4. wire' = wire \/ wire' = [wire EXCEPT ![conn[p]] = @ \o more]
    BY <1>5 DEF more
  <2> QED
    BY <2>3, <2>4 DEF TypeOK
<1>7. calls' \in [Procs -> 0..MaxCalls]
  BY <1>1, <1>2, <1>4 DEF TypeOK
<1>8. piece' \in [Procs -> 0..6] /\ result' \in [Procs -> Results]
  BY <1>1, <1>3, <1>4 DEF TypeOK, Results
<1>9. Begins'
  <2>1. calls'[p] > 0
    BY <1>1, <1>2, <1>4 DEF TypeOK
  <2>2. \A q \in Procs : q # p => calls'[q] = calls[q] /\ piece'[q] = piece[q]
    BY <1>4 DEF TypeOK
  <2> QED
    BY <2>1, <2>2 DEF Begins
<1> QED
  BY <1>2, <1>3, <1>4, <1>6, <1>7, <1>8, <1>9 DEF n, TypeOK

LEMMA WriteType ==
  ASSUME TypeOK, NEW c \in Conns, NEW content \in Seq(Entries), Write(c, content)
  PROVE  TypeOK'
<1> DEFINE d == today[c]
<1>1. d \in Days /\ Entry(c) \in Entries
  BY DEF TypeOK, Entry, Entries
<1>2. Append(written[d], Entry(c)) \in Seq(Entries)
  BY <1>1 DEF TypeOK
<1>3. files' \in [Days -> Seq(Entries)] /\ written' \in [Days -> Seq(Entries)]
  BY <1>1, <1>2 DEF Write, TypeOK
<1>4. exists' \subseteq Days /\ raced' \subseteq Days
  BY <1>1 DEF Write, TypeOK
<1>5. yday' \in [Conns -> 0..MaxDays] /\ child' \in [Conns -> ChildPlaces]
  BY <1>1 DEF Write, TypeOK, ChildPlaces
<1> QED
  BY <1>3, <1>4, <1>5 DEF Write, TypeOK, callers, channels

LEMMA AppendType ==
  ASSUME TypeOK, NEW c \in Conns
  PROVE  /\ Append(files[today[c]], Entry(c)) \in Seq(Entries)
         /\ <<Entry(c)>> \o SubSeq(files[today[c]], 2, Len(files[today[c]])) \in Seq(Entries)
<1> DEFINE file == files[today[c]]
<1>1. file \in Seq(Entries) /\ Entry(c) \in Entries
  BY DEF TypeOK, Entry, Entries
<1> HIDE DEF file
<1>2. SubSeq(file, 2, Len(file)) \in Seq(Entries)
  BY <1>1
<1>3. Append(file, Entry(c)) \in Seq(Entries) /\ <<Entry(c)>> \o SubSeq(file, 2, Len(file)) \in Seq(Entries)
  BY <1>1, <1>2
<1> QED
  BY <1>3 DEF file

LEMMA TypeStep ==
  ASSUME TypeOK, Begins, [Next]_vars
  PROVE  TypeOK' /\ Begins'
<1> USE SizesAssumption
<1>1. ASSUME NEW p \in Procs, Send(p) PROVE TypeOK' /\ Begins'
  <2>1. /\ calls' \in [Procs -> 0..MaxCalls] /\ piece' \in [Procs -> 0..Pieces]
        /\ result' \in [Procs -> Results] /\ wire' \in [Conns -> Seq(Units)] /\ Begins'
    BY <1>1, SendType
  <2> QED
    BY <1>1, <2>1 DEF Send, TypeOK, disk
<1>2. ASSUME NEW p \in Procs, Return(p) PROVE TypeOK' /\ Begins'
  <2> DEFINE c == conn[p]
  <2>1. c \in Conns /\ answers[c] \in Seq({"ok", "fail"})
    BY DEF TypeOK
  <2>2. answers[c] # <<>> => Head(answers[c]) \in {"ok", "fail"} /\ Tail(answers[c]) \in Seq({"ok", "fail"})
    BY <2>1
  <2>3. answers' \in [Conns -> Seq({"ok", "fail"})] /\ result' \in [Procs -> Results]
    <3>1. PICK a \in Seq({"ok", "fail"}), r \in Results :
            answers' = [answers EXCEPT ![c] = a] /\ result' = [result EXCEPT ![p] = r]
      <4>1. CASE answers[c] # <<>>
        BY <1>2, <2>2, <4>1 DEF Return, Results
      <4>2. CASE answers[c] = <<>>
        <5>1. answers' = answers /\ result' = [result EXCEPT ![p] = "fail"]
          BY <1>2, <4>2 DEF Return
        <5>2. answers' = [answers EXCEPT ![c] = <<>>]
          BY <4>2, <5>1 DEF TypeOK
        <5> QED
          BY <2>1, <4>2, <5>1, <5>2 DEF Results
      <4> QED
        BY <4>1, <4>2
    <3> QED
      BY <3>1 DEF TypeOK
  <2>4. piece' = [piece EXCEPT ![p] = 0] /\ calls' = calls
    BY <1>2 DEF Return
  <2>5. piece' \in [Procs -> 0..Pieces]
    BY <2>4 DEF TypeOK
  <2>6. Begins'
    <3>1. \A q \in Procs : piece'[q] = 0 \/ piece'[q] = piece[q]
      BY <2>4 DEF TypeOK
    <3> QED
      BY <2>4, <3>1 DEF Begins
  <2> QED
    BY <1>2, <2>3, <2>5, <2>6 DEF Return, TypeOK, disk
<1>3. ASSUME NEW p \in Procs, Die(p) PROVE TypeOK' /\ Begins'
  BY <1>3 DEF Die, TypeOK, Begins, Results, channels, disk
<1>4. ASSUME NEW c \in Conns, Receive(c) PROVE TypeOK' /\ Begins'
  <2>1. /\ wire' \in [Conns -> Seq(Units)] /\ line' \in [Conns -> Seq(Units)]
        /\ answers' \in [Conns -> Seq({"ok", "fail"})]
        /\ child' \in [Conns -> ChildPlaces] /\ used' \in [Conns -> BOOLEAN]
    BY <1>4, ReceiveType
  <2> QED
    BY <1>4, <2>1 DEF Receive, TypeOK, Begins, callers, disk
<1>5. ASSUME NEW c \in Conns, Finish(c) \/ Killed(c) PROVE TypeOK' /\ Begins'
  <2>1. child' \in [Conns -> ChildPlaces] /\ faults' \in 0..MaxFaults
    <3>1. child' = [child EXCEPT ![c] = "gone"] /\ (faults' = faults \/ (faults < MaxFaults /\ faults' = faults + 1))
      BY <1>5 DEF Finish, Killed
    <3>2. "gone" \in ChildPlaces
      BY DEF ChildPlaces
    <3>3. faults' \in 0..MaxFaults
      BY SMTT(30), <3>1 DEF TypeOK
    <3> QED
      BY <3>1, <3>2, <3>3 DEF TypeOK
  <2>2. UNCHANGED <<calls, piece, result, wire, answers, line, used, yday, today, day,
                    exists, files, written, raced>>
    BY <1>5 DEF Finish, Killed, callers, channels, disk
  <2> QED
    BY <2>1, <2>2 DEF TypeOK, Begins
<1>6. ASSUME NEW c \in Conns, Test(c) PROVE TypeOK' /\ Begins'
  <2>1. today' \in [Conns -> Days]
    BY <1>6 DEF Test, TypeOK
  <2>2. child' \in [Conns -> ChildPlaces]
    BY <1>6 DEF Test, TypeOK, ChildPlaces
  <2> QED
    BY <1>6, <2>1, <2>2 DEF Test, TypeOK, Begins, callers, channels, disk
<1>7. ASSUME NEW c \in Conns, AppendLine(c) \/ FirstLine(c) PROVE TypeOK' /\ Begins'
  <2>1. PICK content \in Seq(Entries) : Write(c, content)
    BY <1>7, AppendType DEF AppendLine, FirstLine
  <2>2. TypeOK'
    BY <2>1, WriteType
  <2> QED
    BY <2>1, <2>2 DEF Write, Begins, callers
<1>8. ASSUME NEW c \in Conns, Make(c) PROVE TypeOK' /\ Begins'
  <2>1. <<>> \in Seq(Entries) /\ today[c] \in Days
    BY DEF TypeOK
  <2>2. files' \in [Days -> Seq(Entries)] /\ exists' \subseteq Days
    BY <1>8, <2>1 DEF Make, TypeOK
  <2>3. yday' \in [Conns -> 0..MaxDays] /\ child' \in [Conns -> ChildPlaces]
    BY <1>8, <2>1 DEF Make, TypeOK, ChildPlaces
  <2> QED
    BY <1>8, <2>2, <2>3 DEF Make, TypeOK, Begins, callers, channels
<1>9. ASSUME NEW c \in Conns, NotRecording(c) PROVE TypeOK' /\ Begins'
  <2>1. yday' \in [Conns -> 0..MaxDays] /\ child' \in [Conns -> ChildPlaces]
    BY <1>9 DEF NotRecording, TypeOK, ChildPlaces
  <2>2. faults' \in 0..MaxFaults
    BY <1>9 DEF NotRecording, TypeOK
  <2> QED
    BY <1>9, <2>1, <2>2 DEF NotRecording, TypeOK, Begins, callers, channels, disk
<1>10. CASE Midnight
  <2>1. day' \in Days
    BY <1>10 DEF Midnight, TypeOK
  <2> QED
    BY <1>10, <2>1 DEF Midnight, TypeOK, Begins, callers, channels, disk
<1>11. CASE UNCHANGED vars
  BY <1>11 DEF vars, callers, channels, disk, TypeOK, Begins
<1> QED
  BY <1>1, <1>2, <1>3, <1>4, <1>5, <1>6, <1>7, <1>8, <1>9, <1>10, <1>11 DEF Next, Caller, Child

-----------------------------------------------------------------------------
(***************************************************************************)
(* The files.                                                              *)
(***************************************************************************)
LEMMA FileStep ==
  ASSUME TypeOK, FileInv, [Next]_vars
  PROVE  FileInv'
<1>1. ASSUME UNCHANGED <<exists, files, written, raced, today>>,
             \A c \in Conns : child'[c] \in {"make", "made"} => child[c] \in {"make", "made"}
      PROVE  FileInv'
  BY <1>1 DEF FileInv
<1>2. ASSUME NEW p \in Procs, Caller(p) \/ Die(p) PROVE FileInv'
  BY <1>1, <1>2 DEF Caller, Send, Return, Die, disk
<1>3. ASSUME NEW c \in Conns, Receive(c) \/ Finish(c) \/ NotRecording(c) \/ Killed(c) PROVE FileInv'
  BY <1>1, <1>3 DEF Receive, Finish, NotRecording, Killed, disk, TypeOK
<1>4. ASSUME NEW c \in Conns, Test(c) PROVE FileInv'
  <2>1. /\ UNCHANGED <<exists, files, written, raced>>
        /\ \A b \in Conns : b # c => child'[b] = child[b] /\ today'[b] = today[b]
        /\ child'[c] \in {"make", "made"} => today'[c] \notin exists
    BY <1>4 DEF Test, disk, TypeOK
  <2> QED
    BY <2>1 DEF FileInv
<1>5. ASSUME NEW c \in Conns, NEW content, Write(c, content), child[c] \in {"append", "add", "made"},
             files[today[c]] = written[today[c]] =>
               content = Append(written[today[c]], Entry(c)) \/ Making(c, today[c])
                 \/ today[c] \in raced
      PROVE  FileInv'
  <2> DEFINE d == today[c]
  <2>1. /\ d \in Days /\ exists' = exists \cup {d} /\ today' = today
        /\ files'[d] = content /\ written'[d] = Append(written[d], Entry(c))
        /\ \A e \in Days : e # d => files'[e] = files[e] /\ written'[e] = written[e]
        /\ raced' = IF Making(c, d) THEN raced \cup {d} ELSE raced
        /\ \A b \in Conns : child'[b] \in {"make", "made"} => b # c /\ child[b] \in {"make", "made"}
    BY <1>5 DEF Write, TypeOK
  <2>2. d \notin raced' => files'[d] = written'[d]
    BY <1>5, <2>1 DEF FileInv
  <2>3. d \notin raced' => \A b \in Conns : ~(child'[b] \in {"make", "made"} /\ today'[b] = d)
    BY <2>1 DEF Making
  <2> QED
    BY <2>1, <2>2, <2>3 DEF FileInv
<1>6. ASSUME NEW c \in Conns, AppendLine(c) PROVE FileInv'
  <2> DEFINE content == Append(files[today[c]], Entry(c))
  <2>1. Write(c, content) /\ child[c] \in {"append", "add", "made"}
    BY <1>6 DEF AppendLine
  <2>2. files[today[c]] = written[today[c]] => content = Append(written[today[c]], Entry(c))
    OBVIOUS
  <2> HIDE DEF content
  <2> QED
    BY <1>5, <2>1, <2>2
<1>7. ASSUME NEW c \in Conns, FirstLine(c) PROVE FileInv'
  <2> DEFINE file == files[today[c]]
             content == <<Entry(c)>> \o SubSeq(file, 2, Len(file))
  <2>1. Write(c, content) /\ child[c] \in {"append", "add", "made"}
    BY <1>7 DEF FirstLine
  <2>2. today[c] \notin raced => file = <<>> /\ written[today[c]] = <<>>
    <3>1. today[c] \in Days
      BY DEF TypeOK
    <3> QED
      BY <1>7, <3>1 DEF FirstLine, FileInv
  <2>3. file = <<>> => content = <<Entry(c)>>
    <3>1. SubSeq(<<>>, 2, Len(<<>>)) = <<>>
      OBVIOUS
    <3>2. <<Entry(c)>> \in Seq({Entry(c)})
      OBVIOUS
    <3>3. <<Entry(c)>> \o <<>> = <<Entry(c)>>
      BY <3>2, ConcatEmptySeq
    <3> QED
      BY <3>1, <3>3
  <2>4. Append(<<>>, Entry(c)) = <<Entry(c)>>
    OBVIOUS
  <2> HIDE DEF content, file
  <2> QED
    BY <1>5, <2>1, <2>2, <2>3, <2>4
<1>8. ASSUME NEW c \in Conns, Make(c) PROVE FileInv'
  <2> DEFINE d == today[c]
  <2>1. /\ d \in Days /\ exists' = exists \cup {d} /\ today' = today
        /\ files'[d] = <<>> /\ written' = written /\ raced' = raced
        /\ \A e \in Days : e # d => files'[e] = files[e]
        /\ \A b \in Conns : child'[b] \in {"make", "made"} => child[b] \in {"make", "made"}
    BY <1>8 DEF Make, TypeOK
  <2>2. d \notin raced => written[d] = <<>>
    BY <1>8, <2>1 DEF Make, FileInv
  <2> QED
    BY <2>1, <2>2 DEF FileInv
<1>9. CASE Midnight \/ UNCHANGED vars
  BY <1>1, <1>9 DEF Midnight, vars, disk
<1> QED
  BY <1>2, <1>3, <1>4, <1>6, <1>7, <1>8, <1>9 DEF Next, Child

LEMMA ClockStep ==
  ASSUME TypeOK, \A c \in Conns : today[c] <= day, [Next]_vars
  PROVE  /\ \A c \in Conns : today'[c] <= day' /\ today[c] <= today'[c]
<1>1. day \in Int /\ \A c \in Conns : today[c] \in Int
  BY DEF TypeOK
<1>2. CASE UNCHANGED <<today, day>>
  BY <1>1, <1>2
<1>3. CASE Midnight
  BY <1>1, <1>3 DEF Midnight
<1>4. ASSUME NEW c \in Conns, Test(c)
      PROVE  \A b \in Conns : today'[b] <= day' /\ today[b] <= today'[b]
  <2>1. today'[c] = day /\ day' = day /\ \A b \in Conns : b # c => today'[b] = today[b]
    BY <1>4 DEF Test, TypeOK
  <2> QED
    BY <1>1, <2>1
<1> QED
  BY <1>2, <1>3, <1>4 DEF Next, Caller, Child, Send, Return, Die, Receive, Finish, AppendLine, FirstLine,
     Write, Make, NotRecording, Killed, vars

-----------------------------------------------------------------------------
(***************************************************************************)
(* A process that has its connection for itself.                           *)
(***************************************************************************)
Link(p) == Exchange(p) /\ Reported(p) /\ Logged(p)

(* What is written is only added to, and by other children. *)
Added(c) ==
  \A d \in Days :
    /\ \A i \in 1..Len(written[d]) : i \in 1..Len(written'[d]) /\ written'[d][i] = written[d][i]
    /\ \A i \in 1..Len(written'[d]) : i \in 1..Len(written[d]) \/ written'[d][i].by # c

LEMMA AddedRefl ==
  ASSUME written' = written, NEW c
  PROVE  Added(c)
BY DEF Added

(* A step of others, or one in which the child goes on with its line. *)
LEMMA LinkKept ==
  ASSUME TypeOK, NEW p \in Procs, Link(p), Added(conn[p]),
         calls'[p] = calls[p], piece'[p] = piece[p], result'[p] \in {result[p], "dead"},
         wire'[conn[p]] = wire[conn[p]], answers'[conn[p]] = answers[conn[p]],
         line'[conn[p]] = line[conn[p]], today[conn[p]] <= today'[conn[p]],
         today'[conn[p]] \in Int,
         child'[conn[p]] = "gone" <=> child[conn[p]] = "gone", Busy(conn[p])' <=> Busy(conn[p]),
         faults > 0 => faults' > 0
  PROVE  Link(p)'
<1> DEFINE c == conn[p]
<1>c. c \in Conns /\ today[c] \in Int
  BY SizesAssumption DEF TypeOK
<1>1. Exchange(p)'
  BY DEF Link, Exchange, Begun
<1>2. Reported(p)'
  <2>1. \A m : Recorded(c, m) => Recorded(c, m)'
    BY DEF Recorded, Has, Added
  <2> QED
    BY <2>1 DEF Link, Reported
<1>3. Logged(p)'
  <2>1. Taken(p)' = Taken(p)
    BY DEF Taken
  <2>2. \A d \in Days : \A i \in 1..Len(written'[d]) : written'[d][i].by = c =>
          i \in 1..Len(written[d]) /\ written'[d][i] = written[d][i]
    BY DEF Added
  <2>3. \A d \in Days : d <= today[c] => d <= today'[c]
    BY <1>c
  <2>4. Busy(c)' => Taken(p)' > 0 /\ line'[c] = Message(p, Taken(p)')
    BY <2>1 DEF Link, Logged
  <2>5. ASSUME NEW d \in Days, NEW i \in 1..Len(written'[d]), written'[d][i].by = c
        PROVE  /\ d <= today'[c]
               /\ Number(written'[d][i]) \in 1..Taken(p)'
               /\ written'[d][i].line = Message(p, Number(written'[d][i]))
               /\ Busy(c)' => Number(written'[d][i]) < Taken(p)'
    BY <2>1, <2>2, <2>3, <2>5 DEF Link, Logged
  <2>6. ASSUME NEW d \in Days, NEW e \in Days,
               NEW i \in 1..Len(written'[d]), NEW j \in 1..Len(written'[e]),
               written'[d][i].by = c, written'[e][j].by = c, d < e \/ (d = e /\ i < j)
        PROVE  Number(written'[d][i]) < Number(written'[e][j])
    BY <2>2, <2>6 DEF Link, Logged
  <2> QED
    BY <2>4, <2>5, <2>6 DEF Logged
<1> QED
  BY <1>1, <1>2, <1>3 DEF Link

(* The child gives up a line, or ends. *)
LEMMA LinkIdle ==
  ASSUME NEW p \in Procs, Link(p), UNCHANGED <<callers, channels, line, today, written>>,
         ~Busy(conn[p])', child[conn[p]] = "gone" <=> (child'[conn[p]] = "gone" /\ child[conn[p]] = "gone"),
         faults' > 0 \/ (faults' = faults /\ ~Busy(conn[p]))
  PROVE  Link(p)'
<1> DEFINE c == conn[p]
<1>u. /\ calls' = calls /\ piece' = piece /\ result' = result /\ wire' = wire /\ answers' = answers
      /\ line' = line /\ today' = today /\ written' = written
  BY DEF callers, channels
<1>1. Exchange(p)'
  BY <1>u DEF Link, Exchange, Begun
<1>2. Reported(p)'
  <2>1. \A m : Recorded(c, m) => Recorded(c, m)'
    BY <1>u DEF Recorded, Has
  <2> QED
    BY <1>u, <2>1 DEF Link, Reported
<1>3. Logged(p)'
  BY <1>u DEF Link, Logged, Taken, Number
<1> QED
  BY <1>1, <1>2, <1>3 DEF Link

LEMMA LinkSend ==
  ASSUME TypeOK, Begins, NEW p \in Procs, Link(p), Send(p)
  PROVE  Link(p)'
<1> DEFINE c == conn[p]
           n == IF piece[p] = 0 THEN calls[p] + 1 ELSE calls[p]
<1>t. /\ c \in Conns /\ piece[p] \in 0..6 /\ calls[p] \in 0..MaxCalls /\ MaxCalls \in Nat
      /\ wire[c] \in Seq(Units)
  BY SizesAssumption DEF TypeOK
<1>n. n \in 1..MaxCalls /\ calls'[p] = n /\ piece[p] + 1 \in 1..6
  BY SendType
<1>a. answers[c] = <<>> /\ piece[p] < 6
  BY DEF Send, Link, Exchange
<1>u. /\ answers' = answers /\ child' = child /\ line' = line /\ today' = today
      /\ written' = written /\ faults' = faults
  BY DEF Send, disk
<1>r. \A m : Recorded(c, m) => Recorded(c, m)'
  BY <1>u DEF Recorded, Has, Busy
<1>1. CASE child[c] = "gone"
  <2>1. wire'[c] = wire[c]
    BY <1>1, <1>t DEF Send, TypeOK
  <2>2. IF piece[p] = 0 THEN piece'[p] = 0 /\ result'[p] = "fail" ELSE piece'[p] = piece[p] + 1
    BY <1>1, <1>t DEF Send, TypeOK
  <2>3. Exchange(p)'
    BY <1>1, <1>a, <1>u, <1>n, <2>1 DEF Link, Exchange
  <2>4. Reported(p)'
    BY <1>1, <1>a, <1>u, <1>t, <2>2 DEF Reported
  <2>5. Taken(p) \in Int /\ Taken(p)' \in Int /\ Taken(p) <= Taken(p)'
    BY <1>t, <1>n, <2>1 DEF Taken
  <2>6. ~Busy(c)' /\ ~Busy(c)
    BY <1>1, <1>u DEF Busy
  <2>7. \A k \in 1..Taken(p) : k \in 1..Taken(p)'
    BY <2>5
  <2>8. Logged(p)'
    BY <1>u, <2>6, <2>7 DEF Link, Logged, Number
  <2> QED
    BY <2>3, <2>4, <2>8 DEF Link
<1>2. CASE child[c] # "gone"
  <2>1. wire[c] = IF piece[p] = 0 THEN <<>> ELSE First(p, n, piece[p])
    BY <1>2, <1>a DEF Link, Exchange, Begun, First
  <2>2. piece'[p] = piece[p] + 1
    BY <1>2, <1>t DEF Send, TypeOK
  <2> DEFINE k == piece[p] + 1
             more == Piece(p, n, k)
  <2>3. wire'[c] = wire[c] \o more
    BY <1>2, <1>t DEF Send, TypeOK
  <2>4. more \in Seq(Units)
    BY <1>n, PieceProperties
  <2> HIDE DEF n
  <2>5. wire'[c] = First(p, n, k) /\ First(p, n, k) # <<>>
    <3>1. CASE piece[p] = 0
      <4>1. k = 1 /\ more = First(p, n, k)
        BY <1>n, <3>1, PieceProperties
      <4>2. <<>> \o more = more
        BY <2>4, ConcatEmptySeq
      <4> QED
        BY <1>n, <2>1, <2>3, <3>1, <4>1, <4>2, FirstProperties
    <3>2. CASE piece[p] # 0
      <4>1. k > 1 /\ k - 1 = piece[p]
        BY <1>t, <3>2
      <4>2. First(p, n, k - 1) \o more = First(p, n, k)
        BY <1>n, <4>1, PieceProperties
      <4> QED
        BY <1>n, <2>1, <2>3, <3>2, <4>1, <4>2, FirstProperties
    <3> QED
      BY <3>1, <3>2
  <2>6. Exchange(p)'
    <3>1. wire'[c] = Begun(p)' /\ piece'[p] # 0
      BY <1>t, <1>n, <2>2, <2>5 DEF Begun, First
    <3> QED
      BY <1>a, <1>u, <1>n, <3>1 DEF Exchange
  <2>7. Reported(p)'
    BY <1>a, <1>u, <1>t, <2>2 DEF Reported
  <2>8. Taken(p)' = Taken(p)
    <3>1. CASE piece[p] = 0
      BY <1>n, <1>t, <2>1, <2>5, <3>1 DEF Taken, n
    <3>2. CASE piece[p] # 0
      <4>1. piece[p] \in 1..6
        BY <1>t, <3>2
      <4>2. wire[c] # <<>>
        BY SMTT(30), <1>n, <2>1, <3>2, <4>1, FirstProperties
      <4> QED
        BY <1>n, <2>5, <3>2, <4>2 DEF Taken, n
    <3> QED
      BY <3>1, <3>2
  <2>9. Logged(p)'
    BY <1>u, <2>8 DEF Link, Logged, Number, Busy
  <2> QED
    BY <2>6, <2>7, <2>9 DEF Link
<1> QED
  BY <1>1, <1>2

LEMMA LinkReturn ==
  ASSUME TypeOK, NEW p \in Procs, Link(p), Return(p)
  PROVE  Link(p)'
<1> DEFINE c == conn[p]
<1>t. c \in Conns
  BY SizesAssumption
<1>u. /\ calls' = calls /\ wire' = wire /\ child' = child /\ line' = line /\ today' = today
      /\ written' = written /\ faults' = faults /\ piece'[p] = 0 /\ piece[p] = 6
  BY DEF Return, disk, TypeOK
<1>1. /\ answers'[c] = <<>>
      /\ \/ answers[c] = <<"ok">> /\ result'[p] = "ok"
         \/ child[c] = "gone" /\ result'[p] = "fail"
  <2>1. answers[c] \in {<<>>, <<"ok">>}
    BY DEF Link, Exchange
  <2>2. CASE answers[c] = <<"ok">>
    BY <1>t, <2>2 DEF Return, TypeOK
  <2>3. CASE answers[c] = <<>>
    BY <1>t, <2>3 DEF Return, TypeOK
  <2> QED
    BY <2>1, <2>2, <2>3
<1>2. Exchange(p)'
  BY <1>1, <1>u DEF Link, Exchange
<1>3. Reported(p)'
  <2>1. \A m : Recorded(c, m) => Recorded(c, m)'
    BY <1>u DEF Recorded, Has, Busy
  <2>2. CASE answers[c] = <<"ok">> /\ result'[p] = "ok"
    <3>1. line[c] = Message(p, calls[p]) /\ Recorded(c, Message(p, calls[p]))
      BY <2>2 DEF Link, Reported
    <3>2. line'[c] = Message(p, calls[p])' /\ Recorded(c, Message(p, calls[p]))'
      BY <1>u, <2>1, <3>1 DEF Message
    <3> QED
      BY <2>2, <3>2 DEF Reported
  <2>3. CASE child[c] = "gone" /\ result'[p] = "fail"
    BY <1>1, <1>u, <2>3 DEF Reported
  <2> QED
    BY <1>1, <2>2, <2>3
<1>4. Logged(p)'
  <2>1. Taken(p)' = Taken(p)
    BY <1>u DEF Taken
  <2> QED
    BY <1>u, <2>1 DEF Link, Logged, Number, Busy
<1> QED
  BY <1>2, <1>3, <1>4 DEF Link

LEMMA LinkReceive ==
  ASSUME TypeOK, NEW p \in Procs, Begins, Link(p), Receive(conn[p])
  PROVE  Link(p)'
<1> DEFINE c == conn[p]
           w == wire[c]
<1>t. /\ c \in Conns /\ piece[p] \in 0..6 /\ calls[p] \in 0..MaxCalls /\ MaxCalls \in Nat
      /\ w \in Seq(Units) /\ answers[c] \in Seq({"ok", "fail"})
  BY SizesAssumption DEF TypeOK
<1>1. child[c] = "recv" /\ Len(w) >= 6 /\ Len(w) >= Total(w)
  BY DEF Receive, Complete
<1>2. w # <<>>
  BY <1>1
<1>3. piece[p] # 0 /\ answers[c] = <<>> /\ w = First(p, calls[p], piece[p])
  BY <1>1, <1>2 DEF Link, Exchange, Begun, First
<1>4. piece[p] \in 1..6 /\ calls[p] \in 1..MaxCalls
  BY <1>t, <1>3 DEF Begins
<1>5. piece[p] = 6 /\ w = First(p, calls[p], 6)
  <2>1. Len(w) = End(piece[p])
    BY SMTT(30), <1>3, <1>4, FirstProperties
  <2>2. piece[p] >= 4
    <3>1. piece[p] \in 1..3 => piece[p] = 1 \/ piece[p] = 2 \/ piece[p] = 3
      OBVIOUS
    <3> QED
      BY <1>1, <1>4, <2>1, <3>1, Ends
  <2>3. Total(w) = End(6)
    <3>1. Total(First(p, calls[p], piece[p])) = End(6)
      BY <1>4, <2>2, FirstProperties
    <3>2. Total(First(p, calls[p], piece[p])) = Total(w)
      BY <1>3
    <3> QED
      BY <3>1, <3>2
  <2>4. piece[p] = 4 \/ piece[p] = 5 \/ piece[p] = 6
    BY <1>4, <2>2
  <2> QED
    BY <1>1, <1>3, <2>1, <2>3, <2>4, Ends, SizesAssumption
<1>6. /\ Nlen(w) = NameLen /\ Blen(w) = TextLen /\ Total(w) = Len(w) /\ Good(w) /\ Len(w) \in Nat
      /\ w = Message(p, calls[p]) /\ w[1].call = calls[p]
  <2>1. Nlen(w) = NameLen /\ Blen(w) = TextLen /\ Total(w) = End(6) /\ Len(w) = End(6) /\ w[1].call = calls[p]
    BY SMTT(30), <1>4, <1>5, FirstProperties
  <2>2. Good(w)
    BY <2>1, SizesAssumption DEF Good
  <2>3. w = Message(p, calls[p])
    BY <1>5 DEF First, Message
  <2> QED
    BY <1>t, <2>1, <2>2, <2>3
<1> DEFINE first == calls[p]
<1>7. wire'[c] = <<>> /\ line'[c] = Message(p, calls[p]) /\ answers'[c] = <<"ok">> /\ child'[c] = "open"
  <2>1. wire'[c] = SubSeq(w, Len(w) + 1, Len(w)) /\ line'[c] = SubSeq(w, 1, Len(w))
    BY <1>t, <1>6 DEF Receive, TypeOK
  <2>2. SubSeq(w, Len(w) + 1, Len(w)) = <<>>
    BY <1>t, <1>6, SubSeqEmpty
  <2>3. SubSeq(w, 1, Len(w)) = w
    BY <1>t, SubSeqFull
  <2>4. Nlen(w) # -1
    BY <1>6, SizesAssumption
  <2>5. answers'[c] = Append(<<>>, "ok") /\ child'[c] = "open"
    BY <1>t, <1>3, <1>6, <2>4 DEF Receive, TypeOK
  <2> QED
    BY <1>6, <2>1, <2>2, <2>3, <2>5
<1>u. /\ calls' = calls /\ piece' = piece /\ result' = result /\ today' = today /\ written' = written
  BY DEF Receive, callers, disk
<1>8. Exchange(p)'
  BY <1>5, <1>7, <1>u DEF Exchange
<1>b. Busy(c)'
  BY <1>7 DEF Busy
<1>9. Reported(p)'
  <2>1. line'[c] = Message(p, calls[p])'
    BY <1>7, <1>u DEF Message
  <2> QED
    BY <1>5, <1>b, <1>u, <2>1 DEF Reported, Recorded
<1>10. Logged(p)'
  <2>1. Taken(p) = calls[p] - 1 /\ Taken(p)' = calls[p]
    BY <1>2, <1>7, <1>u DEF Taken
  <2>2. \A k \in 1..Taken(p) : k \in 1..Taken(p)' /\ k < Taken(p)'
    BY <1>4, <2>1
  <2>3. Taken(p)' > 0 /\ line'[c] = Message(p, Taken(p)')
    BY <1>4, <1>7, <2>1
  <2> QED
    BY <1>u, <2>2, <2>3 DEF Link, Logged, Number
<1> QED
  BY <1>8, <1>9, <1>10 DEF Link

LEMMA LinkWrite ==
  ASSUME TypeOK, Begins, NEW p \in Procs, Link(p), Busy(conn[p]), NEW content, Write(conn[p], content)
  PROVE  Link(p)'
<1> DEFINE c == conn[p]
           d == today[c]
           new == Len(written[d]) + 1
<1>t. c \in Conns /\ d \in Days /\ written[d] \in Seq(Entries)
  BY SizesAssumption DEF TypeOK
<1>u. /\ calls' = calls /\ piece' = piece /\ result' = result /\ today' = today /\ wire' = wire
      /\ answers' = answers /\ line' = line /\ faults' = faults
      /\ child'[c] = "recv" /\ written' = [written EXCEPT ![d] = Append(@, Entry(c))]
  <2>1. child' = [child EXCEPT ![c] = "recv"]
    BY DEF Write
  <2>2. child'[c] = "recv"
    BY <1>t, <2>1 DEF TypeOK
  <2>3. written' = [written EXCEPT ![d] = Append(@, Entry(c))]
    BY DEF Write
  <2> QED
    BY <2>2, <2>3 DEF Write, callers, channels
<1>1. /\ Len(written'[d]) = new /\ new \in Nat /\ written'[d][new] = Entry(c)
      /\ \A i \in 1..Len(written[d]) : written'[d][i] = written[d][i]
      /\ \A i \in 1..Len(written'[d]) : i \in 1..Len(written[d]) \/ i = new
      /\ \A e \in Days : e # d => written'[e] = written[e]
  <2>1. written'[d] = Append(written[d], Entry(c)) /\ \A e \in Days : e # d => written'[e] = written[e]
    BY <1>t, <1>u DEF TypeOK
  <2>2. Entry(c) \in Entries
    BY <1>t DEF Entry, Entries, TypeOK
  <2> QED
    BY <1>t, <2>1, <2>2
<1>2. child[c] # "gone" /\ child'[c] # "gone" /\ ~Busy(c)'
  BY <1>u DEF Busy
<1>3. Exchange(p)'
  BY <1>2, <1>u DEF Link, Exchange, Begun
<1>4. Entry(c).by = c /\ Entry(c).line = line[c]
  BY DEF Entry
<1>5. Reported(p)'
  <2>1. new \in 1..Len(written'[d])
    BY <1>1
  <2>2. \A m : line[c] = m => Recorded(c, m)'
    BY <1>t, <1>1, <1>4, <2>1 DEF Recorded, Has
  <2> QED
    BY <1>2, <1>u, <2>2 DEF Link, Reported
<1>6. Logged(p)'
  <2> DEFINE Old(e, i) == e \in Days /\ i \in 1..Len(written[e])
  <2>1. Taken(p)' = Taken(p) /\ Taken(p) \in Int
    <3>1. calls[p] \in Int
      BY DEF TypeOK
    <3> QED
      BY <1>u, <3>1 DEF Taken
  <2>2. Taken(p) > 0 /\ line[c] = Message(p, Taken(p))
    BY DEF Link, Logged
  <2>3. Number(Entry(c)) = Taken(p)
    <3>1. calls[p] \in 0..MaxCalls
      BY DEF TypeOK
    <3>2. Taken(p) \in 1..MaxCalls
      BY <2>1, <2>2, <3>1, SizesAssumption DEF Taken
    <3>3. Message(p, Taken(p)) = First(p, Taken(p), 6)
      BY DEF First, Message
    <3> QED
      BY SMTT(30), <1>4, <2>2, <3>2, <3>3, FirstProperties DEF Number
  <2>4. \A e \in Days : \A i \in 1..Len(written'[e]) :
          \/ Old(e, i) /\ written'[e][i] = written[e][i]
          \/ e = d /\ i = new /\ written'[e][i] = Entry(c)
    BY <1>1
  <2>5. \A e \in Days : \A i \in 1..Len(written[e]) : written[e][i].by = c =>
          /\ e <= d /\ Number(written[e][i]) \in 1..Taken(p)
          /\ written[e][i].line = Message(p, Number(written[e][i]))
          /\ Number(written[e][i]) < Taken(p)
    BY DEF Link, Logged
  <2>6. ASSUME NEW e \in Days, NEW i \in 1..Len(written'[e]), written'[e][i].by = c
        PROVE  /\ e <= today'[c] /\ Number(written'[e][i]) \in 1..Taken(p)'
               /\ written'[e][i].line = Message(p, Number(written'[e][i]))
    <3>1. CASE Old(e, i) /\ written'[e][i] = written[e][i]
      BY <1>u, <2>1, <2>5, <2>6, <3>1
    <3>2. CASE e = d /\ i = new /\ written'[e][i] = Entry(c)
      <4>1. d <= d
        BY <1>t
      <4> QED
        BY <1>4, <1>u, <2>1, <2>2, <2>3, <3>2, <4>1
    <3> QED
      BY <2>4, <3>1, <3>2
  <2>7. ASSUME NEW e \in Days, NEW f \in Days,
               NEW i \in 1..Len(written'[e]), NEW j \in 1..Len(written'[f]),
               written'[e][i].by = c, written'[f][j].by = c, e < f \/ (e = f /\ i < j)
        PROVE  Number(written'[e][i]) < Number(written'[f][j])
    <3>1. CASE Old(f, j) /\ written'[f][j] = written[f][j]
      <4>1. CASE Old(e, i) /\ written'[e][i] = written[e][i]
        BY <2>7, <3>1, <4>1 DEF Link, Logged
      <4>2. CASE e = d /\ i = new
        <5>1. f <= d
          BY <2>5, <2>7, <3>1
        <5>2. f = d => j < new
          BY <1>1, <3>1
        <5> QED
          BY <1>t, <1>1, <2>7, <4>2, <5>1, <5>2
      <4> QED
        BY <2>4, <4>1, <4>2
    <3>2. CASE f = d /\ j = new /\ written'[f][j] = Entry(c)
      <4>1. CASE Old(e, i) /\ written'[e][i] = written[e][i]
        BY <2>3, <2>5, <2>7, <3>2, <4>1
      <4>2. CASE e = d /\ i = new
        BY <1>t, <1>1, <2>7, <3>2, <4>2
      <4> QED
        BY <2>4, <4>1, <4>2
    <3> QED
      BY <2>4, <3>1, <3>2
  <2> QED
    BY <1>2, <2>6, <2>7 DEF Logged
<1> QED
  BY <1>3, <1>5, <1>6 DEF Link

-----------------------------------------------------------------------------
(***************************************************************************)
(* Together.                                                               *)
(***************************************************************************)
LEMMA ReportInit == Init => ReportInv
<1> SUFFICES ASSUME Init PROVE ReportInv
  OBVIOUS
<1> USE SizesAssumption
<1>1. TypeOK
  BY DEF Init, TypeOK, Results, ChildPlaces
<1>2. FileInv
  BY DEF Init, FileInv
<1>3. ASSUME NEW p \in Procs PROVE Exchange(p) /\ Reported(p) /\ Logged(p)
  <2>1. conn[p] \in Conns
    OBVIOUS
  <2> QED
    BY <2>1 DEF Init, Exchange, Reported, Logged, Busy
<1> QED
  BY <1>1, <1>2, <1>3 DEF ReportInv, Init

LEMMA ReportStep == ReportInv /\ [Next]_vars => ReportInv'
<1> SUFFICES ASSUME ReportInv, [Next]_vars PROVE ReportInv'
  OBVIOUS
<1> USE SizesAssumption
<1>t. /\ TypeOK /\ Begins /\ FileInv /\ \A c \in Conns : today[c] <= day
      /\ \A p \in Procs : Alone(p) => Link(p)
  BY DEF ReportInv, Begins, Link
<1>n. /\ TypeOK' /\ Begins' /\ FileInv'
      /\ \A c \in Conns : today'[c] <= day' /\ today[c] <= today'[c]
  BY <1>t, TypeStep, FileStep, ClockStep
<1>f. (faults > 0 => faults' > 0) /\ \A c \in Conns : today'[c] \in Int
  <2>1. faults \in Nat /\ \A c \in Conns : today'[c] \in Int
    BY <1>t, <1>n DEF TypeOK
  <2>2. faults' = faults \/ faults' = faults + 1
    BY DEF Next, Caller, Child, Send, Return, Die, Receive, Finish, Test, AppendLine, FirstLine, Write,
           Make, NotRecording, Killed, Midnight, vars
  <2> QED
    BY <2>1, <2>2
<1> SUFFICES ASSUME NEW p \in Procs, Alone(p), Link(p) PROVE Link(p)'
  BY <1>t, <1>n DEF ReportInv, Begins, Link, Alone
<1> DEFINE c == conn[p]
<1>c. c \in Conns /\ \A q \in Procs : q # p => conn[q] \in Conns /\ conn[q] # c
  BY DEF Alone
<1>1. ASSUME written' = written,
             calls'[p] = calls[p], piece'[p] = piece[p], result'[p] \in {result[p], "dead"},
             wire'[c] = wire[c], answers'[c] = answers[c], line'[c] = line[c],
             child'[c] = "gone" <=> child[c] = "gone", Busy(c)' <=> Busy(c)
      PROVE  Link(p)'
  BY <1>1, <1>t, <1>n, <1>f, <1>c, LinkKept, AddedRefl
<1>2. ASSUME NEW q \in Procs, Send(q) \/ Return(q) \/ Die(q) PROVE Link(p)'
  <2>1. CASE q = p /\ Send(q)
    BY <2>1, <1>t, LinkSend
  <2>2. CASE q = p /\ Return(q)
    BY <2>2, <1>t, LinkReturn
  <2>3. CASE Die(q) \/ q # p
    <3>1. /\ written' = written /\ calls'[p] = calls[p] /\ piece'[p] = piece[p]
          /\ result'[p] \in {result[p], "dead"} /\ child' = child /\ line' = line
      BY <1>2, <1>t, <2>3 DEF Send, Return, Die, disk, TypeOK
    <3>2. wire'[c] = wire[c] /\ answers'[c] = answers[c]
      BY <1>2, <1>c, <1>t, <2>3 DEF Send, Return, Die, channels, TypeOK
    <3>3. Busy(c)' <=> Busy(c)
      BY <3>1 DEF Busy
    <3> QED
      BY <1>1, <3>1, <3>2, <3>3
  <2> QED
    BY <1>2, <2>1, <2>2, <2>3
<1>3. ASSUME NEW b \in Conns, Child(b) \/ NotRecording(b) \/ Killed(b), b # c PROVE Link(p)'
  <2>1. /\ calls' = calls /\ piece' = piece /\ result' = result
        /\ wire'[c] = wire[c] /\ answers'[c] = answers[c] /\ line'[c] = line[c] /\ child'[c] = child[c]
    BY <1>3, <1>c, <1>t DEF Child, Receive, Finish, Test, AppendLine, FirstLine, Write, Make, NotRecording,
       Killed, callers, channels, TypeOK
  <2>2. Added(c)
    <3>1. CASE written' = written
      BY <3>1, AddedRefl
    <3>2. CASE \E content : Write(b, content)
      <4> DEFINE d == today[b]
      <4>1. /\ d \in Days /\ written[d] \in Seq(Entries) /\ Entry(b) \in Entries /\ Entry(b).by = b
            /\ written' = [written EXCEPT ![d] = Append(@, Entry(b))]
        <5>1. written' = [written EXCEPT ![d] = Append(@, Entry(b))]
          BY <3>2 DEF Write
        <5> QED
          BY <5>1, <1>t DEF TypeOK, Entry, Entries
      <4>2. /\ written'[d] = Append(written[d], Entry(b))
            /\ \A e \in Days : e # d => written'[e] = written[e]
        BY <4>1, <1>t DEF TypeOK
      <4>3. /\ \A i \in 1..Len(written[d]) : i \in 1..Len(written'[d]) /\ written'[d][i] = written[d][i]
            /\ \A i \in 1..Len(written'[d]) : i \in 1..Len(written[d]) \/ written'[d][i].by = b
        BY <4>1, <4>2
      <4> QED
        BY <1>3, <4>2, <4>3 DEF Added
    <3> QED
      BY <1>3, <3>1, <3>2 DEF Child, Receive, Finish, Test, AppendLine, FirstLine, Make, NotRecording,
         Killed, disk
  <2>3. Busy(c)' <=> Busy(c)
    BY <2>1 DEF Busy
  <2> QED
    BY <1>t, <1>n, <1>f, <1>c, <2>1, <2>2, <2>3, LinkKept
<1>4. CASE Receive(c)
  BY <1>4, <1>t, LinkReceive
<1>5. CASE Finish(c) \/ NotRecording(c) \/ Killed(c)
  <2>1. UNCHANGED <<callers, channels, line, today, written>>
    BY <1>5 DEF Finish, NotRecording, Killed, disk
  <2>2. ~Busy(c)' /\ child[c] # "gone"
    BY <1>5, <1>c, <1>t DEF Finish, NotRecording, Killed, Busy, TypeOK
  <2>3. faults' > 0 \/ (faults' = faults /\ ~Busy(c))
    <3>1. faults \in Nat
      BY <1>t DEF TypeOK
    <3> QED
      BY <1>5, <3>1 DEF Finish, NotRecording, Killed, Busy
  <2> QED
    BY <2>1, <2>2, <2>3, LinkIdle
<1>6. CASE Test(c) \/ Make(c)
  <2>1. /\ written' = written /\ calls' = calls /\ piece' = piece /\ result' = result
        /\ wire' = wire /\ answers' = answers /\ line' = line
    BY <1>6 DEF Test, Make, disk, callers, channels
  <2>2. child[c] \in {"open", "make"} /\ child'[c] \in {"append", "add", "make", "made"}
    BY <1>6, <1>c, <1>t DEF Test, Make, TypeOK
  <2>3. (Busy(c)' <=> Busy(c)) /\ (child'[c] = "gone" <=> child[c] = "gone")
    BY <2>2 DEF Busy
  <2> QED
    BY <1>1, <2>1, <2>3
<1>7. CASE AppendLine(c) \/ FirstLine(c)
  <2>1. Busy(c) /\ \E content : Write(c, content)
    BY <1>7 DEF AppendLine, FirstLine, Busy
  <2> QED
    BY <2>1, <1>t, LinkWrite
<1>8. CASE Midnight \/ UNCHANGED vars
  <2>1. /\ written' = written /\ calls' = calls /\ piece' = piece /\ result' = result
        /\ wire' = wire /\ answers' = answers /\ line' = line /\ child' = child
    BY <1>8 DEF Midnight, vars, disk, callers, channels
  <2>2. Busy(c)' <=> Busy(c)
    BY <2>1 DEF Busy
  <2> QED
    BY <1>1, <2>1, <2>2
<1> QED
  BY <1>2, <1>3, <1>4, <1>5, <1>6, <1>7, <1>8 DEF Next, Caller, Child

(* The state of the error log is of the kinds the code gives it. *)
THEOREM TypeCorrect == Spec => []TypeOK
<1>1. ReportInv => TypeOK
  BY DEF ReportInv
<1> QED
  BY <1>1, ReportInit, ReportStep, PTL DEF Spec

(* open_file loses nothing of what the children write, but on a day whose  *)
(* file two of them make.                                                  *)
THEOREM NothingLostCorrect == Spec => []NothingLost
<1>1. ReportInv => NothingLost
  BY DEF ReportInv, FileInv, NothingLost
<1> QED
  BY <1>1, ReportInit, ReportStep, PTL DEF Spec

(* ErrLog returns 0 for a message of its own that its child has read, and  *)
(* -1 only without a child, for a process that shares its connection with  *)
(* no other.                                                               *)
THEOREM AnswerIsOwnCorrect == Spec => []AnswerIsOwn
<1>1. ReportInv => AnswerIsOwn
  BY DEF ReportInv, Reported, AnswerIsOwn
<1> QED
  BY <1>1, ReportInit, ReportStep, PTL DEF Spec

(* The lines of a process that shares its connection with no other are its *)
(* messages, whole, in the order of its calls, and none twice.             *)
THEOREM LinesWholeCorrect == Spec => []LinesWhole
<1>1. ReportInv => LinesWhole
  <2> SUFFICES ASSUME ReportInv, NEW p \in Procs, Alone(p)
               PROVE  \A d, e \in Days : \A i \in 1..Len(written[d]), j \in 1..Len(written[e]) :
                        written[d][i].by = conn[p] /\ written[e][j].by = conn[p] =>
                          \E m, n \in 1..calls[p] :
                            /\ written[d][i].line = Message(p, m) /\ written[e][j].line = Message(p, n)
                            /\ d < e \/ (d = e /\ i < j) => m < n
    BY Zenon DEF LinesWhole
  <2> TAKE d, e \in Days
  <2> TAKE i \in 1..Len(written[d]), j \in 1..Len(written[e])
  <2> HAVE written[d][i].by = conn[p] /\ written[e][j].by = conn[p]
  <2> DEFINE m == Number(written[d][i])
             n == Number(written[e][j])
  <2>1. Logged(p) /\ calls[p] \in Nat
    <3>1. Logged(p) /\ TypeOK
      BY DEF ReportInv
    <3> QED
      BY <3>1, SizesAssumption DEF TypeOK
  <2>2. /\ m \in 1..Taken(p) /\ written[d][i].line = Message(p, m)
        /\ n \in 1..Taken(p) /\ written[e][j].line = Message(p, n)
        /\ d < e \/ (d = e /\ i < j) => m < n
    BY <2>1 DEF Logged
  <2>3. m \in 1..calls[p] /\ n \in 1..calls[p]
    BY <2>1, <2>2 DEF Taken
  <2> QED
    BY <2>2, <2>3
<1> QED
  BY <1>1, ReportInit, ReportStep, PTL DEF Spec
===============================================================================
