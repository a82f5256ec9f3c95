--------------------------- MODULE RecordFeedProofs ---------------------------
(***************************************************************************)
(* Proofs about RecordFeed: its types, and what is in the pipes, for every *)
(* number of runs, records and failures, and every size of frame and pipe. *)
(***************************************************************************)
EXTENDS RecordFeed, SequenceTheorems, TLAPS

USE DEF Runs, Kinds, Places, ChildPlaces, HasFrame

(***************************************************************************)
(* What the steps write.                                                   *)
(***************************************************************************)
(* A part of a frame. *)
LEMMA PartProperties ==
  ASSUME NEW unit \in Units, NEW i \in Nat, NEW j \in Nat, i <= j
  PROVE  /\ Part(unit, i, j) \in Seq(Units)
         /\ Len(Part(unit, i, j)) = j - i
         /\ \A k \in 1..(j - i) : Part(unit, i, j)[k] = Unit(unit.rec, i + k, unit.len)
<1>1. \A k \in 1..(j - i) : Unit(unit.rec, i + k, unit.len) \in Units
  BY DEF Unit, Units
<1>2. Part(unit, i, j) \in [1..(j - i) -> Units]
  BY <1>1 DEF Part
<1>3. j - i \in Nat
  OBVIOUS
<1> QED
  BY <1>1, <1>2, <1>3 DEF Part

(* The subject of a frame and its size. *)
LEMMA SizesType ==
  ASSUME TypeOK, NEW r \in Runs, Working(r), parent[r] \in {"header", "body"}
  PROVE  /\ Sizes(r) \subseteq Lengths /\ Sizes(r) \subseteq Nat \ {0}
         /\ Subject(r) \in 0..MaxRecords /\ Subject(r) <= cur[r]
         /\ Subject(r) = 0 => msg[r] = "cut"
         /\ msg[r] \in {"data", "cut"}
         /\ msg[r] = "data" => /\ cur[r] \in 1..Len(records)
                               /\ Subject(r) = cur[r]
                               /\ Sizes(r) = {records[cur[r]].len}
<1>1. cur[r] \in 0..MaxRecords /\ MaxRecords \in Nat /\ Lengths \subseteq Nat \ {0}
  BY SizesAssumption DEF TypeOK
<1>2. msg[r] \in {"data", "cut"}
  BY DEF Working, Dangling
<1>3. ASSUME msg[r] = "data"
      PROVE  cur[r] \in 1..Len(records) /\ Sizes(r) = {records[cur[r]].len} /\ Subject(r) = cur[r]
  <2>1. cur[r] # 0 /\ cur[r] <= Len(records)
    BY <1>3 DEF Working
  <2>2. Len(records) \in Nat
    BY DEF TypeOK
  <2> QED
    BY <1>1, <1>3, <2>1, <2>2 DEF Sizes, Subject
<1>4. ASSUME msg[r] = "data" PROVE records[cur[r]].len \in Lengths
  <2>1. records[cur[r]] \in Made
    BY <1>3, <1>4 DEF TypeOK
  <2> QED
    BY <2>1 DEF Made
<1>5. Sizes(r) \subseteq Lengths
  BY <1>2, <1>3, <1>4 DEF Sizes
<1>6. Subject(r) \in 0..MaxRecords /\ Subject(r) <= cur[r] /\ (Subject(r) = 0 => msg[r] = "cut")
  BY <1>1, <1>2, <1>3 DEF Subject
<1> QED
  BY <1>1, <1>2, <1>3, <1>5, <1>6

(* What Header appends. *)
LEMMA HeaderAppends ==
  ASSUME TypeOK, NEW r \in Runs, Working(r), Header(r), Room(r) # 0
  PROVE  \E len \in Sizes(r) :
           /\ len \in Lengths
           /\ Unit(Subject(r), 0, len) \in Units
           /\ stream' = [stream EXCEPT ![r] = Append(@, Unit(Subject(r), 0, len))]
           /\ stream'[r] = Append(stream[r], Unit(Subject(r), 0, len))
           /\ stream'[r] \in Seq(Units)
           /\ Len(stream'[r]) = Len(stream[r]) + 1
           /\ \A i \in 1..Len(stream[r]) : stream'[r][i] = stream[r][i]
           /\ stream'[r][Len(stream[r]) + 1] = Unit(Subject(r), 0, len)
<1>1. stream \in [Runs -> Seq(Units)] /\ stream[r] \in Seq(Units)
  BY DEF TypeOK
<1>2. PICK len \in Sizes(r) :
        stream' = [stream EXCEPT ![r] = Append(@, Unit(Subject(r), 0, len))]
  BY DEF Header
<1>3. len \in Lengths /\ Unit(Subject(r), 0, len) \in Units
  BY SizesType, <1>2 DEF Header, Unit, Units
<1>4. stream'[r] = Append(stream[r], Unit(Subject(r), 0, len))
  BY <1>1, <1>2
<1>5. /\ Append(stream[r], Unit(Subject(r), 0, len)) \in Seq(Units)
      /\ Len(Append(stream[r], Unit(Subject(r), 0, len))) = Len(stream[r]) + 1
      /\ \A i \in 1..Len(stream[r]) :
           Append(stream[r], Unit(Subject(r), 0, len))[i] = stream[r][i]
      /\ Append(stream[r], Unit(Subject(r), 0, len))[Len(stream[r]) + 1] = Unit(Subject(r), 0, len)
  BY <1>1, <1>3, AppendProperties
<1> QED
  BY <1>2, <1>3, <1>4, <1>5

LEMMA Concatenated ==
  ASSUME NEW S, NEW s \in Seq(S), NEW t \in Seq(S)
  PROVE  /\ s \o t \in Seq(S) /\ Len(s \o t) = Len(s) + Len(t)
         /\ \A i \in 1..Len(s) : (s \o t)[i] = s[i]
         /\ \A k \in 1..Len(t) : (s \o t)[Len(s) + k] = t[k]
  OBVIOUS

(* What Body appends. *)
LEMMA BodyAppends ==
  ASSUME TypeOK, NEW r \in Runs, Working(r), Streamed(r), Body(r)
  PROVE  \E n \in Nat, len \in Sizes(r) :
           /\ len \in Nat /\ written[r] + n <= len /\ written[r] < len
           /\ IF len - written[r] <= Room(r) THEN n = len - written[r] ELSE n <= Room(r)
           /\ stream' = [stream EXCEPT ![r] = stream'[r]]
           /\ stream'[r] \in Seq(Units)
           /\ Len(stream'[r]) = Len(stream[r]) + n
           /\ \A i \in 1..Len(stream[r]) : stream'[r][i] = stream[r][i]
           /\ \A k \in 1..n :
                stream'[r][Len(stream[r]) + k] = Unit(Subject(r), written[r] + k, len)
           /\ stream[r] # <<>>
           /\ stream[r][Len(stream[r])] = Unit(Subject(r), written[r], len)
           /\ written' = [written EXCEPT ![r] = IF n = 0 \/ written[r] + n = len THEN 0 ELSE @ + n]
           /\ full' = [full EXCEPT ![r] = @ \/ written[r] + n < len]
           /\ Goto(r, IF written[r] + n = len \/ n = 0 THEN "recv" ELSE "body")
<1>1. stream \in [Runs -> Seq(Units)] /\ stream[r] \in Seq(Units) /\ written[r] \in Nat
  BY DEF TypeOK
<1>2. parent[r] = "body"
  BY DEF Body
<1>3. stream[r] # <<>>
  BY <1>2 DEF Streamed
<1>4. PICK len \in Sizes(r) :
        stream[r][Len(stream[r])] = Unit(Subject(r), written[r], len) /\ written[r] < len
  BY <1>2 DEF Streamed
<1>5. len \in Nat
  BY <1>2, SizesType
<1> DEFINE last == stream[r][Len(stream[r])]
<1>6. last \in Units /\ last.rec = Subject(r) /\ last.len = len
  <2>1. last \in Units
    BY <1>1, <1>3
  <2> QED
    BY <2>1, <1>4 DEF Unit
<1>r. Room(r) \in Nat
  BY <1>1, SizesAssumption DEF Room, TypeOK
<1>7. PICK n \in 0..(len - written[r]) :
        /\ IF len - written[r] <= Room(r) THEN n = len - written[r] ELSE n <= Room(r)
        /\ stream' = [stream EXCEPT ![r] = @ \o Part(last, written[r], written[r] + n)]
        /\ written' = [written EXCEPT ![r] = IF n \in {0, len - written[r]} THEN 0 ELSE @ + n]
        /\ full' = [full EXCEPT ![r] = @ \/ n < len - written[r]]
        /\ Goto(r, IF n = len - written[r] \/ n = 0 THEN "recv" ELSE "body")
  <2> DEFINE rest == last.len - written[r]
  <2>1. rest = len - written[r] /\ rest \in Nat
    BY <1>1, <1>4, <1>5, <1>6
  <2>2. PICK n \in Takes(r, rest) :
          /\ stream' = [stream EXCEPT ![r] = @ \o Part(last, written[r], written[r] + n)]
          /\ written' = [written EXCEPT ![r] = IF n \in {0, rest} THEN 0 ELSE @ + n]
          /\ full' = [full EXCEPT ![r] = @ \/ n < rest]
          /\ Goto(r, IF n = rest \/ n = 0 THEN "recv" ELSE "body")
    BY DEF Body
  <2> HIDE DEF rest
  <2>3. n \in 0..rest /\ IF rest <= Room(r) THEN n = rest ELSE n <= Room(r)
    BY <1>r, <2>1, <2>2 DEF Takes
  <2> QED
    BY <2>1, <2>2, <2>3
<1> HIDE DEF last
<1>8. n \in Nat /\ written[r] + n \in Nat /\ written[r] + n <= len
      /\ (n = len - written[r] <=> written[r] + n = len)
      /\ (n < len - written[r] <=> written[r] + n < len)
  BY <1>1, <1>5, <1>7
<1>9. PICK part \in Seq(Units) :
        /\ part = Part(last, written[r], written[r] + n)
        /\ Len(part) = n
        /\ \A k \in 1..n : part[k] = Unit(Subject(r), written[r] + k, len)
  <2> DEFINE i == written[r]
             j == written[r] + n
             part == Part(last, i, j)
  <2>1. i \in Nat /\ j \in Nat /\ i <= j /\ j - i = n /\ last \in Units
    BY <1>1, <1>6, <1>8
  <2> HIDE DEF i, j
  <2>2. /\ Part(last, i, j) \in Seq(Units) /\ Len(Part(last, i, j)) = j - i
        /\ \A k \in 1..(j - i) : Part(last, i, j)[k] = Unit(last.rec, i + k, last.len)
    BY <2>1, PartProperties
  <2> HIDE DEF part
  <2>3. part \in Seq(Units)
    BY <2>2 DEF part
  <2>4. Len(part) = n /\ \A k \in 1..n : part[k] = Unit(Subject(r), written[r] + k, len)
    BY <2>1, <2>2, <1>6 DEF part, i
  <2> QED
    BY <2>3, <2>4 DEF part, i, j
<1>10. stream'[r] = stream[r] \o part
  BY <1>1, <1>7, <1>9
<1>11. /\ stream[r] \o part \in Seq(Units)
       /\ Len(stream[r] \o part) = Len(stream[r]) + n
       /\ \A i \in 1..Len(stream[r]) : (stream[r] \o part)[i] = stream[r][i]
       /\ \A k \in 1..n : (stream[r] \o part)[Len(stream[r]) + k] = part[k]
  <2> DEFINE before == stream[r]
  <2>1. before \in Seq(Units) /\ part \in Seq(Units) /\ Len(part) = n
    BY <1>1, <1>9
  <2> HIDE DEF before
  <2>2. /\ before \o part \in Seq(Units) /\ Len(before \o part) = Len(before) + Len(part)
        /\ \A i \in 1..Len(before) : (before \o part)[i] = before[i]
        /\ \A k \in 1..Len(part) : (before \o part)[Len(before) + k] = part[k]
    BY <2>1
  <2> QED
    BY <2>1, <2>2 DEF before
<1>12. stream' = [stream EXCEPT ![r] = stream'[r]]
  BY <1>1, <1>7
<1>13. written' = [written EXCEPT ![r] = IF n = 0 \/ written[r] + n = len THEN 0 ELSE @ + n]
  BY <1>7, <1>8
<1>14. full' = [full EXCEPT ![r] = @ \/ written[r] + n < len]
  BY <1>7, <1>8
<1>15. Goto(r, IF written[r] + n = len \/ n = 0 THEN "recv" ELSE "body")
  BY <1>7, <1>8
<1>16. \A k \in 1..n : stream'[r][Len(stream[r]) + k] = Unit(Subject(r), written[r] + k, len)
  BY <1>9, <1>10, <1>11
<1> QED
  <2>1. /\ len \in Nat /\ written[r] + n <= len /\ written[r] < len
        /\ IF len - written[r] <= Room(r) THEN n = len - written[r] ELSE n <= Room(r)
    BY <1>4, <1>5, <1>7, <1>8
  <2>2. /\ stream'[r] \in Seq(Units)
        /\ Len(stream'[r]) = Len(stream[r]) + n
        /\ \A i \in 1..Len(stream[r]) : stream'[r][i] = stream[r][i]
    BY <1>10, <1>11
  <2> QED
    BY <2>1, <2>2, <1>3, <1>4, <1>8, <1>12, <1>13, <1>14, <1>15, <1>16, Zenon

-----------------------------------------------------------------------------
(***************************************************************************)
(* The types.                                                              *)
(***************************************************************************)
LEMMA TypeStep ==
  ASSUME FeedInv, [Next]_vars
  PROVE  TypeOK'
<1> USE SizesAssumption
<1>t. TypeOK
  BY DEF FeedInv
<1>w. \A r \in Runs : Working(r) /\ Streamed(r)
  BY DEF FeedInv
<1>q. RequestInv
  BY DEF FeedInv
<1>r. Len(records) \in Nat /\ 0 \in 0..MaxRecords
  BY <1>t DEF TypeOK
<1>1. CASE Start
  <2>1. run' \in 0..MaxRuns /\ parent' \in [Runs -> Places] /\ prog' = "idle"
    BY <1>1, <1>t DEF Start, TypeOK
  <2> QED
    BY <1>1, <2>1, <1>t DEF Start, TypeOK, childVars
<1>2. CASE SendRecord
  <2>1. PICK len \in Lengths, wanted \in BOOLEAN :
          records' = Append(records, [run |-> run, len |-> len, wanted |-> wanted])
    BY <1>2 DEF SendRecord
  <2>2. run \in Runs
    BY <1>2, <1>q DEF SendRecord, Ask, RequestInv
  <2>3. records' \in Seq(Made) /\ Len(records') = Len(records) + 1
    BY <2>1, <2>2, <1>t DEF TypeOK, Made
  <2>4. Len(records') <= MaxRecords /\ Len(records) + 1 \in 0..MaxRecords
    BY <1>2, <1>r, <2>3 DEF SendRecord
  <2> QED
    BY <1>2, <2>2, <2>3, <2>4, <1>t
    DEF SendRecord, Ask, TypeOK, Requests, parentVars, childVars
<1>3. CASE SendOther
  BY <1>3, <1>t, <1>r DEF SendOther, Ask, TypeOK, Requests, parentVars, childVars
<1>4. CASE Answered
  BY <1>4, <1>t DEF Answered, TypeOK, parentVars, childVars
<1>5. CASE Stop
  <2>1. prog' = "down" /\ down' \in [Runs -> BOOLEAN]
    BY <1>5, <1>t DEF Stop, TypeOK
  <2>2. up' \in [Runs -> Requests]
    <3>1. [kind |-> "cut", rec |-> 0] \in Requests
      BY <1>r DEF Requests
    <3>2. up' = up \/ up' = [up EXCEPT ![run] = [kind |-> "cut", rec |-> 0]]
      BY <1>5 DEF Stop
    <3> QED
      BY <3>1, <3>2, <1>t DEF TypeOK
  <2> QED
    BY <1>5, <2>1, <2>2, <1>t DEF Stop, TypeOK, parentVars, childVars
<1>6. ASSUME NEW r \in Runs, Parent(r) PROVE TypeOK'
  <2>0. ASSUME NEW place \in Places, ForkInet(r, place) PROVE TypeOK'
    <3>1. parent' \in [Runs -> Places] /\ outpipe' \in [Runs -> BOOLEAN]
      BY <2>0, <1>t DEF ForkInet, TypeOK
    <3>2. child' \in [Runs -> ChildPlaces]
      BY <2>0, <1>t DEF ForkInet, TypeOK
    <3>3. faults' \in 0..MaxFaults
      <4>1. faults' = faults \/ (faults < MaxFaults /\ faults' = faults + 1)
        BY <2>0 DEF ForkInet, Fails
      <4>2. faults \in 0..MaxFaults /\ MaxFaults \in Nat
        BY <1>t DEF TypeOK
      <4> QED
        BY <4>1, <4>2
    <3> QED
      BY <2>0, <3>1, <3>2, <3>3, <1>t DEF ForkInet, TypeOK, program
  <2>1. CASE Fork(r)
    BY <2>0, <2>1 DEF Fork
  <2>2. CASE Receive(r)
    <3>1. up[r] \in Requests
      BY <1>t DEF TypeOK
    <3> QED
      BY <2>2, <3>1, <1>t, <1>r DEF Receive, TypeOK, Requests, Nothing, program, childVars
  <2>3. CASE PassOver(r) \/ Crash(r) \/ NoPipe(r) \/ Finish(r)
    BY <2>3, <1>t DEF PassOver, Crash, NoPipe, Finish, Goto, TypeOK, program, childVars
  <2>4. CASE Look(r)
    <3>1. CASE Goto(r, "header") /\ UNCHANGED <<written, stream, full>>
      BY <3>1, <1>t DEF Goto, TypeOK, program, childVars
    <3> QED
      BY <2>0, <2>4, <3>1 DEF Look
  <2>5. CASE Unread(r)
    BY <2>5, <1>t DEF Unread, Goto, TypeOK, program, childVars
  <2>6. CASE Header(r) /\ Room(r) = 0
    BY ZenonT(30), <2>6, <1>t DEF Header, Goto, TypeOK, program, childVars
  <2>7. CASE Header(r) /\ Room(r) # 0
    <3>1. /\ stream' = [stream EXCEPT ![r] = stream'[r]]
          /\ stream'[r] \in Seq(Units) /\ Len(stream'[r]) = Len(stream[r]) + 1
      BY <2>7, <1>t, <1>w, HeaderAppends
    <3>2. stream' \in [Runs -> Seq(Units)]
      BY <3>1, <1>t DEF TypeOK
    <3>3. taken' = taken
      BY <2>7 DEF Header, Goto, childVars
    <3>4. \A q \in Runs : Len(stream'[q]) - taken'[q] \in 0..PipeSize
      <4>1. /\ Room(r) = PipeSize - (Len(stream[r]) - taken[r])
            /\ Len(stream[r]) - taken[r] \in 0..PipeSize /\ Len(stream[r]) \in Nat /\ taken[r] \in Nat
        BY <1>t DEF Room, TypeOK
      <4>2. Len(stream'[r]) - taken'[r] \in 0..PipeSize
        BY SMTT(30), <2>7, <3>1, <3>3, <4>1
      <4>3. \A q \in Runs : q # r => stream'[q] = stream[q]
        BY <3>1, <1>t DEF TypeOK
      <4> QED
        BY <3>3, <4>2, <4>3, <1>t DEF TypeOK
    <3> QED
      BY <2>7, <3>2, <3>4, <1>t DEF Header, Goto, TypeOK, program, childVars
  <2>8. CASE Body(r)
    <3>1. PICK n \in Nat, len \in Sizes(r) :
            /\ len \in Nat /\ written[r] + n <= len /\ written[r] < len
            /\ IF len - written[r] <= Room(r) THEN n = len - written[r] ELSE n <= Room(r)
            /\ stream' = [stream EXCEPT ![r] = stream'[r]]
            /\ stream'[r] \in Seq(Units)
            /\ Len(stream'[r]) = Len(stream[r]) + n
            /\ written' = [written EXCEPT ![r] = IF n = 0 \/ written[r] + n = len THEN 0 ELSE @ + n]
            /\ full' = [full EXCEPT ![r] = @ \/ written[r] + n < len]
            /\ Goto(r, IF written[r] + n = len \/ n = 0 THEN "recv" ELSE "body")
      BY <2>8, <1>t, <1>w, BodyAppends
    <3>2. stream' \in [Runs -> Seq(Units)]
      BY <3>1, <1>t DEF TypeOK
    <3>3. taken' = taken
      BY <3>1 DEF Goto, childVars
    <3>4. n <= Room(r)
      BY <3>1, <1>t DEF TypeOK, Room
    <3>5. \A q \in Runs : Len(stream'[q]) - taken'[q] \in 0..PipeSize
      <4>1. /\ Room(r) = PipeSize - (Len(stream[r]) - taken[r])
            /\ Len(stream[r]) - taken[r] \in 0..PipeSize /\ Len(stream[r]) \in Nat /\ taken[r] \in Nat
        BY <1>t DEF Room, TypeOK
      <4>2. Len(stream'[r]) - taken'[r] \in 0..PipeSize
        BY SMTT(30), <3>1, <3>3, <3>4, <4>1
      <4>3. \A q \in Runs : q # r => stream'[q] = stream[q]
        BY <3>1, <1>t DEF TypeOK
      <4> QED
        BY <3>3, <4>2, <4>3, <1>t DEF TypeOK
    <3>6. written' \in [Runs -> Nat] /\ full' \in [Runs -> BOOLEAN]
      <4>1. written \in [Runs -> Nat] /\ full \in [Runs -> BOOLEAN] /\ written[r] \in Nat
        BY <1>t DEF TypeOK
      <4>2. written' \in [Runs -> Nat]
        BY <3>1, <4>1
      <4>3. full' \in [Runs -> BOOLEAN]
        BY <3>1, <4>1
      <4> QED
        BY <4>2, <4>3
    <3> QED
      BY <3>1, <3>2, <3>5, <3>6, <1>t DEF Goto, TypeOK, program, childVars
  <2> QED
    BY <1>6, <2>1, <2>2, <2>3, <2>4, <2>5, <2>6, <2>7, <2>8 DEF Parent
<1>7. ASSUME NEW r \in Runs, Child(r) \/ TrapReset(r) PROVE TypeOK'
  <2>1. Len(stream[r]) \in Nat /\ taken[r] \in Nat /\ Len(stream[r]) - taken[r] \in 0..PipeSize
    BY <1>t DEF TypeOK
  <2>2. ASSUME NEW n \in Nat, n <= Len(stream[r]), n >= taken[r], taken' = [taken EXCEPT ![r] = n],
               NEW place \in ChildPlaces, ChildMoves(r, place)
        PROVE  TypeOK'
    <3>1. taken' \in [Runs -> Nat] /\ child' \in [Runs -> ChildPlaces] /\ stream' = stream
      BY <2>2, <1>t DEF ChildMoves, TypeOK, parentVars
    <3>2. Len(stream[r]) - n \in 0..PipeSize
      BY <2>1, <2>2
    <3>3. \A q \in Runs : Len(stream'[q]) - taken'[q] \in 0..PipeSize
      <4>1. taken'[r] = n /\ \A q \in Runs : q # r => taken'[q] = taken[q]
        BY <2>2, <1>t DEF TypeOK
      <4> QED
        BY <3>1, <3>2, <4>1, <1>t DEF TypeOK
    <3> QED
      BY <2>2, <3>1, <3>3, <1>t DEF ChildMoves, TypeOK, program, parentVars
  <2>3. CASE Read(r)
    <3> DEFINE more == Len(stream[r]) - taken[r]
               n == taken[r] + (IF more < BufSize THEN more ELSE BufSize)
    <3>1. n \in Nat /\ n <= Len(stream[r]) /\ n >= taken[r]
      BY <2>1, <2>3 DEF Read
    <3>2. taken' = [taken EXCEPT ![r] = n] /\ ChildMoves(r, child[r])
      BY <2>3 DEF Read
    <3>3. child[r] \in ChildPlaces
      BY <1>t DEF TypeOK
    <3> HIDE DEF n
    <3> QED
      BY <2>2, <3>1, <3>2, <3>3
  <2>5. CASE ChildEnds(r)
    <3> DEFINE n == Len(stream[r])
               place == "gone"
    <3>1. n \in Nat /\ n <= Len(stream[r]) /\ n >= taken[r]
      BY <2>1
    <3>2. /\ place \in ChildPlaces /\ ChildMoves(r, place)
          /\ taken' = [taken EXCEPT ![r] = n]
      BY <2>5 DEF ChildEnds
    <3> HIDE DEF n, place
    <3> QED
      BY <2>2, <3>1, <3>2
  <2>4. ASSUME NEW place \in ChildPlaces, ChildMoves(r, place), UNCHANGED taken
        PROVE  TypeOK'
    BY <2>4, <1>t DEF ChildMoves, TypeOK, program, parentVars
  <2> QED
    BY <1>7, <2>3, <2>4, <2>5 DEF Child, Bind, Listen, EndOfPipe, TrapReset
<1>8. CASE UNCHANGED vars
  BY <1>8, <1>t DEF vars, program, parentVars, childVars, TypeOK
<1> QED
  BY <1>1, <1>2, <1>3, <1>4, <1>5, <1>6, <1>7, <1>8 DEF Next, Program

-----------------------------------------------------------------------------
(***************************************************************************)
(* A step of the parent of one run leaves the others as they are.          *)
(***************************************************************************)
Same(q) ==
  /\ up'[q] = up[q] /\ down'[q] = down[q] /\ parent'[q] = parent[q] /\ msg'[q] = msg[q]
  /\ cur'[q] = cur[q] /\ outpipe'[q] = outpipe[q] /\ written'[q] = written[q]
  /\ stream'[q] = stream[q] /\ full'[q] = full[q]

(* What FeedInv says of a run. *)
Parts(q) == Requested(q) /\ Working(q) /\ Streamed(q) /\ Piped(q) /\ Framed(q) /\ Kept(q)

LEMMA Untouched ==
  ASSUME NEW q \in Runs, Parts(q), Same(q), program' = program,
         faults' = 0 => faults = 0, child'[q] # "gone" => child[q] # "gone"
  PROVE  Parts(q)'
<1>p. run' = run /\ prog' = prog /\ records' = records
  BY DEF program
<1>1. Requested(q)'
  BY <1>p DEF Parts, Same, Requested, Over
<1>2. Working(q)'
  BY <1>p DEF Parts, Same, Working, Over, Dangling
<1>3. Streamed(q)'
  BY <1>p DEF Parts, Same, Streamed, Sizes, Subject
<1>4. Piped(q)'
  BY <1>p DEF Parts, Same, Piped
<1>5. Framed(q)'
  BY <1>p DEF Parts, Same, Framed, Over
<1>6. Kept(q)'
  BY <1>p DEF Parts, Same, Kept, Done
<1> QED
  BY <1>1, <1>2, <1>3, <1>4, <1>5, <1>6 DEF Parts

LEMMA ParentFrame ==
  ASSUME TypeOK, NEW r \in Runs, Parent(r)
  PROVE  /\ program' = program /\ (faults' = 0 => faults = 0)
         /\ \A q \in Runs : q # r => Same(q) /\ child'[q] = child[q]
         /\ parent[r] # "none" /\ parent'[r] \notin {"none", "fork"}
<1>f. faults \in Nat
  BY SizesAssumption DEF TypeOK
<1>0. ASSUME NEW place \in {"recv", "header"}, ForkInet(r, place)
      PROVE  /\ program' = program /\ (faults' = 0 => faults = 0) /\ parent'[r] = place
             /\ \A q \in Runs : q # r => Same(q) /\ child'[q] = child[q]
  <2>1. faults' = faults \/ faults' = faults + 1
    BY <1>0 DEF ForkInet, Fails
  <2>2. \A q \in Runs : q # r => outpipe'[q] = outpipe[q] /\ child'[q] = child[q] /\ parent'[q] = parent[q]
    BY <1>0 DEF ForkInet, TypeOK
  <2>3. parent'[r] = place
    BY <1>0 DEF ForkInet, TypeOK
  <2> QED
    BY <1>0, <1>f, <2>1, <2>2, <2>3 DEF ForkInet, Same
<1>1. CASE Fork(r)
  BY <1>0, <1>1 DEF Fork
<1>2. CASE Receive(r)
  BY <1>2 DEF Receive, TypeOK, Same, childVars
<1>3. CASE PassOver(r) \/ Crash(r) \/ NoPipe(r) \/ Finish(r)
  BY <1>3 DEF PassOver, Crash, NoPipe, Finish, Goto, TypeOK, Same, childVars
<1>4. CASE Look(r)
  <2>1. CASE outpipe[r]
    BY <1>4, <2>1 DEF Look, Goto, TypeOK, Same, childVars
  <2> QED
    BY <1>0, <1>4, <2>1 DEF Look
<1>5. CASE Unread(r) \/ Header(r) \/ Body(r)
  <2>1. CASE Unread(r)
    BY <2>1 DEF Unread, Goto, TypeOK, Same, childVars
  <2>2. CASE Header(r)
    BY <2>2 DEF Header, Goto, TypeOK, Same, childVars
  <2>3. CASE Body(r)
    BY <2>3 DEF Body, Goto, TypeOK, Same, childVars
  <2> QED
    BY <1>5, <2>1, <2>2, <2>3
<1> QED
  BY <1>1, <1>2, <1>3, <1>4, <1>5 DEF Parent

(* A run that is over stays over, once it has begun. *)
LEMMA OverGrows ==
  ASSUME TypeOK, Program, NEW q \in Runs, q <= run, Over(q)
  PROVE  Over(q)'
<1>1. run \in Int /\ q \in Int
  BY DEF TypeOK
<1> QED
  BY <1>1 DEF Program, Start, SendRecord, SendOther, Ask, Answered, Stop, Over, program

-----------------------------------------------------------------------------
(***************************************************************************)
(* The steps of the control program.                                       *)
(***************************************************************************)
LEMMA StartStep ==
  ASSUME FeedInv, Start
  PROVE  \A q \in Runs : Parts(q)'
<1>t. TypeOK /\ TypeOK' /\ \A q \in Runs : Parts(q)
  BY TypeStep DEF FeedInv, RequestInv, Parts, Next, Program
<1>n. run' = run + 1 /\ run + 1 \in Runs /\ run \in Nat
  BY <1>t, SizesAssumption DEF Start, TypeOK
<1> SUFFICES ASSUME NEW q \in Runs PROVE Parts(q)'
  OBVIOUS
<1>i. q \in Int
  OBVIOUS
<1>s. /\ up'[q] = up[q] /\ down'[q] = down[q] /\ msg'[q] = msg[q] /\ cur'[q] = cur[q]
      /\ outpipe'[q] = outpipe[q] /\ written'[q] = written[q] /\ stream'[q] = stream[q]
      /\ full'[q] = full[q] /\ child'[q] = child[q] /\ records' = records /\ faults' = faults
  BY DEF Start, childVars
<1>p. \/ q # run + 1 /\ parent'[q] = parent[q]
      \/ q = run + 1 /\ parent[q] = "none" /\ parent'[q] = "fork"
  BY <1>t, <1>n DEF Start, TypeOK, Parts, Requested
<1>o. parent[q] # "none" /\ Over(q) => Over(q)'
  BY <1>t, <1>n, <1>i, OverGrows DEF Parts, Requested, Program
<1>z. q > run => up[q] = Nothing /\ ~down[q] /\ parent[q] = "none"
  BY <1>t DEF Parts, Requested
<1>e. parent[q] \in {"none", "fork"} => stream[q] = <<>> /\ cur[q] = 0 /\ msg[q] = "none"
  BY <1>t DEF Parts, Requested
<1>1. Requested(q)'
  <2>1. q > run' => parent'[q] = "none" /\ up'[q] = Nothing /\ ~down'[q]
    BY <1>n, <1>i, <1>p, <1>s, <1>z
  <2>2. up'[q].kind = "cut" => Over(q)'
    <3>1. Nothing.kind = "none"
      BY DEF Nothing
    <3>2. up[q].kind = "cut" => q <= run
      BY <1>n, <1>i, <1>z, <3>1
    <3> QED
      BY <1>s, <1>t, <3>2, OverGrows DEF Parts, Requested, Program
  <2> QED
    BY <2>1, <2>2, <1>t, <1>p, <1>s, <1>e DEF Parts, Requested
<1>2. Working(q)'
  BY <1>t, <1>p, <1>s, <1>o, <1>e DEF Parts, Working, Dangling
<1>3. Streamed(q)'
  BY <1>t, <1>p, <1>s, <1>e DEF Parts, Streamed, Sizes, Subject
<1>4. Piped(q)'
  BY <1>t, <1>p, <1>s DEF Parts, Piped
<1>5. Framed(q)'
  BY <1>t, <1>s, <1>o, <1>e DEF Parts, Framed
<1>6. Kept(q)'
  BY <1>t, <1>p, <1>s, <1>e DEF Parts, Kept, Done
<1> QED
  BY <1>1, <1>2, <1>3, <1>4, <1>5, <1>6 DEF Parts

(* In the other steps only the requests and the records change, and run    *)
(* does not.                                                               *)
LEMMA SendRecordStep ==
  ASSUME FeedInv, SendRecord
  PROVE  \A q \in Runs : Parts(q)'
<1>t. TypeOK /\ RequestInv /\ \A q \in Runs : Parts(q)
  BY DEF FeedInv, RequestInv, Parts
<1>r. run \in Runs /\ run \in Nat /\ up[run] = Nothing /\ ~down[run] /\ ~Over(run)
  BY <1>t DEF SendRecord, Ask, RequestInv, Over
<1> DEFINE new == Len(records) + 1
<1>l. PICK len \in Lengths, wanted \in BOOLEAN :
        records' = Append(records, [run |-> run, len |-> len, wanted |-> wanted])
  BY DEF SendRecord
<1>a. /\ Len(records) \in Nat /\ Len(records') = new
      /\ \A m \in 1..Len(records) : records'[m] = records[m]
      /\ records'[new].run = run
  BY <1>t, <1>l DEF TypeOK
<1> SUFFICES ASSUME NEW q \in Runs PROVE Parts(q)'
  OBVIOUS
<1>s. /\ down'[q] = down[q] /\ msg'[q] = msg[q] /\ cur'[q] = cur[q] /\ parent'[q] = parent[q]
      /\ outpipe'[q] = outpipe[q] /\ written'[q] = written[q] /\ stream'[q] = stream[q]
      /\ full'[q] = full[q] /\ child'[q] = child[q] /\ faults' = faults /\ run' = run
      /\ cur[q] \in Nat
  BY SMTT(30), <1>t, SizesAssumption DEF SendRecord, Ask, childVars, parentVars, TypeOK
<1>u. IF q = run THEN up'[q] = [kind |-> "data", rec |-> new] ELSE up'[q] = up[q]
  BY <1>t DEF SendRecord, Ask, TypeOK
<1>o. Over(q) <=> Over(q)'
  BY <1>s DEF Over, SendRecord, Ask
<1>c. cur[q] <= Len(records) /\ (cur[q] # 0 => cur[q] \in 1..Len(records))
  BY <1>t, <1>a, <1>s DEF Parts, Working
<1>d. msg[q] = "data" => cur[q] # 0
  BY <1>t DEF Parts, Working
<1>1. Requested(q)'
  <2>n. Nothing.kind = "none" /\ Nothing.rec = 0
    BY DEF Nothing
  <2>o. Requested(q)
    BY <1>t DEF Parts
  <2>1. CASE q = run
    <3>1. up'[q].kind = "data" /\ up'[q].rec = new /\ ~down'[q] /\ ~(q > run')
      BY <1>r, <1>s, <1>u, <2>1
    <3>2. new \in (cur'[q] + 1)..Len(records') /\ records'[new].run = q
      BY <1>a, <1>c, <1>s, <2>1
    <3>3. \A m \in 1..Len(records') : records'[m].run = q => m <= cur'[q] \/ m = new
      <4>1. \A m \in 1..Len(records) : records[m].run = q => m <= cur[q]
        BY <1>r, <2>n, <2>o, <2>1 DEF Requested
      <4>2. \A m \in 1..Len(records') : m # new => m \in 1..Len(records)
        BY <1>a
      <4> QED
        BY <1>a, <1>s, <4>1, <4>2
    <3>4. parent'[q] \in {"none", "fork"} => stream'[q] = <<>> /\ cur'[q] = 0 /\ msg'[q] = "none"
      BY <1>s, <2>o DEF Requested
    <3> QED
      BY <3>1, <3>2, <3>3, <3>4 DEF Requested
  <2>2. CASE q # run
    <3>0. up'[q] = up[q]
      BY <1>u, <2>2
    <3>1. up'[q].kind = "data" => /\ up'[q].rec \in (cur'[q] + 1)..Len(records')
                                  /\ records'[up'[q].rec].run = q
      <4>1. up[q].kind = "data" => /\ up[q].rec \in (cur[q] + 1)..Len(records)
                                   /\ records[up[q].rec].run = q
        BY <2>o DEF Requested
      <4> QED
        BY <1>a, <1>s, <3>0, <4>1
    <3>3. \A m \in 1..Len(records') : records'[m].run = q => m <= cur'[q] \/ m = up'[q].rec
      <4>1. \A m \in 1..Len(records) : records[m].run = q => m <= cur[q] \/ m = up[q].rec
        BY <2>o DEF Requested
      <4>2. \A m \in 1..Len(records') : m # new => m \in 1..Len(records)
        BY <1>a
      <4> QED
        BY <1>a, <1>s, <2>2, <3>0, <4>1, <4>2
    <3> QED
      BY <1>o, <1>s, <2>o, <3>0, <3>1, <3>3 DEF Requested
  <2> QED
    BY <2>1, <2>2
<1>2. Working(q)'
  <2>1. msg[q] = "cut" => up'[q] = Nothing
    BY <1>t, <1>r, <1>u DEF Parts, Working
  <2> QED
    BY <1>t, <1>s, <1>o, <1>a, <1>c, <1>d, <2>1 DEF Parts, Working, Dangling
<1>z. parent[q] = "body" => Sizes(q)' = Sizes(q) /\ Subject(q)' = Subject(q)
  BY <1>t, <1>s, <1>a, <1>c, <1>d DEF Parts, Working, Dangling, Sizes, Subject
<1>3. Streamed(q)'
  BY <1>t, <1>s, <1>z DEF Parts, Streamed
<1>4. Piped(q)'
  BY <1>t, <1>s DEF Parts, Piped
<1>5. Framed(q)'
  <2>1. \A i \in 1..Len(stream[q]) : stream[q][i].rec # 0 => stream[q][i].rec \in 1..Len(records)
    <3>1. stream[q] \in Seq(Units)
      BY <1>t DEF TypeOK
    <3>2. \A i \in 1..Len(stream[q]) : stream[q][i].rec \in 0..MaxRecords /\ stream[q][i].rec <= cur[q]
      <4>1. \A i \in 1..Len(stream[q]) : stream[q][i] \in Units
        BY <3>1
      <4> QED
        BY <1>t, <4>1 DEF Units, Parts, Streamed
    <3> QED
      BY <1>a, <1>c, <1>s, <3>2, SizesAssumption
  <2> QED
    BY <1>t, <1>s, <1>o, <1>a, <2>1 DEF Parts, Framed
<1>6. Kept(q)'
  <2>1. \A m \in 1..Len(records') : Done(q, m)' => m \in 1..Len(records) /\ Done(q, m)
    BY <1>s, <1>a, <1>c DEF Done
  <2> QED
    BY <1>t, <1>s, <1>a, <2>1 DEF Parts, Kept
<1> QED
  BY <1>1, <1>2, <1>3, <1>4, <1>5, <1>6 DEF Parts

LEMMA OtherStep ==
  ASSUME FeedInv, SendOther \/ Answered \/ Stop
  PROVE  \A q \in Runs : Parts(q)'
<1>t. TypeOK /\ RequestInv /\ \A q \in Runs : Parts(q)
  BY DEF FeedInv, RequestInv, Parts
<1>r. run \in Runs /\ run \in Nat
  BY <1>t DEF SendOther, Ask, Answered, Stop, RequestInv
<1>n. Nothing.kind = "none" /\ Nothing.rec = 0
  BY DEF Nothing
<1> SUFFICES ASSUME NEW q \in Runs PROVE Parts(q)'
  OBVIOUS
<1>s. /\ msg'[q] = msg[q] /\ cur'[q] = cur[q] /\ parent'[q] = parent[q]
      /\ outpipe'[q] = outpipe[q] /\ written'[q] = written[q] /\ stream'[q] = stream[q]
      /\ full'[q] = full[q] /\ child'[q] = child[q] /\ faults' = faults /\ run' = run
      /\ records' = records
  BY DEF SendOther, Ask, Answered, Stop, childVars, parentVars
<1>d. (down'[q] = down[q] \/ ~down'[q]) /\ (q > run => down'[q] = down[q])
  <2>1. down' = down \/ down' = [down EXCEPT ![run] = FALSE]
    BY DEF SendOther, Ask, Answered, Stop
  <2>2. q > run => q # run
    BY <1>r
  <2> QED
    BY ZenonT(30), <2>1, <2>2, <1>t DEF TypeOK
<1>u. \/ up'[q] = up[q]
      \/ /\ q = run /\ prog = "idle" /\ up[q] = Nothing /\ ~down[q]
         /\ \/ up'[q] = [kind |-> "other", rec |-> 0]
            \/ up'[q] = [kind |-> "cut", rec |-> 0] /\ prog' = "down"
  <2>1. CASE SendOther
    BY <2>1, <1>t DEF SendOther, Ask, RequestInv, TypeOK
  <2>2. CASE Answered
    BY <2>2 DEF Answered
  <2>3. CASE Stop
    BY <2>3, <1>t DEF Stop, RequestInv, TypeOK
  <2> QED
    BY <2>1, <2>2, <2>3
<1>o. Over(q) => Over(q)'
  BY <1>s DEF Over, SendOther, Ask, Answered, Stop
<1>1. Requested(q)'
  <2>o. Requested(q)
    BY <1>t DEF Parts
  <2>1. CASE up'[q] = up[q]
    BY <2>1, <2>o, <1>s, <1>d, <1>o DEF Requested
  <2>2. CASE /\ q = run /\ up[q] = Nothing /\ ~down[q]
             /\ \/ up'[q] = [kind |-> "other", rec |-> 0]
                \/ up'[q] = [kind |-> "cut", rec |-> 0] /\ prog' = "down"
    <3>1. up'[q].rec = 0 /\ up'[q].kind # "data" /\ (up'[q].kind = "cut" => Over(q)')
      BY <2>2 DEF Over
    <3>2. ~(q > run) /\ ~down'[q]
      BY <2>2, <1>r, <1>d
    <3> QED
      BY <2>o, <2>2, <3>1, <3>2, <1>s, <1>n DEF Requested
  <2> QED
    BY <1>u, <2>1, <2>2
<1>2. Working(q)'
  <2>1. msg[q] = "cut" => up'[q] = Nothing
    <3>1. msg[q] = "cut" => Over(q) /\ up[q] = Nothing
      BY <1>t DEF Parts, Working
    <3>2. q = run /\ prog = "idle" => ~Over(q)
      BY <1>r DEF Over
    <3> QED
      BY <1>u, <3>1, <3>2
  <2> QED
    BY <1>t, <1>s, <1>o, <2>1 DEF Parts, Working, Dangling
<1>3. Streamed(q)'
  BY <1>t, <1>s DEF Parts, Streamed, Sizes, Subject
<1>4. Piped(q)'
  BY <1>t, <1>s DEF Parts, Piped
<1>5. Framed(q)'
  BY <1>t, <1>s, <1>o DEF Parts, Framed
<1>6. Kept(q)'
  BY <1>t, <1>s DEF Parts, Kept, Done
<1> QED
  BY <1>1, <1>2, <1>3, <1>4, <1>5, <1>6 DEF Parts

-----------------------------------------------------------------------------
(***************************************************************************)
(* The steps of a parent, first those that write nothing into the pipe.    *)
(***************************************************************************)
LEMMA ReceiveStep ==
  ASSUME FeedInv, NEW r \in Runs, Receive(r)
  PROVE  Parts(r)'
<1>t. TypeOK /\ Parts(r) /\ Len(records) \in Nat
  <2>1. TypeOK /\ Parts(r)
    BY DEF FeedInv, RequestInv, Parts
  <2> QED
    BY <2>1 DEF TypeOK
<1>n. Nothing.kind = "none" /\ Nothing.rec = 0
  BY DEF Nothing
<1>u. up[r] # Nothing /\ up[r] \in Requests /\ up'[r] = Nothing
  BY <1>t DEF Receive, TypeOK
<1>s. /\ outpipe'[r] = outpipe[r] /\ written'[r] = written[r] /\ stream'[r] = stream[r]
      /\ full'[r] = full[r] /\ child'[r] = child[r] /\ faults' = faults
      /\ run' = run /\ records' = records /\ prog' = prog
      /\ parent[r] = "recv" /\ cur[r] \in Nat
  BY <1>t, SizesAssumption DEF Receive, childVars, program, TypeOK
<1>c. /\ msg'[r] = IF up[r].kind = "other" THEN msg[r] ELSE up[r].kind
      /\ parent'[r] = IF up[r].kind = "other" THEN "recv" ELSE "look"
      /\ cur'[r] = IF up[r].kind = "data" THEN up[r].rec ELSE cur[r]
  BY <1>t DEF Receive, TypeOK
<1>q. Requested(r)
  BY <1>t DEF Parts
<1>k. up[r].kind \in {"other", "data", "cut"}
  <2>1. up[r].kind = "none" => up[r] = Nothing
    BY <1>u, <1>q DEF Requested, Requests, Nothing
  <2> QED
    BY <1>u, <2>1 DEF Requests
<1>b. ~(r > run) /\ msg[r] # "cut"
  BY <1>t, <1>u DEF Parts, Requested, Working
<1>o. Over(r)' = Over(r)
  BY <1>s DEF Over
<1>d. up[r].kind = "data" => /\ cur'[r] \in (cur[r] + 1)..Len(records)
                             /\ records[cur'[r]].run = r
  BY <1>q, <1>c DEF Requested
<1>1. Requested(r)'
  <2>1. \A m \in 1..Len(records) : records[m].run = r => m <= cur'[r]
    <3>1. \A m \in 1..Len(records) : records[m].run = r => m <= cur[r] \/ m = up[r].rec
      BY <1>q DEF Requested
    <3>2. up[r].kind # "data" => up[r].rec = 0
      BY <1>q, <1>k DEF Requested
    <3> QED
      BY <1>c, <1>d, <1>s, <1>t, <3>1, <3>2
  <2> QED
    BY <2>1, <1>n, <1>u, <1>b, <1>c, <1>s DEF Requested
<1>2. Working(r)'
  <2>1. cur'[r] <= Len(records) /\ (cur'[r] # 0 => records[cur'[r]].run = r)
    BY <1>t, <1>c, <1>d, <1>s DEF Parts, Working
  <2>2. msg'[r] = "data" => cur'[r] # 0
    BY <1>c, <1>d, <1>s, <1>t DEF Parts, Working
  <2>3. msg'[r] = "cut" => Over(r)'
    BY <1>b, <1>c, <1>q, <1>o DEF Requested
  <2>4. written[r] = 0
    BY <1>t, <1>s DEF Parts, Working
  <2> QED
    BY <2>1, <2>2, <2>3, <2>4, <1>c, <1>k, <1>s, <1>u DEF Working
<1>3. Streamed(r)'
  <2>1. \A i \in 1..Len(stream[r]) : stream[r][i].rec <= cur[r] /\ stream[r][i].rec # 0
                                  /\ stream[r][i].rec \in Nat
    <3>1. \A i \in 1..Len(stream[r]) : stream[r][i] \in Units
      BY SMTT(30), <1>t DEF TypeOK
    <3> QED
      BY <1>t, <1>b, <3>1, SizesAssumption DEF Parts, Streamed, Units
  <2> QED
    BY <2>1, <1>c, <1>d, <1>s, <1>t DEF Streamed
<1>4. Piped(r)'
  BY <1>t, <1>s, <1>c DEF Parts, Piped
<1>5. Framed(r)'
  BY <1>t, <1>s, <1>o DEF Parts, Framed
<1>6. Kept(r)'
  <2>1. \A m \in 1..Len(records) : records[m].run = r /\ Done(r, m)' => Done(r, m)
    <3> SUFFICES ASSUME NEW m \in 1..Len(records), records[m].run = r, Done(r, m)'
                 PROVE  Done(r, m)
      OBVIOUS
    <3>1. m <= cur'[r] /\ (m = cur'[r] => msg'[r] # "data" \/ parent'[r] \in {"recv", "gone"})
      BY DEF Done
    <3>2. m <= cur[r] \/ m = up[r].rec
      BY <1>q DEF Requested
    <3>3. m <= cur[r]
      BY <3>1, <3>2, <1>c
    <3> QED
      BY <3>3, <1>s DEF Done
  <2> QED
    BY SMTT(30), <2>1, <1>t, <1>s DEF Parts, Kept
<1> QED
  BY <1>1, <1>2, <1>3, <1>4, <1>5, <1>6 DEF Parts

(* The requests are left alone, and so is the work at hand. *)
Continues(r) ==
  /\ up'[r] = up[r] /\ down'[r] = down[r] /\ msg'[r] = msg[r] /\ cur'[r] = cur[r]
  /\ program' = program
  /\ parent[r] # "none" /\ parent'[r] \notin {"none", "fork"}

LEMMA RequestedContinues ==
  ASSUME NEW r \in Runs, Requested(r), Continues(r)
  PROVE  Requested(r)'
BY DEF Continues, Requested, Over, program

LEMMA QuietStep ==
  ASSUME FeedInv, NEW r \in Runs,
         Fork(r) \/ PassOver(r) \/ Crash(r) \/ Look(r) \/ NoPipe(r) \/ Unread(r) \/ Finish(r)
  PROVE  Parts(r)'
<1>t. TypeOK /\ Parts(r)
  BY DEF FeedInv, RequestInv, Parts
<1>f. faults \in Nat
  BY <1>t, SizesAssumption DEF TypeOK
<1> DEFINE Forks(place) ==
             /\ parent'[r] = place
             /\ \/ faults' = faults + 1
                \/ faults' = faults /\ outpipe'[r] /\ child'[r] = "bind"
<1>g. \A place \in {"recv", "header"} :
        ForkInet(r, place) => /\ Forks(place) /\ program' = program
                              /\ UNCHANGED <<up, down, msg, cur, written, stream, full>>
  <2> SUFFICES ASSUME NEW place \in {"recv", "header"}, ForkInet(r, place)
               PROVE  Forks(place) /\ program' = program
                      /\ UNCHANGED <<up, down, msg, cur, written, stream, full>>
    OBVIOUS
  <2>1. parent'[r] = place
    BY <1>t DEF ForkInet, TypeOK
  <2>2. \/ faults' = faults + 1
        \/ faults' = faults /\ outpipe'[r] /\ child'[r] = "bind"
    BY <1>t DEF ForkInet, Fails, TypeOK
  <2> QED
    BY <2>1, <2>2 DEF ForkInet
<1>h. \A place \in Places :
        Goto(r, place) => /\ parent'[r] = place /\ outpipe'[r] = outpipe[r]
                          /\ child'[r] = child[r] /\ faults' = faults
                          /\ program' = program /\ UNCHANGED <<up, down, msg, cur>>
  BY <1>t DEF Goto, TypeOK, childVars
<1> HIDE DEF Forks
<1>j. /\ UNCHANGED <<up, down, msg, cur>>
      /\ program' = program /\ stream'[r] = stream[r] /\ full'[r] = full[r]
  BY <1>g, <1>h DEF Fork, PassOver, Crash, Look, NoPipe, Unread, Finish
<1>s. Continues(r) /\ run' = run /\ records' = records /\ prog' = prog
  <2>1. parent[r] # "none" /\ parent'[r] \notin {"none", "fork"}
    BY <1>g, <1>h DEF Fork, PassOver, Crash, Look, NoPipe, Unread, Finish, Forks
  <2> QED
    BY <1>j, <2>1 DEF Continues, program
<1>w. written'[r] = 0 /\ parent'[r] \in {"recv", "gone", "header"} /\ Working(r)
  <2>1. Working(r)
    BY <1>t DEF Parts
  <2>2. CASE Unread(r)
    BY <2>1, <2>2, <1>h, <1>t DEF Unread, TypeOK
  <2>3. CASE ~Unread(r)
    <3>1. parent[r] # "body" /\ written'[r] = written[r]
      BY <2>3, <1>g DEF Fork, PassOver, Crash, Look, NoPipe, Finish
    <3>2. parent'[r] \in {"recv", "gone", "header"}
      BY <2>3, <1>g, <1>h DEF Fork, PassOver, Crash, Look, NoPipe, Finish, Forks
    <3> QED
      BY <2>1, <3>1, <3>2 DEF Working
  <2> QED
    BY <2>2, <2>3
<1>l. parent'[r] = "header" => parent[r] = "look" /\ (Dangling(r) \/ (msg[r] = "data" /\ records[cur[r]].wanted))
  <2>1. CASE Look(r)
    BY <2>1 DEF Look
  <2>2. CASE ~Look(r)
    BY <2>2, <1>g, <1>h DEF Fork, PassOver, Crash, NoPipe, Unread, Finish, Forks
  <2> QED
    BY <2>1, <2>2
<1>1. Requested(r)'
  BY <1>t, <1>s, RequestedContinues DEF Parts
<1>2. Working(r)'
  BY <1>s, <1>j, <1>w, <1>l DEF Working, Over, Dangling
<1>3. Streamed(r)'
  BY <1>t, <1>j, <1>w, <1>l, <1>s DEF Parts, Streamed
<1>4. Piped(r)'
  <2>1. CASE Fork(r) \/ (Look(r) /\ ~outpipe[r])
    BY <2>1, <1>g, <1>f DEF Fork, Look, Forks, Piped
  <2>2. CASE ~(Fork(r) \/ (Look(r) /\ ~outpipe[r]))
    <3>1. outpipe'[r] = outpipe[r] /\ faults' = faults /\ parent[r] \notin {"none", "fork"}
      BY <2>2, <1>h DEF PassOver, Crash, Look, NoPipe, Unread, Finish
    <3> QED
      BY <3>1, <1>t DEF Parts, Piped
  <2> QED
    BY <2>1, <2>2
<1>5. Framed(r)'
  BY <1>t, <1>s, <1>j DEF Parts, Framed, Over
<1>6. Kept(r)'
  <2>k. Kept(r) /\ Piped(r)
    BY <1>t DEF Parts
  <2>1. CASE Fork(r)
    <3>1. cur[r] = 0
      BY <2>1, <1>t DEF Fork, Parts, Requested
    <3> QED
      BY <3>1, <1>j, <1>s DEF Kept, Done
  <2>2. CASE PassOver(r)
    <3>1. /\ msg[r] = "data" => ~records[cur[r]].wanted
          /\ child'[r] = child[r] /\ faults' = faults
      BY <2>2, <1>h DEF PassOver
    <3>2. \A m \in 1..Len(records) : records[m].wanted /\ Done(r, m)' => Done(r, m)
      BY <3>1, <1>j DEF Done
    <3> QED
      BY <3>1, <3>2, <2>k, <1>j, <1>s DEF Kept
  <2>3. CASE Crash(r)
    <3>1. msg[r] = "cut" /\ child'[r] = child[r] /\ faults' = faults
      BY <2>3, <1>h DEF Crash, Dangling
    <3> QED
      BY <3>1, <2>k, <1>j, <1>s DEF Kept, Done
  <2>4. CASE Look(r)
    <3>1. ~outpipe[r] => faults' # 0
      BY <2>4, <2>k, <1>g, <1>f DEF Look, Piped, Forks
    <3>2. outpipe[r] => child'[r] = child[r] /\ faults' = faults
      BY <2>4, <1>h DEF Look
    <3>3. parent'[r] = "header"
      BY <2>4, <1>h, <1>g DEF Look, Forks
    <3> QED
      BY <3>1, <3>2, <3>3, <2>k, <1>j, <1>s DEF Kept, Done
  <2>5. CASE NoPipe(r)
    BY <2>5, <2>k, <1>h DEF NoPipe, Piped, Kept
  <2>6. CASE Unread(r)
    BY <2>6, <1>h DEF Unread, Kept
  <2>7. CASE Finish(r)
    <3>1. parent[r] = "recv" /\ child'[r] = child[r] /\ faults' = faults
      BY <2>7, <1>h DEF Finish
    <3> QED
      BY <3>1, <2>k, <1>j, <1>s DEF Kept, Done
  <2> QED
    BY <2>1, <2>2, <2>3, <2>4, <2>5, <2>6, <2>7
<1> QED
  BY <1>1, <1>2, <1>3, <1>4, <1>5, <1>6 DEF Parts

(***************************************************************************)
(* Those that write.                                                       *)
(***************************************************************************)
LEMMA HeaderStep ==
  ASSUME FeedInv, NEW r \in Runs, Header(r)
  PROVE  Parts(r)'
<1>t. TypeOK /\ Parts(r) /\ Working(r) /\ Requested(r) /\ Streamed(r) /\ Framed(r) /\ Kept(r)
  BY DEF FeedInv, RequestInv, Parts
<1>g. /\ parent[r] = "header" /\ parent'[r] \in {"recv", "body"}
      /\ outpipe'[r] = outpipe[r] /\ child'[r] = child[r] /\ faults' = faults
      /\ program' = program /\ UNCHANGED <<up, down, msg, cur, written>>
  BY <1>t DEF Header, Goto, TypeOK, childVars
<1>s. Continues(r) /\ run' = run /\ records' = records /\ prog' = prog
  BY <1>g DEF Continues, program
<1>w. written'[r] = 0 /\ written[r] = 0
  BY <1>t, <1>g DEF Working
<1>1. Requested(r)'
  BY <1>t, <1>s, RequestedContinues
<1>2. Working(r)'
  BY <1>t, <1>g, <1>s, <1>w DEF Working, Over, Dangling
<1>4. Piped(r)'
  BY <1>t, <1>g DEF Parts, Piped
<1>5. CASE Room(r) = 0
  <2>1. parent'[r] = "recv" /\ stream'[r] = stream[r] /\ full'[r]
    BY <1>5, <1>t DEF Header, Goto, TypeOK
  <2>2. Streamed(r)'
    BY <1>t, <1>g, <2>1 DEF Streamed
  <2>3. Framed(r)'
    BY <1>t, <1>s, <2>1 DEF Framed, Over
  <2>4. Kept(r)'
    BY <2>1 DEF Kept
  <2> QED
    BY <1>1, <1>2, <1>4, <2>2, <2>3, <2>4 DEF Parts
<1>6. CASE Room(r) # 0
  <2>0. parent'[r] = "body" /\ full'[r] = full[r]
    BY <1>6, <1>t DEF Header, Goto, TypeOK
  <2>1. PICK len \in Sizes(r) :
          /\ Len(stream'[r]) = Len(stream[r]) + 1
          /\ \A i \in 1..Len(stream[r]) : stream'[r][i] = stream[r][i]
          /\ stream'[r][Len(stream[r]) + 1] = Unit(Subject(r), 0, len)
    BY <1>6, <1>t, HeaderAppends
  <2> DEFINE last == Len(stream[r])
             unit == Unit(Subject(r), 0, len)
  <2>2. last \in Nat /\ len \in Nat /\ len > 0
        /\ Subject(r) <= cur[r] /\ (Subject(r) = 0 => msg[r] = "cut") /\ msg[r] \in {"data", "cut"}
        /\ (msg[r] = "data" => /\ cur[r] \in 1..Len(records)
                               /\ Subject(r) = cur[r] /\ len = records[cur[r]].len)
    <3>1. len \in Nat /\ len > 0
      BY <1>t, <1>g, <2>1, SizesType
    <3>2. last \in Nat
      BY <1>t DEF TypeOK
    <3> QED
      BY <1>t, <1>g, <2>1, <3>1, <3>2, SizesType
  <2>3. unit.rec = Subject(r) /\ unit.at = 0 /\ unit.len = len
    BY DEF Unit
  <2>4. \A i \in 1..Len(stream'[r]) : i \in 1..last \/ i = last + 1
    BY <2>1, <2>2
  <2>5. Streamed(r)'
    <3>1. \A i \in 1..Len(stream'[r]) :
            stream'[r][i].rec <= cur[r] /\ (stream'[r][i].rec = 0 => msg[r] = "cut")
      BY <1>t, <2>1, <2>2, <2>3, <2>4 DEF Streamed
    <3>2. stream'[r] # <<>>
      BY <2>1, <2>2
    <3>3. Sizes(r)' = Sizes(r) /\ Subject(r)' = Subject(r)
      BY <1>g, <1>s DEF Sizes, Subject
    <3>4. stream'[r][Len(stream'[r])] = Unit(Subject(r)', written'[r], len) /\ written'[r] < len
      BY <2>1, <2>2, <3>3, <1>w
    <3> QED
      BY <3>1, <3>2, <3>3, <3>4, <2>0, <1>g DEF Streamed
  <2>6. Framed(r)'
    <3> SUFFICES ASSUME NEW i \in 1..Len(stream'[r])
                 PROVE  /\ IF i = 1 THEN stream'[r][i].at = 0
                                    ELSE Follows(stream'[r][i - 1], stream'[r][i])
                        /\ stream'[r][i].at <= stream'[r][i].len
                        /\ IF stream'[r][i].rec = 0 THEN Over(r)'
                           ELSE /\ stream'[r][i].len = records'[stream'[r][i].rec].len
                                /\ records'[stream'[r][i].rec].run = r
      BY DEF Framed
    <3>o. Over(r)' = Over(r)
      BY <1>s DEF Over
    <3>1. CASE i \in 1..last
      <4>1. i # 1 => i - 1 \in 1..last
        BY <2>2, <3>1
      <4> QED
        BY <1>t, <1>s, <2>1, <3>o, <3>1, <4>1 DEF Framed
    <3>2. CASE i = last + 1
      <4>1. i # 1 => last \in 1..last /\ i - 1 = last
        BY <2>2, <3>2
      <4>2. i # 1 => Follows(stream[r][last], unit)
        BY <1>t, <1>g, <2>2, <2>3, <4>1 DEF Follows, Streamed, Subject
      <4>3. IF Subject(r) = 0 THEN Over(r)
            ELSE len = records[Subject(r)].len /\ records[Subject(r)].run = r
        BY <1>t, <2>2 DEF Working, Subject
      <4>4. stream'[r][i] = unit /\ (i # 1 => stream'[r][i - 1] = stream[r][last])
        BY <2>1, <2>2, <3>2, <4>1
      <4>5. /\ unit.at = 0 /\ unit.at <= unit.len
            /\ unit.rec = Subject(r) /\ unit.len = len
        BY <2>2, <2>3
      <4>6. IF i = 1 THEN stream'[r][i].at = 0 ELSE Follows(stream'[r][i - 1], stream'[r][i])
        BY <4>2, <4>4, <4>5
      <4>7. records' = records
        BY <1>s
      <4> QED
        BY <3>o, <4>3, <4>4, <4>5, <4>6, <4>7
    <3> QED
      BY <2>4, <3>1, <3>2
  <2>7. Kept(r)'
    <3>1. \A m \in 1..Len(records) : Done(r, m)' => Done(r, m)
      BY <1>g, <2>0 DEF Done
    <3>2. \A i \in 1..last : i \in 1..Len(stream'[r])
      BY <2>1, <2>2
    <3> QED
      BY <1>t, <1>g, <1>s, <2>0, <2>1, <3>1, <3>2 DEF Kept
  <2> QED
    BY <1>1, <1>2, <1>4, <2>5, <2>6, <2>7 DEF Parts
<1> QED
  BY <1>5, <1>6

LEMMA BodyStep ==
  ASSUME FeedInv, NEW r \in Runs, Body(r)
  PROVE  Parts(r)'
<1>t. TypeOK /\ Parts(r) /\ Working(r) /\ Requested(r) /\ Streamed(r) /\ Framed(r) /\ Kept(r)
  BY DEF FeedInv, RequestInv, Parts
<1>1. PICK n \in Nat, len \in Sizes(r) :
        /\ len \in Nat /\ written[r] + n <= len /\ written[r] < len
        /\ Len(stream'[r]) = Len(stream[r]) + n
        /\ \A i \in 1..Len(stream[r]) : stream'[r][i] = stream[r][i]
        /\ \A k \in 1..n :
             stream'[r][Len(stream[r]) + k] = Unit(Subject(r), written[r] + k, len)
        /\ stream[r] # <<>>
        /\ stream[r][Len(stream[r])] = Unit(Subject(r), written[r], len)
        /\ written' = [written EXCEPT ![r] = IF n = 0 \/ written[r] + n = len THEN 0 ELSE @ + n]
        /\ full' = [full EXCEPT ![r] = @ \/ written[r] + n < len]
        /\ Goto(r, IF written[r] + n = len \/ n = 0 THEN "recv" ELSE "body")
  BY <1>t, BodyAppends
<1> DEFINE last == Len(stream[r])
<1>g. /\ parent[r] = "body"
      /\ parent'[r] = IF written[r] + n = len \/ n = 0 THEN "recv" ELSE "body"
      /\ written'[r] = IF n = 0 \/ written[r] + n = len THEN 0 ELSE written[r] + n
      /\ full'[r] = (full[r] \/ written[r] + n < len)
      /\ outpipe'[r] = outpipe[r] /\ child'[r] = child[r] /\ faults' = faults
      /\ program' = program /\ UNCHANGED <<up, down, msg, cur>>
  BY <1>t, <1>1 DEF Body, Goto, TypeOK, childVars
<1>s. Continues(r) /\ run' = run /\ records' = records /\ prog' = prog
  BY <1>g DEF Continues, program
<1>2. /\ last \in Nat /\ last >= 1 /\ written[r] \in Nat /\ Subject(r) \in Nat
      /\ Subject(r) <= cur[r] /\ (Subject(r) = 0 => msg[r] = "cut") /\ msg[r] \in {"data", "cut"}
      /\ (msg[r] = "data" => /\ cur[r] \in 1..Len(records)
                             /\ Subject(r) = cur[r] /\ len = records[cur[r]].len)
  <2>1. last \in Nat /\ written[r] \in Nat /\ stream[r] \in Seq(Units)
    BY SMTT(30), <1>t DEF TypeOK
  <2>2. last >= 1
    BY <1>1, <2>1
  <2>3. Subject(r) \in 0..MaxRecords /\ MaxRecords \in Nat
    BY <1>t, <1>g, SizesType, SizesAssumption
  <2> QED
    BY <1>t, <1>1, <1>g, <2>1, <2>2, <2>3, SizesType
<1>e. len \in Nat /\ n \in Nat /\ written[r] \in Nat /\ written[r] + n <= len /\ written[r] < len
  BY <1>1, <1>2
<1>3. \A i \in 1..Len(stream'[r]) : i \in 1..last \/ \E k \in 1..n : i = last + k
  <2> SUFFICES ASSUME NEW i \in 1..Len(stream'[r]), i \notin 1..last
               PROVE  \E k \in 1..n : i = last + k
    OBVIOUS
  <2>1. i - last \in 1..n /\ i = last + (i - last)
    BY <1>1, <1>2
  <2> QED
    BY <2>1
<1>u. \A k \in 0..n : /\ stream'[r][last + k] = Unit(Subject(r), written[r] + k, len)
                       /\ last + k \in 1..Len(stream'[r])
  <2>1. \A k \in 0..n : k = 0 \/ k \in 1..n
    OBVIOUS
  <2>2. last \in 1..last /\ last + 0 = last /\ written[r] + 0 = written[r]
    BY <1>2
  <2>3. stream'[r][last + 0] = Unit(Subject(r), written[r] + 0, len)
    BY <1>1, <2>2
  <2>4. \A k \in 0..n : last + k \in 1..Len(stream'[r])
    BY <1>1, <1>2
  <2> QED
    BY <1>1, <2>1, <2>3, <2>4
<1>v. \A k \in Int : LET unit == Unit(Subject(r), written[r] + k, len)
                     IN  unit.rec = Subject(r) /\ unit.at = written[r] + k /\ unit.len = len
  BY DEF Unit
<1>4. Requested(r)'
  BY <1>t, <1>s, RequestedContinues
<1>5. Working(r)'
  BY <1>t, <1>g, <1>s DEF Working, Over, Dangling
<1>6. Piped(r)'
  BY <1>t, <1>g DEF Parts, Piped
<1>7. Streamed(r)'
  <2>1. \A i \in 1..Len(stream'[r]) :
          stream'[r][i].rec <= cur[r] /\ (stream'[r][i].rec = 0 => msg[r] = "cut")
    <3>1. \A i \in 1..last :
            stream'[r][i].rec <= cur[r] /\ (stream'[r][i].rec = 0 => msg[r] = "cut")
      BY <1>t, <1>1 DEF Streamed
    <3>2. \A k \in 1..n : stream'[r][last + k].rec = Subject(r)
      BY <1>1, <1>v
    <3> QED
      BY <1>2, <1>3, <3>1, <3>2
  <2>2. Sizes(r)' = Sizes(r) /\ Subject(r)' = Subject(r)
    BY <1>g, <1>s DEF Sizes, Subject
  <2>3. stream'[r] # <<>>
    BY <1>1, <1>2
  <2>4. parent'[r] = "body" =>
          /\ stream'[r][Len(stream'[r])] = Unit(Subject(r), written'[r], len)
          /\ written'[r] < len
    <3> SUFFICES ASSUME parent'[r] = "body"
                 PROVE  /\ stream'[r][Len(stream'[r])] = Unit(Subject(r), written'[r], len)
                        /\ written'[r] < len
      OBVIOUS
    <3>1. n # 0 /\ written[r] + n # len
      BY <1>g
    <3>2. written'[r] = written[r] + n /\ written'[r] < len
      BY <1>e, <1>g, <3>1
    <3>3. n \in 0..n /\ Len(stream'[r]) = last + n
      BY <1>1
    <3> QED
      BY <1>u, <3>2, <3>3
  <2>5. ~(parent'[r] \in {"look", "header"})
    BY <1>g
  <2> QED
    BY <1>g, <2>1, <2>2, <2>3, <2>4, <2>5 DEF Streamed
<1>8. Framed(r)'
  <2> SUFFICES ASSUME NEW i \in 1..Len(stream'[r])
               PROVE  /\ IF i = 1 THEN stream'[r][i].at = 0
                                  ELSE Follows(stream'[r][i - 1], stream'[r][i])
                      /\ stream'[r][i].at <= stream'[r][i].len
                      /\ IF stream'[r][i].rec = 0 THEN Over(r)'
                         ELSE /\ stream'[r][i].len = records'[stream'[r][i].rec].len
                              /\ records'[stream'[r][i].rec].run = r
    BY DEF Framed
  <2>o. Over(r)' = Over(r)
    BY <1>s DEF Over
  <2>1. CASE i \in 1..last
    <3>1. i # 1 => i - 1 \in 1..last
      BY <1>2, <2>1
    <3> QED
      BY <1>t, <1>s, <1>1, <2>o, <2>1, <3>1 DEF Framed
  <2>2. ASSUME NEW k \in 1..n, i = last + k
        PROVE  /\ IF i = 1 THEN stream'[r][i].at = 0
                           ELSE Follows(stream'[r][i - 1], stream'[r][i])
               /\ stream'[r][i].at <= stream'[r][i].len
               /\ IF stream'[r][i].rec = 0 THEN Over(r)'
                  ELSE /\ stream'[r][i].len = records'[stream'[r][i].rec].len
                       /\ records'[stream'[r][i].rec].run = r
    <3>1. k - 1 \in 0..n /\ k \in 0..n /\ i - 1 = last + (k - 1) /\ i # 1
      BY <1>2, <2>2
    <3>2. /\ stream'[r][i - 1] = Unit(Subject(r), written[r] + (k - 1), len)
          /\ stream'[r][i] = Unit(Subject(r), written[r] + k, len)
      BY <1>u, <2>2, <3>1
    <3>3. Follows(stream'[r][i - 1], stream'[r][i])
      <4>1. written[r] + (k - 1) + 1 = written[r] + k
        BY <1>2
      <4> QED
        BY <3>2, <4>1 DEF Follows, Unit
    <3>4. IF Subject(r) = 0 THEN Over(r)
          ELSE len = records[Subject(r)].len /\ records[Subject(r)].run = r
      BY <1>t, <1>2 DEF Working, Subject
    <3>5. /\ stream'[r][i].rec = Subject(r) /\ stream'[r][i].at = written[r] + k
          /\ stream'[r][i].len = len
      BY <1>v, <3>2
    <3> QED
      BY <1>1, <1>2, <1>s, <2>o, <3>1, <3>3, <3>4, <3>5
  <2> QED
    BY <1>3, <2>1, <2>2
<1>9. Kept(r)'
  <2> SUFFICES ASSUME ~full'[r], faults' = 0, child'[r] # "gone",
                      NEW m \in 1..Len(records'),
                      records'[m].run = r, records'[m].wanted, Done(r, m)'
               PROVE  \E i \in 1..Len(stream'[r]) :
                        stream'[r][i] = Unit(m, records'[m].len, records'[m].len)
    BY DEF Kept
  <2>1. written[r] + n = len
    <3>1. ~(written[r] + n < len)
      BY <1>g
    <3> QED
      BY <1>e, <3>1
  <2>2. m \in 1..Len(records) /\ records[m].run = r /\ records[m].wanted
    BY <1>s
  <2>3. CASE m = cur[r] /\ msg[r] = "data"
    <3>1. n \in 0..n /\ stream'[r][last + n] = Unit(m, records[m].len, records[m].len)
      BY <1>u, <1>2, <2>1, <2>3
    <3> QED
      BY <1>u, <1>s, <3>1
  <2>4. CASE ~(m = cur[r] /\ msg[r] = "data")
    <3>1. Done(r, m)
      BY <1>g, <2>4 DEF Done
    <3>2. PICK i \in 1..last : stream[r][i] = Unit(m, records[m].len, records[m].len)
      BY <1>t, <1>g, <2>2, <3>1 DEF Kept
    <3>3. i \in 1..Len(stream'[r])
      BY <1>1, <1>2
    <3> QED
      BY <1>1, <1>s, <3>2, <3>3
  <2> QED
    BY <2>3, <2>4
<1> QED
  BY <1>4, <1>5, <1>6, <1>7, <1>8, <1>9 DEF Parts

-----------------------------------------------------------------------------
(***************************************************************************)
(* Together.                                                               *)
(***************************************************************************)
LEMMA FeedInit == Init => FeedInv
<1> SUFFICES ASSUME Init PROVE FeedInv
  OBVIOUS
<1> USE SizesAssumption
<1>1. TypeOK
  BY DEF Init, TypeOK, Requests, Nothing, Made
<1>2. RequestInv
  BY DEF Init, RequestInv, Requested, Nothing
<1>3. ASSUME NEW r \in Runs PROVE Working(r) /\ Streamed(r) /\ Piped(r) /\ Framed(r) /\ Kept(r)
  BY DEF Init, Working, Streamed, Piped, Framed, Kept, Done
<1> QED
  BY <1>1, <1>2, <1>3 DEF FeedInv

LEMMA FeedStep == FeedInv /\ [Next]_vars => FeedInv'
<1> SUFFICES ASSUME FeedInv, [Next]_vars PROVE FeedInv'
  OBVIOUS
<1>t. TypeOK /\ TypeOK' /\ RequestInv /\ \A q \in Runs : Parts(q)
  BY TypeStep DEF FeedInv, RequestInv, Parts
<1> DEFINE Records == /\ prog # "down" => run \in Runs
                      /\ prog = "idle" => up[run] = Nothing /\ ~down[run]
                      /\ \A m \in 1..Len(records) : records[m].run <= run
<1>f. Records
  BY <1>t DEF RequestInv
<1> SUFFICES Records' /\ \A q \in Runs : Parts(q)'
  BY <1>t DEF FeedInv, RequestInv, Parts
<1>1. CASE Program
  <2>1. \A q \in Runs : Parts(q)'
    BY <1>1, StartStep, SendRecordStep, OtherStep DEF Program
  <2>2. Records'
    <3>1. CASE Start
      <4>1. run' = run + 1 /\ run + 1 \in Runs /\ run + 1 > run /\ run \in Nat
        BY <3>1, <1>t, SizesAssumption DEF Start, TypeOK
      <4>2. \A m \in 1..Len(records) : records[m].run \in Nat
        <5>1. \A m \in 1..Len(records) : records[m] \in Made
          BY <1>t DEF TypeOK
        <5> QED
          BY <5>1 DEF Made
      <4>3. up[run + 1] = Nothing /\ ~down[run + 1]
        BY <1>t, <4>1 DEF Parts, Requested
      <4>4. records' = records /\ up' = up /\ down' = down
        BY <3>1 DEF Start
      <4>5. \A m \in 1..Len(records) : records[m].run <= run + 1
        BY <1>f, <4>1, <4>2
      <4> QED
        BY <4>1, <4>3, <4>4, <4>5
    <3>2. CASE SendRecord
      <4>1. prog' = "asked" /\ run' = run /\ run \in Runs
        BY <3>2, <1>f DEF SendRecord, Ask
      <4>2. \A m \in 1..Len(records') : records'[m].run <= run
        <5>1. PICK len \in Lengths, wanted \in BOOLEAN :
                records' = Append(records, [run |-> run, len |-> len, wanted |-> wanted])
          BY <3>2 DEF SendRecord
        <5>2. Len(records') = Len(records) + 1 /\ Len(records) \in Nat
              /\ (\A m \in 1..Len(records) : records'[m] = records[m])
              /\ records'[Len(records) + 1].run = run
          BY <5>1, <1>t DEF TypeOK
        <5> QED
          BY <5>2, <4>1, <1>f
      <4> QED
        BY <4>1, <4>2
    <3>3. CASE SendOther
      BY <3>3, <1>f DEF SendOther, Ask
    <3>4. CASE Answered
      <4>1. up[run] = Nothing /\ run \in Runs
        BY <3>4, <1>f, <1>t DEF Answered, Parts, Requested
      <4> QED
        BY <3>4, <4>1, <1>f, <1>t DEF Answered, TypeOK
    <3>5. CASE Stop
      BY <3>5, <1>f DEF Stop
    <3> QED
      BY <1>1, <3>1, <3>2, <3>3, <3>4, <3>5 DEF Program
  <2> QED
    BY <2>1, <2>2
<1>2. ASSUME NEW r \in Runs, Parent(r) PROVE Records' /\ \A q \in Runs : Parts(q)'
  <2>1. Parts(r)'
    BY <1>2, ReceiveStep, QuietStep, HeaderStep, BodyStep DEF Parent
  <2>2. /\ program' = program /\ (faults' = 0 => faults = 0)
        /\ \A q \in Runs : q # r => Same(q) /\ child'[q] = child[q]
    BY <1>2, <1>t, ParentFrame
  <2>3. \A q \in Runs : q # r => Parts(q)'
    BY <1>t, <2>2, Untouched
  <2>4. Records'
    <3>1. run' = run /\ prog' = prog /\ records' = records
      BY <2>2 DEF program
    <3>2. prog = "idle" => up'[run] = Nothing /\ ~down'[run]
      <4>1. CASE Receive(r) /\ prog = "idle"
        <5>1. run \in Runs /\ r # run
          BY <4>1, <1>f DEF Receive
        <5> QED
          BY <5>1, <2>2, <1>f DEF Same
      <4>2. CASE ~Receive(r)
        <5>1. up' = up /\ down' = down
          BY <4>2, <1>2 DEF Parent, Fork, ForkInet, PassOver, Crash, Look, NoPipe, Unread, Header,
                            Body, Finish, Goto
        <5> QED
          BY <5>1, <1>f
      <4> QED
        BY <4>1, <4>2
    <3> QED
      BY <3>1, <3>2, <1>f
  <2> QED
    BY <2>1, <2>3, <2>4
<1>3. ASSUME NEW r \in Runs, Child(r) \/ TrapReset(r) PROVE Records' /\ \A q \in Runs : Parts(q)'
  <2>1. /\ program' = program /\ faults' = faults /\ up' = up /\ down' = down
        /\ \A q \in Runs : Same(q) /\ (child'[q] # "gone" => child[q] # "gone")
    <3>1. PICK place \in ChildPlaces : ChildMoves(r, place) /\ (place = "gone" \/ child[r] # "gone")
      BY <1>3 DEF Child, Bind, Listen, Read, EndOfPipe, TrapReset, ChildEnds, InLoop
    <3> QED
      BY <3>1, <1>t DEF ChildMoves, parentVars, Same, TypeOK
  <2>2. \A q \in Runs : Parts(q)'
    BY <1>t, <2>1, Untouched
  <2> QED
    BY <1>f, <2>1, <2>2 DEF program
<1>4. CASE UNCHANGED vars
  <2>1. /\ program' = program /\ faults' = faults /\ up' = up /\ down' = down /\ child' = child
        /\ \A q \in Runs : Same(q)
    BY <1>4 DEF vars, parentVars, childVars, Same
  <2>2. \A q \in Runs : Parts(q)'
    BY <1>t, <2>1, Untouched
  <2> QED
    BY <1>f, <2>1, <2>2 DEF program
<1> QED
  BY <1>1, <1>2, <1>3, <1>4 DEF Next

(* The state the processes of rtserver and the pipes between them hold is  *)
(* of the kinds the code gives it; a pipe never holds more than it can.    *)
THEOREM TypeCorrect == Spec => []TypeOK
<1>1. FeedInv => TypeOK
  BY DEF FeedInv
<1> QED
  BY <1>1, FeedInit, FeedStep, PTL DEF Spec

(* ConnexWriteIP puts frames into the pipe in the order of the records,    *)
(* none twice, and each from its header on without a gap, whatever its     *)
(* writes come to, and whichever fail.                                     *)
THEOREM FramesInOrderCorrect == Spec => []FramesInOrder
<1>1. FeedInv => FramesInOrder
  BY DEF FeedInv, FramesInOrder
<1> QED
  BY <1>1, FeedInit, FeedStep, PTL DEF Spec

(* Until a call fails or the pipe fills, every record the parent has done  *)
(* with is whole in the pipe, while there is a child to read it.           *)
THEOREM NothingLostCorrect == Spec => []NothingLost
<1>1. FeedInv => NothingLost
  BY DEF FeedInv, NothingLost
<1> QED
  BY <1>1, FeedInit, FeedStep, PTL DEF Spec
===============================================================================
