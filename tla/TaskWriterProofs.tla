-------------------------- MODULE TaskWriterProofs ---------------------------
(***************************************************************************)
(* Proofs about TaskWriter: its types, and what is in the files, for every *)
(* number of runs, records, directories and failures.  The second part is  *)
(* about the periods of the files (FilePerPeriod).                         *)
(***************************************************************************)
EXTENDS TaskWriter, SequenceTheorems, FiniteSetTheorems,
        WellFoundedInduction, TLAPS

USE DEF Runs, Sending, Places, ChildPlaces, Replies

LEMMA TypeInit == Init => TypeOK
<1> SUFFICES ASSUME Init PROVE TypeOK
  OBVIOUS
<1>1. -1 \in -1..(Periods - 1) /\ 0 \in 0..(Beams - 1) /\ 0 \in Clock
  BY BoundsAssumption DEF Clock
<1>2. Len(records) = 0 /\ 0 <= MaxRecords /\ 0 \in 0..MaxRuns /\ 0 \in 0..MaxFaults
  BY BoundsAssumption DEF Init
<1>3. blk \in [Runs -> Blocks]
  BY BoundsAssumption DEF Init, Blocks
<1>4. records \in Seq(Made) /\ acked \subseteq 1..Len(records) /\ made \subseteq Names
  BY DEF Init
<1>5. up \in [Runs -> Seq(Requests)] /\ down \in [Runs -> Seq(Replies)]
  BY DEF Init
<1>6. files \in [Names -> Seq(Entries)]
  BY DEF Init
<1>7. /\ child \in [Runs -> ChildPlaces] /\ flg \in [Runs -> BOOLEAN]
      /\ filename \in [Runs -> Names \cup {NoName}] /\ rmsg \in [Runs -> Replies]
  BY DEF Init
<1> QED
  BY <1>1, <1>2, <1>3, <1>4, <1>5, <1>6, <1>7 DEF Init, TypeOK

(* The messages a program sends. *)
LEMMA RequestType ==
  ASSUME TypeOK, prog \in Sending, NEW k \in 1..Pieces(Kind(prog))
  PROVE  Request(k) \in Requests /\ Pieces(Kind(prog)) \in 1..5
<1>1. Pieces(Kind(prog)) \in 1..5 /\ Kind(prog) \in {"reset", "open", "close", "data"}
  BY DEF Pieces, Kind
<1>2. Len(records) \in 0..MaxRecords
  BY BoundsAssumption DEF TypeOK
<1>3. (IF prog = "data" THEN Len(records) ELSE 0) \in 0..MaxRecords
  BY <1>2, BoundsAssumption
<1> QED
  BY <1>1, <1>3 DEF Request, Requests

(* The program's next place. *)
LEMMA NextPlaceType == ASSUME prog \in Sending PROVE NextPlace \in Places \ {"down"}
  BY DEF NextPlace

LEMMA AppendedType ==
  ASSUME NEW S, NEW f \in [Runs -> Seq(S)], NEW c \in Runs, NEW x \in S
  PROVE  [f EXCEPT ![c] = Append(@, x)] \in [Runs -> Seq(S)]
<1>1. Append(f[c], x) \in Seq(S)
  BY AppendProperties
<1> QED
  BY <1>1

LEMMA TailType ==
  ASSUME NEW S, NEW f \in [Runs -> Seq(S)], NEW c \in Runs, f[c] # <<>>
  PROVE  [f EXCEPT ![c] = Tail(@)] \in [Runs -> Seq(S)] /\ Head(f[c]) \in S
<1>1. Tail(f[c]) \in Seq(S) /\ Head(f[c]) \in S
  BY HeadTailProperties
<1> QED
  BY <1>1

(* The period and the beam after an integration. *)
LEMMA IntegrateType == ASSUME TypeOK, ProgramInv, Integrate PROVE TypeOK'
<1>1. run \in Runs
  BY DEF Integrate, ProgramInv
<1>2. PICK t \in Clock :
        /\ clock' = t
        /\ records' = Append(records, [run |-> run, sec |-> t, first |-> beam = 0])
        /\ then' = IF beam = 0 THEN NowPeriod(t) ELSE then
        /\ prog' = IF beam = 0 /\ then \notin {-1, NowPeriod(t)} THEN "close" ELSE "data"
  BY DEF Integrate
<1>3. NowPeriod(t) \in -1..(Periods - 1)
  <2>1. t \div PeriodLen \in Int
    BY BoundsAssumption DEF Clock
  <2> DEFINE p == t \div PeriodLen
  <2> HIDE DEF p
  <2>2. p % Periods \in 0..(Periods - 1)
    BY <2>1, BoundsAssumption DEF p
  <2>3. NowPeriod(t) = p % Periods
    BY DEF NowPeriod, Period, p
  <2> QED
    BY <2>2, <2>3, BoundsAssumption
<1>4. NextBeam(beam) \in 0..(Beams - 1)
  BY BoundsAssumption DEF TypeOK, NextBeam
<1>5. [run |-> run, sec |-> t, first |-> beam = 0] \in Made
  BY <1>1, Zenon DEF Made
<1>6. records' \in Seq(Made) /\ Len(records') = Len(records) + 1
  BY <1>2, <1>5, AppendProperties DEF TypeOK
<1>7. acked \subseteq 1..Len(records') /\ Len(records') <= MaxRecords
  <2>1. Len(records) \in Nat /\ Len(records) < MaxRecords
    BY DEF TypeOK, Integrate
  <2> QED
    BY <1>6, <2>1, BoundsAssumption DEF TypeOK
<1>8. UNCHANGED <<run, asked, acked, up, down, child, locals, disk>> /\ beam' = NextBeam(beam)
  BY DEF Integrate
<1> QED
  BY <1>2, <1>3, <1>4, <1>6, <1>7, <1>8 DEF TypeOK, locals, disk

LEMMA ProgramTypes ==
  ASSUME TypeOK, ProgramInv, Start \/ Send \/ Answer \/ Unanswered \/ Broken \/ Stop
  PROVE  TypeOK'
<1> USE DEF locals, disk
<1>run. prog # "down" => run \in Runs
  BY DEF ProgramInv
<1>start. CASE Start
  <2>1. run' \in 0..MaxRuns /\ -1 \in -1..(Periods - 1) /\ 0 \in 0..(Beams - 1)
    BY <1>start, BoundsAssumption DEF Start, TypeOK
  <2>2. child' \in [Runs -> ChildPlaces]
    BY <1>start DEF Start, TypeOK
  <2> QED
    BY <1>start, <2>1, <2>2 DEF Start, TypeOK
<1>send. CASE Send
  <2>1. Request(Pieces(Kind(prog))) \in Requests
    <3>1. Pieces(Kind(prog)) \in 1..Pieces(Kind(prog))
      BY <1>send DEF Send, Pieces, Kind
    <3> QED
      BY <1>send, <3>1, RequestType DEF Send
  <2>2. up' \in [Runs -> Seq(Requests)]
    BY <1>send, <1>run, <2>1, AppendedType DEF Send, TypeOK
  <2> QED
    BY <1>send, <2>2 DEF Send, TypeOK
<1>answer. CASE Answer
  <2>1. prog \in Sending /\ run \in Runs
    BY <1>answer, <1>run DEF Answer, ProgramInv
  <2>2. down' \in [Runs -> Seq(Replies)]
    BY <1>answer, <2>1, TailType DEF Answer, TypeOK
  <2>3. acked' \subseteq 1..Len(records)
    <3>1. prog = "data" => Len(records) \in 1..Len(records)
      BY DEF ProgramInv, Pending, TypeOK
    <3> QED
      BY <1>answer, <3>1 DEF Answer, TypeOK
  <2> QED
    BY <1>answer, <2>1, <2>2, <2>3, NextPlaceType DEF Answer, TypeOK
<1>unanswered. CASE Unanswered
  <2>1. prog \in Sending
    BY <1>unanswered DEF Unanswered, ProgramInv
  <2> QED
    BY <1>unanswered, <2>1, NextPlaceType DEF Unanswered, TypeOK
<1>broken. CASE Broken
  BY <1>broken DEF Broken, End, TypeOK
<1>stop. CASE Stop
  <2>1. up' \in [Runs -> Seq(Requests)]
    <3>1. CASE UNCHANGED up
      BY <3>1 DEF TypeOK
    <3>2. CASE prog \in Sending /\ \E k \in 1..(Pieces(Kind(prog)) - 1) :
                 up' = [up EXCEPT ![run] = Append(@, Request(k))]
      <4>1. PICK k \in 1..(Pieces(Kind(prog)) - 1) :
              up' = [up EXCEPT ![run] = Append(@, Request(k))]
        BY <3>2
      <4>2. k \in 1..Pieces(Kind(prog))
        BY <3>2 DEF Pieces, Kind
      <4> QED
        BY <3>2, <1>run, <4>1, <4>2, RequestType, AppendedType DEF TypeOK
    <3> QED
      BY <1>stop, <3>1, <3>2 DEF Stop
  <2> QED
    BY <1>stop, <2>1 DEF Stop, End, TypeOK
<1> QED
  BY <1>start, <1>send, <1>answer, <1>unanswered, <1>broken, <1>stop
(* The smallest of a set of directories. *)
LEMMA FirstOf ==
  ASSUME NEW free \in SUBSET (1..Dirs), free # {}
  PROVE  (CHOOSE d \in free : \A e \in free : d <= e) \in free
<1>1. free \subseteq Nat
  BY BoundsAssumption
<1>2. PICK d \in free : \A e \in free : ~(<<e, d>> \in OpToRel(<, Nat))
  BY <1>1, WFMin, NatLessThanWellFounded
<1>3. \A e \in free : ~(e < d)
  BY <1>1, <1>2 DEF OpToRel
<1>4. \A e \in free : d <= e
  BY <1>1, <1>3
<1> QED
  BY <1>4, Zenon

(* FIOMakeFile makes a file that was not there, or none. *)
LEMMA MakeFileType ==
  ASSUME NEW sec \in Clock, NEW bad \in SUBSET (1..Dirs)
  PROVE  MakeFile(sec, bad) = NoName \/ MakeFile(sec, bad) \in Names \ made
<1> DEFINE free == { d \in (1..Dirs) \ bad : [dir |-> d, sec |-> sec] \notin made }
<1>1. CASE free = {}
  BY <1>1 DEF MakeFile
<1>2. CASE free # {}
  <2> DEFINE d == CHOOSE d \in free : \A e \in free : d <= e
  <2>1. d \in free
    BY <1>2, FirstOf
  <2>2. MakeFile(sec, bad) = [dir |-> d, sec |-> sec]
    BY <1>2 DEF MakeFile
  <2> QED
    BY <2>1, <2>2 DEF Names
<1> QED
  BY <1>1, <1>2

LEMMA NoNameIsNoFile == NoName \notin Names
  BY BoundsAssumption DEF NoName, Names

(* The file a record goes to is the child's own, or a new one. *)
LEMMA FileType ==
  ASSUME TypeOK, HeldInv, NEW c \in Runs, HasRecord(c), NEW bad \in SUBSET (1..Dirs)
  PROVE  /\ blk[c].rec \in 1..Len(records) /\ records[blk[c].rec] \in Made
         /\ FileDue(c) => File(c, bad) = NoName \/ File(c, bad) \in Names \ made
         /\ ~FileDue(c) => File(c, bad) = filename[c]
         /\ File(c, bad) \in Names \cup {NoName}
<1>1. blk[c].rec \in 1..Len(records)
  BY BoundsAssumption DEF TypeOK, HeldInv, Own, HasRecord, Blocks
<1>2. records[blk[c].rec] \in Made
  BY <1>1, ElementOfSeq DEF TypeOK
<1>3. records[blk[c].rec].sec \in Clock
  BY <1>2 DEF Made
<1> QED
  BY <1>1, <1>2, <1>3, MakeFileType DEF File, TypeOK

(* A record is freed and the child returns to its loop. *)
LEMMA DoneType ==
  ASSUME TypeOK, NEW c \in Runs, Done(c)
  PROVE  child' \in [Runs -> ChildPlaces] /\ blk' \in [Runs -> Blocks]
<1>1. [blk[c] EXCEPT !.live = FALSE] \in Blocks
  <2>1. blk[c] \in Blocks
    BY DEF TypeOK
  <2> HIDE DEF TypeOK
  <2> QED
    BY <2>1 DEF Blocks
<1>2. blk' = [blk EXCEPT ![c] = [blk[c] EXCEPT !.live = FALSE]]
  BY DEF Done
<1>3. blk \in [Runs -> Blocks] /\ child \in [Runs -> ChildPlaces]
  BY DEF TypeOK
<1>4. child' \in [Runs -> ChildPlaces]
  BY <1>3 DEF Done
<1> QED
  BY <1>1, <1>2, <1>3, <1>4

LEMMA BadType ==
  ASSUME NEW c \in Runs, NEW bad \in IF FileDue(c) THEN SUBSET (1..Dirs) ELSE {{}}
  PROVE  bad \in SUBSET (1..Dirs) /\ Cardinality(bad) \in Nat
<1>1. bad \in SUBSET (1..Dirs)
  OBVIOUS
<1>2. IsFiniteSet(1..Dirs)
  BY BoundsAssumption, FS_Interval
<1> QED
  BY <1>1, <1>2, FS_Subset, FS_CardinalityType

LEMMA ReceiveType == ASSUME TypeOK, NEW c \in Runs, Receive(c) PROVE TypeOK'
<1> USE DEF program, disk
<1> DEFINE m == Head(up[c])
<1>1. up' \in [Runs -> Seq(Requests)] /\ m \in Requests
  BY TailType DEF Receive, TypeOK
<1>2. Decoded(blk[c], m) \in Blocks
  <2>1. blk[c] \in Blocks
    BY DEF TypeOK
  <2> QED
    BY <1>1, <2>1 DEF Decoded, Blocks, Requests
<1> HIDE DEF m
<1>3. blk' = [blk EXCEPT ![c] = IF m.kind = "data" THEN Decoded(@, m) ELSE @]
  BY DEF Receive, m
<1>4. blk' \in [Runs -> Blocks]
  BY <1>2, <1>3 DEF TypeOK
<1>5. /\ flg' \in [Runs -> BOOLEAN] /\ filename' \in [Runs -> Names \cup {NoName}]
      /\ rmsg' \in [Runs -> Replies] /\ child' \in [Runs -> ChildPlaces]
  BY DEF Receive, TypeOK
<1>6. UNCHANGED <<program, down, disk>>
  BY DEF Receive
<1> QED
  BY <1>1, <1>4, <1>5, <1>6 DEF TypeOK

LEMMA StoreType == ASSUME TypeOK, HeldInv, NEW c \in Runs, Store(c) PROVE TypeOK'
<1> USE DEF program
<1>1. PICK bad \in IF FileDue(c) THEN SUBSET (1..Dirs) ELSE {{}},
           wrote \in {<<Entry(c)>>, <<[Entry(c) EXCEPT !.is = "short"]>>, <<>>} :
        /\ File(c, bad) # NoName
        /\ Faults(Cardinality(bad) + IF wrote = <<Entry(c)>> THEN 0 ELSE 1)
        /\ files' = [files EXCEPT ![File(c, bad)] = @ \o wrote]
        /\ made' = made \cup {File(c, bad)}
        /\ filename' = [filename EXCEPT ![c] = File(c, bad)]
  BY DEF Store
<1>2. HasRecord(c) /\ Done(c) /\ UNCHANGED <<program, up, down, rmsg>>
      /\ flg' = [flg EXCEPT ![c] = @ /\ ~FileDue(c)]
  BY DEF Store
<1>3. bad \in SUBSET (1..Dirs) /\ Cardinality(bad) \in Nat
  BY BadType
<1>4. File(c, bad) \in Names
  BY <1>1, <1>2, <1>3, FileType
<1>5. wrote \in Seq(Entries)
  <2>1. blk[c].rec \in RecordIds
    <3>1. blk[c].rec \in 1..Len(records)
      BY <1>2, <1>3, FileType
    <3>2. Len(records) \in Nat /\ Len(records) <= MaxRecords /\ MaxRecords \in Nat
      BY BoundsAssumption DEF TypeOK
    <3> HIDE DEF TypeOK
    <3> QED
      BY <3>1, <3>2 DEF RecordIds
  <2>2. Entry(c) \in Entries
    BY <2>1 DEF Entry, Entries
  <2>3. [Entry(c) EXCEPT !.is = "short"] \in Entries
    BY <2>2 DEF Entries
  <2>4. /\ <<Entry(c)>> \in Seq(Entries)
        /\ <<[Entry(c) EXCEPT !.is = "short"]>> \in Seq(Entries)
        /\ <<>> \in Seq(Entries)
    BY <2>2, <2>3
  <2> QED
    BY <2>4
<1>6. files' \in [Names -> Seq(Entries)]
  <2>1. files[File(c, bad)] \o wrote \in Seq(Entries)
    BY <1>4, <1>5, ConcatProperties DEF TypeOK
  <2> QED
    BY <1>1, <1>4, <2>1 DEF TypeOK
<1>7. faults' \in 0..MaxFaults
  <2>1. Cardinality(bad) + (IF wrote = <<Entry(c)>> THEN 0 ELSE 1) \in Nat
    BY <1>3
  <2> DEFINE n == Cardinality(bad) + IF wrote = <<Entry(c)>> THEN 0 ELSE 1
  <2>2. n \in Nat /\ faults' = faults + n /\ faults' <= MaxFaults
    BY <1>1, <2>1 DEF Faults
  <2> HIDE DEF n
  <2>3. faults \in Nat
    BY BoundsAssumption DEF TypeOK
  <2> QED
    BY <2>2, <2>3, BoundsAssumption
<1>8. made' \subseteq Names /\ filename' \in [Runs -> Names \cup {NoName}]
  BY <1>1, <1>4 DEF TypeOK
<1>9. child' \in [Runs -> ChildPlaces] /\ blk' \in [Runs -> Blocks]
  BY <1>2, DoneType
<1>10. flg' \in [Runs -> BOOLEAN]
  BY <1>2 DEF TypeOK
<1> QED
  BY <1>2, <1>6, <1>7, <1>8, <1>9, <1>10 DEF TypeOK

LEMMA ChildTypes ==
  ASSUME TypeOK, HeldInv, NEW c \in Runs,
         Reply(c) \/ Skip(c) \/ Drop(c) \/ NoOpen(c) \/ Crash(c) \/ Finish(c)
  PROVE  TypeOK'
<1> USE DEF program, locals, disk
<1>reply. CASE Reply(c)
  <2>1. rmsg[c] \in Replies
    BY DEF TypeOK
  <2>2. down' \in [Runs -> Seq(Replies)]
    BY <1>reply, <2>1, AppendedType DEF Reply, TypeOK
  <2> QED
    BY <1>reply, <2>2 DEF Reply, TypeOK
<1>skip. CASE Skip(c)
  <2>1. child' \in [Runs -> ChildPlaces] /\ blk' \in [Runs -> Blocks]
    BY <1>skip, DoneType DEF Skip
  <2> QED
    BY <1>skip, <2>1 DEF Skip, TypeOK
<1>drop. CASE Drop(c)
  <2>1. child' \in [Runs -> ChildPlaces] /\ blk' \in [Runs -> Blocks]
    BY <1>drop, DoneType DEF Drop
  <2>2. PICK bad \in IF FileDue(c) THEN SUBSET (1..Dirs) ELSE {{}} :
          Faults(Cardinality(bad))
    BY <1>drop DEF Drop
  <2>3. Cardinality(bad) \in Nat
    BY BadType
  <2>4. faults' \in 0..MaxFaults
    BY <2>2, <2>3, BoundsAssumption DEF Faults, TypeOK
  <2> QED
    BY <1>drop, <2>1, <2>4 DEF Drop, TypeOK
<1>noopen. CASE NoOpen(c)
  <2>1. faults' \in 0..MaxFaults
    BY <1>noopen, BoundsAssumption DEF NoOpen, Faults, TypeOK
  <2>2. File(c, {}) \in Names
    BY <1>noopen, FileType DEF NoOpen
  <2> QED
    BY <1>noopen, <2>1, <2>2 DEF NoOpen, TypeOK
<1>crash. CASE Crash(c)
  BY <1>crash DEF Crash, TypeOK
<1>finish. CASE Finish(c)
  BY <1>finish DEF Finish, TypeOK
<1> QED
  BY <1>reply, <1>skip, <1>drop, <1>noopen, <1>crash, <1>finish
LEMMA TypeStep == ASSUME TypeOK, ProgramInv, HeldInv, [Next]_vars PROVE TypeOK'
<1>1. CASE UNCHANGED vars
  BY <1>1 DEF vars, program, locals, disk, TypeOK
<1>2. CASE \E c \in Runs : Child(c) \/ NoOpen(c) \/ Crash(c)
  BY <1>2, ReceiveType, StoreType, ChildTypes DEF Child
<1> QED
  BY <1>1, <1>2, IntegrateType, ProgramTypes DEF Next

-----------------------------------------------------------------------------
(***************************************************************************)
(* What every step keeps: the records made, and which runs are over.       *)
(***************************************************************************)
Kept ==
  /\ run <= run'
  /\ Len(records) <= Len(records')
  /\ \A r \in 1..Len(records) : records'[r] = records[r]
  /\ \A c \in Runs : c <= run /\ Over(c) => Over(c)'

LEMMA RunIsNumber == ASSUME TypeOK PROVE run \in Nat /\ Len(records) \in Nat /\ Runs \subseteq Nat
  BY BoundsAssumption DEF TypeOK

LEMMA ProgramKeeps ==
  ASSUME TypeOK, ProgramInv,
         Start \/ Integrate \/ Send \/ Answer \/ Unanswered \/ Broken \/ Stop
  PROVE  Kept
<1>1. run \in Nat /\ Len(records) \in Nat /\ Runs \subseteq Nat
  BY RunIsNumber
<1>2. CASE Start
  BY <1>1, <1>2 DEF Start, Kept, Over
<1>3. CASE Integrate
  <2>1. run \in Runs
    BY <1>3 DEF Integrate, ProgramInv
  <2>2. PICK t \in Clock :
          records' = Append(records, [run |-> run, sec |-> t, first |-> beam = 0])
    BY <1>3 DEF Integrate
  <2> DEFINE r == [run |-> run, sec |-> t, first |-> beam = 0]
  <2>3. r \in Made
    BY <2>1, Zenon DEF Made
  <2> HIDE DEF r
  <2>4. records \in Seq(Made) /\ records' = Append(records, r)
    BY <2>2 DEF r, TypeOK
  <2>5. Len(records') = Len(records) + 1 /\ \A i \in 1..Len(records) : records'[i] = records[i]
    BY <2>3, <2>4, AppendProperties
  <2>6. run' = run /\ prog # "down"
    BY <1>3 DEF Integrate
  <2> QED
    BY <1>1, <2>5, <2>6 DEF Kept, Over
<1>4. CASE Send
  BY <1>1, <1>4 DEF Send, Kept, Over
<1>5. CASE Answer
  BY <1>1, <1>5 DEF Answer, Kept, Over, ProgramInv
<1>6. CASE Unanswered
  BY <1>1, <1>6 DEF Unanswered, Kept, Over, ProgramInv
<1>7. CASE Broken \/ Stop
  BY <1>1, <1>7 DEF Broken, Stop, End, Kept, Over
<1> QED
  BY <1>2, <1>3, <1>4, <1>5, <1>6, <1>7

LEMMA ChildKeeps ==
  ASSUME TypeOK, UNCHANGED program
  PROVE  Kept
<1>1. run \in Nat /\ Len(records) \in Nat
  BY RunIsNumber
<1> QED
  BY <1>1 DEF Kept, Over, program

(***************************************************************************)
(* The files are as they were.                                             *)
(***************************************************************************)
(* The run that made an entry. *)
LEMMA OfType ==
  ASSUME TypeOK, ProgramInv, StoredInv, NEW n \in Names, NEW i \in 1..Len(files[n])
  PROVE  /\ files[n][i] \in Entries /\ files[n][i].rec \in 1..Len(records)
         /\ Of(n, i).run \in Runs /\ Of(n, i).run <= run
<1>1. files[n][i] \in Entries
  BY ElementOfSeq DEF TypeOK
<1>2. files[n][i].rec \in 1..Len(records)
  <2>1. files[n][i].rec <= Len(records) /\ files[n][i].rec \in 1..MaxRecords
    BY <1>1 DEF StoredInv, Entries, RecordIds
  <2> QED
    BY <2>1, BoundsAssumption, RunIsNumber
<1>3. Of(n, i) \in Made
  BY <1>2, ElementOfSeq DEF Of, TypeOK
<1> QED
  BY <1>1, <1>2, <1>3 DEF Of, Made, ProgramInv

LEMMA OfKept ==
  ASSUME TypeOK, ProgramInv, StoredInv, Kept, UNCHANGED files,
         NEW n \in Names, NEW i \in 1..Len(files[n])
  PROVE  Of(n, i)' = Of(n, i)
<1>1. files[n][i].rec \in 1..Len(records)
  BY OfType
<1> QED
  BY <1>1 DEF Kept, Of

LEMMA FilesKept ==
  ASSUME TypeOK, ProgramInv, StoredInv, Kept, UNCHANGED files,
         OneRunPerFile, InOrder, StaleIsLast
  PROVE  OneRunPerFile' /\ InOrder' /\ StaleIsLast'
<1> USE RunIsNumber
<1>1. \A n \in Names : files[n] \in Seq(Entries) /\ DOMAIN files[n] = 1..Len(files[n])
  BY DEF TypeOK
<1>2. OneRunPerFile'
  BY <1>1, OfKept DEF OneRunPerFile
<1>3. InOrder'
  BY DEF InOrder
<1>4. StaleIsLast'
  <2> SUFFICES ASSUME NEW n \in Names, NEW i \in 1..Len(files[n]), files[n][i].is = "stale"
               PROVE  i = Len(files[n]) /\ Over(Of(n, i).run)'
    BY <1>1 DEF StaleIsLast
  <2>1. i = Len(files[n]) /\ Over(Of(n, i).run)
    BY <1>1 DEF StaleIsLast
  <2> DEFINE c == Of(n, i).run
  <2>2. c \in Runs /\ c <= run /\ c' = c
    BY OfType, OfKept
  <2> HIDE DEF c
  <2>3. Over(c)'
    BY <2>1, <2>2 DEF c, Kept
  <2> QED
    BY <2>1, <2>3 DEF c
<1> QED
  BY <1>2, <1>3, <1>4
(* No file is opened, and none is written to. *)
LEMMA NamesKept ==
  ASSUME TypeOK, ProgramInv, StoredInv, NameInv, Kept, UNCHANGED files, made \subseteq made',
         \A c \in Runs : filename'[c] \in {NoName, filename[c]}
  PROVE  NameInv'
<1>1. \A c \in Runs : filename'[c] # NoName => filename'[c] \in made'
  BY DEF NameInv
<1>2. \A c, d \in Runs : filename'[c] = filename'[d] /\ filename'[c] # NoName => c = d
  BY DEF NameInv
<1>3. \A n \in Names : n \notin made' => files'[n] = <<>>
  BY DEF NameInv
<1>4. ASSUME NEW c \in Runs, NEW n \in Names, filename'[c] = n, NEW i \in 1..Len(files[n])
      PROVE  Of(n, i)'.run = c
  <2>1. filename[c] = n
    BY <1>4, NoNameIsNoFile
  <2>2. Of(n, i).run = c
    BY <2>1 DEF NameInv
  <2> QED
    BY <2>2, OfKept
<1>5. \A c \in Runs, n \in Names : filename'[c] = n =>
        \A i \in 1..Len(files'[n]) : Of(n, i)'.run = c
  BY <1>4
<1> QED
  BY <1>1, <1>2, <1>3, <1>5 DEF NameInv

(* Nothing is stored: the record a child holds is the one it held, or a    *)
(* later one.                                                              *)
Holds(c) ==
  /\ blk[c].rec <= blk'[c].rec
  /\ blk'[c].live => (blk[c].live /\ blk'[c].rec = blk[c].rec) \/ blk[c].rec < blk'[c].rec
  /\ c <= run /\ up[c] = <<>> /\ Over(c) /\ ~Looking(c) => up'[c] = <<>> /\ ~Looking(c)'

LEMMA BlockType ==
  ASSUME TypeOK, NEW c \in Runs
  PROVE  blk[c] \in Blocks /\ blk[c].rec \in Nat /\ blk[c].live \in BOOLEAN
<1>1. blk[c] \in Blocks
  BY DEF TypeOK
<1> QED
  BY <1>1, BoundsAssumption DEF Blocks

LEMMA EntryKept ==
  ASSUME TypeOK, TypeOK', ProgramInv, StoredInv, Kept, \A c \in Runs : Holds(c),
         NEW n \in Names, NEW i \in 1..Len(files[n]), NEW c \in Runs, Of(n, i).run = c
  PROVE  LET e == files[n][i]
         IN  /\ e.rec <= Len(records')
             /\ e.rec <= blk'[c].rec
             /\ e.is = "whole" /\ blk'[c].live => e.rec < blk'[c].rec
             /\ e.is = "stale" => up'[c] = <<>> /\ Over(c)' /\ ~Looking(c)'
<1> DEFINE e == files[n][i]
<1>1. c <= run /\ e.rec \in 1..Len(records)
  BY OfType
<1>2. /\ e.rec <= Len(records) /\ e.rec <= blk[c].rec
      /\ e.is = "whole" /\ blk[c].live => e.rec < blk[c].rec
      /\ e.is = "stale" => up[c] = <<>> /\ Over(c) /\ ~Looking(c)
  BY DEF StoredInv, Of
<1> HIDE DEF e
<1>3. Holds(c) /\ Len(records) <= Len(records') /\ (Over(c) => Over(c)')
  BY <1>1 DEF Kept
<1>4. blk[c].rec \in Nat /\ Len(records) \in Nat /\ blk[c].live \in BOOLEAN
  BY <1>1, BlockType, RunIsNumber
<1>5. blk'[c].rec \in Nat /\ Len(records') \in Nat
  <2>1. blk' \in [Runs -> Blocks] /\ records' \in Seq(Made)
    BY DEF TypeOK
  <2>2. blk'[c] \in Blocks
    BY <1>1, <2>1
  <2> QED
    BY <2>1, <2>2, BoundsAssumption DEF Blocks
<1>6. e.rec <= Len(records') /\ e.rec <= blk'[c].rec
  BY <1>1, <1>2, <1>3, <1>4, <1>5 DEF Holds
<1>7. e.is = "whole" /\ blk'[c].live => e.rec < blk'[c].rec
  BY <1>1, <1>2, <1>3, <1>4, <1>5 DEF Holds
<1>8. e.is = "stale" => up'[c] = <<>> /\ Over(c)' /\ ~Looking(c)'
  BY <1>1, <1>2, <1>3 DEF Holds
<1> QED
  BY <1>6, <1>7, <1>8 DEF e

LEMMA StoredKept ==
  ASSUME TypeOK, TypeOK', ProgramInv, StoredInv, Kept, UNCHANGED files, \A c \in Runs : Holds(c)
  PROVE  StoredInv'
<1> DEFINE Fine(e, c) ==
      /\ e.rec <= Len(records')
      /\ e.rec <= blk'[c].rec
      /\ e.is = "whole" /\ blk'[c].live => e.rec < blk'[c].rec
      /\ e.is = "stale" => up'[c] = <<>> /\ Over(c)' /\ ~Looking(c)'
<1>1. ASSUME NEW n \in Names, NEW i \in 1..Len(files[n])
      PROVE  \E c \in Runs : records'[files'[n][i].rec].run = c /\ Fine(files'[n][i], c)
  <2>1. PICK c \in Runs : c = Of(n, i).run
    BY OfType
  <2>2. records'[files'[n][i].rec] = records[files[n][i].rec]
    BY OfKept DEF Of
  <2>3. Fine(files[n][i], c)
    BY <2>1, EntryKept
  <2> QED
    BY <2>1, <2>2, <2>3 DEF Of
<1>2. ASSUME NEW n \in Names, NEW i \in 1..Len(files'[n])
      PROVE  LET e == files'[n][i]
                 c == records'[e.rec].run
             IN  /\ e.rec <= Len(records')
                 /\ e.rec <= blk'[c].rec
                 /\ e.is = "whole" /\ blk'[c].live => e.rec < blk'[c].rec
                 /\ e.is = "stale" => /\ up'[c] = <<>>
                                      /\ c < run' \/ prog' = "down"
                                      /\ child'[c] \notin {"ack", "process"}
  <2>1. PICK c \in Runs : records'[files'[n][i].rec].run = c /\ Fine(files'[n][i], c)
    BY <1>1
  <2> QED
    BY <2>1 DEF Over, Looking
<1> QED
  BY <1>2, ZenonT(30) DEF StoredInv, Over, Looking
-----------------------------------------------------------------------------
(***************************************************************************)
(* The steps of the program.                                               *)
(***************************************************************************)
LEMMA IntegrateRecords ==
  ASSUME TypeOK, ProgramInv, Integrate
  PROVE  /\ run \in Runs /\ run' = run
         /\ Len(records') = Len(records) + 1 /\ records' # <<>>
         /\ records'[Len(records) + 1].run = run
<1>1. run \in Runs /\ run' = run
  BY DEF Integrate, ProgramInv
<1>2. PICK t \in Clock :
        records' = Append(records, [run |-> run, sec |-> t, first |-> beam = 0])
  BY DEF Integrate
<1> DEFINE r == [run |-> run, sec |-> t, first |-> beam = 0]
<1>3. r \in Made /\ r.run = run
  BY <1>1, Zenon DEF Made
<1> HIDE DEF r
<1>4. records \in Seq(Made) /\ records' = Append(records, r)
  BY <1>2 DEF r, TypeOK
<1>5. Len(records') = Len(records) + 1 /\ records' # <<>> /\ records'[Len(records) + 1] = r
  BY <1>3, <1>4, AppendProperties
<1> QED
  BY <1>1, <1>3, <1>5

LEMMA ProgramInvStep ==
  ASSUME TypeOK, ProgramInv,
         Start \/ Integrate \/ Send \/ Answer \/ Unanswered \/ Broken \/ Stop
  PROVE  ProgramInv'
<1>1. run \in Nat /\ Len(records) \in Nat /\ Runs \subseteq Nat
  BY RunIsNumber
<1>old. \A r \in 1..Len(records) : records[r].run <= run
  BY DEF ProgramInv
<1>type. \A r \in 1..Len(records) : records[r].run \in Nat
  <2> SUFFICES ASSUME NEW r \in 1..Len(records) PROVE records[r].run \in Nat
    OBVIOUS
  <2>1. records[r] \in Made
    BY ElementOfSeq DEF TypeOK
  <2> QED
    BY <1>1, <2>1 DEF Made
<1>2. CASE Start
  <2>1. run' = run + 1 /\ run' \in Runs /\ ~asked
    BY <1>1, <1>2, BoundsAssumption DEF Start, ProgramInv
  <2>2. \A r \in 1..Len(records) : records[r].run <= run'
    BY <1>1, <1>old, <1>type, <2>1
  <2> QED
    BY <1>2, <2>1, <2>2 DEF Start, ProgramInv, Pending
<1>3. CASE Integrate
  <2>1. /\ run \in Runs /\ run' = run /\ Len(records') = Len(records) + 1 /\ records' # <<>>
        /\ records'[Len(records) + 1].run = run
    BY <1>3, IntegrateRecords
  <2>2. \A r \in 1..Len(records) : records'[r] = records[r]
    BY <1>3, ProgramKeeps DEF Kept
  <2>3. \A r \in 1..Len(records') : records'[r].run <= run'
    <3> SUFFICES ASSUME NEW r \in 1..Len(records') PROVE records'[r].run <= run'
      OBVIOUS
    <3>1. CASE r \in 1..Len(records)
      BY <3>1, <1>old, <2>1, <2>2
    <3>2. CASE r = Len(records) + 1
      BY <3>2, <1>1, <2>1
    <3> QED
      BY <1>1, <2>1, <3>1, <3>2
  <2>4. ~asked' /\ prog' \in {"close", "data"}
    BY <1>3 DEF Integrate, ProgramInv
  <2> QED
    BY <2>1, <2>3, <2>4 DEF ProgramInv, Pending
<1>4. CASE Send
  BY <1>4 DEF Send, ProgramInv, Pending
<1>5. CASE Answer \/ Unanswered
  <2>1. prog \in Sending /\ ~asked' /\ prog' = NextPlace /\ UNCHANGED <<run, records>>
    BY <1>5 DEF Answer, Unanswered, ProgramInv
  <2>2. Pending' => Pending
    BY <2>1 DEF Pending, NextPlace
  <2> QED
    BY <2>1, <2>2 DEF ProgramInv
<1>6. CASE Broken \/ Stop
  BY <1>6 DEF Broken, Stop, End, ProgramInv, Pending
<1> QED
  BY <1>2, <1>3, <1>4, <1>5, <1>6

(* A record once made by a run is that run's own. *)
LEMMA OwnKept ==
  ASSUME Kept, NEW c \in Runs, NEW r \in Nat, Len(records) \in Nat, Len(records') \in Nat, Own(c, r)
  PROVE  Own(c, r)'
<1>1. r # 0 => r \in 1..Len(records)
  BY DEF Own
<1> QED
  BY <1>1 DEF Kept, Own

LEMMA LenType == ASSUME TypeOK' PROVE Len(records') \in Nat
<1>1. records' \in Seq(Made)
  BY DEF TypeOK
<1> QED
  BY <1>1

(* A record left to send was left before, or has just been made. *)
LEMMA UnsentStep ==
  ASSUME TypeOK, ProgramInv, Integrate \/ Send \/ Answer \/ Unanswered \/ Broken \/ Stop
  PROVE  run' = run /\ (Unsent' => Len(records) < Len(records') \/ Unsent)
<1>1. CASE Integrate
  BY <1>1, RunIsNumber, IntegrateRecords
<1>2. CASE Send
  BY <1>2 DEF Send, Unsent, Pending
<1>3. CASE Answer \/ Unanswered
  BY <1>3 DEF Answer, Unanswered, NextPlace, Unsent, Pending, ProgramInv
<1>4. CASE Broken \/ Stop
  BY <1>4 DEF Broken, Stop, End, Unsent, Pending
<1> QED
  BY <1>1, <1>2, <1>3, <1>4

(* What a run that is over has sent does not change. *)
LEMMA UpStep ==
  ASSUME TypeOK, ProgramInv, Integrate \/ Send \/ Answer \/ Unanswered \/ Broken \/ Stop,
         NEW c \in Runs, Over(c)
  PROVE  up'[c] = up[c]
<1>1. CASE prog = "down"
  BY <1>1 DEF Integrate, Send, Answer, Unanswered, Broken, Stop, ProgramInv
<1>2. CASE prog # "down"
  <2>1. c < run /\ run \in Runs
    BY <1>2 DEF Over, ProgramInv
  <2>2. c # run
    BY <2>1, RunIsNumber
  <2>3. CASE Send
    BY <2>2, <2>3 DEF Send, TypeOK
  <2>4. CASE Stop
    BY <2>2, <2>4 DEF Stop, TypeOK
  <2>5. CASE Integrate \/ Answer \/ Unanswered \/ Broken
    BY <2>5 DEF Integrate, Answer, Unanswered, Broken
  <2> QED
    BY <2>3, <2>4, <2>5
<1> QED
  BY <1>1, <1>2

LEMMA HeldStep ==
  ASSUME TypeOK, TypeOK', ProgramInv, HeldInv,
         Start \/ Integrate \/ Send \/ Answer \/ Unanswered \/ Broken \/ Stop
  PROVE  HeldInv'
<1>1. Kept /\ run \in Nat /\ Runs \subseteq Nat /\ Len(records) \in Nat /\ Len(records') \in Nat
  BY ProgramKeeps, RunIsNumber, LenType
<1>2. blk' = blk
  BY DEF Start, Integrate, Send, Answer, Unanswered, Broken, Stop, End, locals
<1> SUFFICES ASSUME NEW c \in Runs
             PROVE  /\ child'[c] # "none" => c <= run'
                    /\ Own(c, blk[c].rec)'
                    /\ c = run' /\ Unsent' => blk[c].rec < Len(records')
                    /\ blk[c].live => child'[c] \in {"ack", "process", "gone"}
                    /\ child'[c] \in {"ack", "process"} /\ blk[c].num /\ ~blk[c].live =>
                         Over(c)' /\ up'[c] = <<>>
  BY <1>2 DEF HeldInv, Looking
<1>3. blk[c].rec \in Nat /\ blk[c].live \in BOOLEAN
  BY BlockType
<1>4. /\ child[c] # "none" => c <= run
      /\ Own(c, blk[c].rec)
      /\ c = run /\ Unsent => blk[c].rec < Len(records)
      /\ blk[c].live => child[c] \in {"ack", "process", "gone"}
      /\ child[c] \in {"ack", "process"} /\ blk[c].num /\ ~blk[c].live => Over(c) /\ up[c] = <<>>
  BY DEF HeldInv, Looking
<1>5. Own(c, blk[c].rec)'
  <2>1. PICK r \in Nat : r = blk[c].rec
    BY <1>3
  <2>2. Own(c, r)'
    BY <1>1, <1>4, <2>1, OwnKept
  <2> QED
    BY <1>2, <2>1, <2>2 DEF Own
<1>6. blk[c].rec <= Len(records)
  BY <1>4 DEF Own
<1>start. CASE Start
  <2>1. run' = run + 1 /\ ~Unsent' /\ up' = up /\ child' = [child EXCEPT ![run + 1] = "recv"]
    BY <1>start DEF Start, Unsent, Pending
  <2>2. CASE c = run + 1
    <3>1. child[c] = "none" /\ child'[c] = "recv"
      BY <1>1, <1>4, <2>1, <2>2 DEF TypeOK
    <3> QED
      BY <1>1, <1>4, <1>5, <2>1, <2>2, <3>1
  <2>3. CASE c # run + 1
    <3>1. child'[c] = child[c]
      BY <2>1, <2>3 DEF TypeOK
    <3>2. c <= run /\ Over(c) => Over(c)'
      BY <1>1 DEF Kept
    <3> QED
      BY <1>1, <1>4, <1>5, <2>1, <3>1, <3>2
  <2> QED
    BY <2>2, <2>3
<1>other. CASE Integrate \/ Send \/ Answer \/ Unanswered \/ Broken \/ Stop
  <2>1. child' = child
    BY <1>other DEF Integrate, Send, Answer, Unanswered, Broken, Stop, End
  <2>2. run' = run /\ (Unsent' => Len(records) < Len(records') \/ Unsent)
    BY <1>other, UnsentStep
  <2>3. Over(c) => up'[c] = up[c]
    BY <1>other, UpStep
  <2>4. c = run' /\ Unsent' => blk[c].rec < Len(records')
    BY <1>1, <1>3, <1>4, <1>6, <2>2 DEF Kept
  <2>5. c <= run /\ Over(c) => Over(c)'
    BY <1>1 DEF Kept
  <2> QED
    BY <1>4, <1>5, <2>1, <2>2, <2>3, <2>4, <2>5
<1> QED
  BY <1>start, <1>other
(* SentInv, for one run. *)
SentBy(c) ==
  /\ up[c] # <<>> => c <= run
  /\ \A i \in 1..Len(up[c]) :
       /\ Own(c, up[c][i].rec)
       /\ Cut(up[c][i]) => i = Len(up[c]) /\ Over(c)
       /\ up[c][i].kind = "data" =>
            /\ up[c][i].rec > blk[c].rec
            /\ \A j \in 1..Len(up[c]) : up[c][j].kind = "data" /\ i < j
                                           => up[c][i].rec < up[c][j].rec
            /\ c = run /\ Unsent => up[c][i].rec < Len(records)

LEMMA MessageType ==
  ASSUME TypeOK, NEW c \in Runs
  PROVE  /\ up[c] \in Seq(Requests) /\ Len(up[c]) \in Nat
         /\ \A i \in 1..Len(up[c]) : up[c][i] \in Requests /\ up[c][i].rec \in Nat
<1>1. up[c] \in Seq(Requests)
  BY DEF TypeOK
<1> SUFFICES ASSUME NEW i \in 1..Len(up[c]) PROVE up[c][i] \in Requests /\ up[c][i].rec \in Nat
  BY <1>1
<1>2. up[c][i] \in Requests
  BY <1>1, ElementOfSeq
<1> QED
  BY <1>2, BoundsAssumption DEF Requests

(* Nothing is sent. *)
LEMMA SentSame ==
  ASSUME TypeOK, TypeOK', ProgramInv, Kept, NEW c \in Runs, SentBy(c),
         up'[c] = up[c], blk'[c].rec = blk[c].rec,
         c = run' /\ Unsent' => c = run /\ (Unsent \/ Len(records) < Len(records'))
  PROVE  SentBy(c)'
<1>1. run \in Nat /\ run' \in Nat /\ c \in Nat
  BY RunIsNumber, BoundsAssumption DEF TypeOK
<1>2. up[c] # <<>> => c <= run'
  BY <1>1 DEF SentBy, Kept
<1>3. Len(records) \in Nat /\ Len(records') \in Nat /\ Len(records) <= Len(records')
  BY RunIsNumber, LenType DEF Kept
<1>4. ASSUME NEW i \in 1..Len(up[c])
      PROVE  /\ Own(c, up[c][i].rec)'
             /\ Cut(up'[c][i]) => i = Len(up[c]) /\ Over(c)'
             /\ up'[c][i].kind = "data" /\ c = run' /\ Unsent' => up'[c][i].rec < Len(records')
  <2>1. PICK m \in Requests : m = up[c][i]
    BY MessageType
  <2>2. m.rec \in Nat
    BY <2>1, MessageType
  <2>3. up[c] # <<>> /\ c <= run
    BY MessageType, EmptySeq DEF SentBy
  <2>4. PICK r \in Nat : r = m.rec
    BY <2>2
  <2>5. Own(c, r)
    BY <2>1, <2>4 DEF SentBy
  <2>6. Own(c, r)' /\ r <= Len(records)
    BY <1>3, <2>5, OwnKept DEF Own
  <2>7. Cut(m) => i = Len(up[c]) /\ Over(c)'
    BY <2>1, <2>3 DEF SentBy, Kept
  <2>8. m.kind = "data" /\ c = run' /\ Unsent' => m.rec < Len(records')
    <3>1. m.kind = "data" /\ c = run /\ Unsent => m.rec < Len(records)
      BY <2>1 DEF SentBy
    <3> QED
      BY <1>3, <2>4, <2>6, <3>1
  <2>9. up'[c][i] = m /\ Own(c, up[c][i].rec)'
    BY <2>1, <2>4, <2>6 DEF Own
  <2> QED
    BY <2>7, <2>8, <2>9
<1>5. \A i \in 1..Len(up[c]) : up[c][i].kind = "data" =>
        /\ up[c][i].rec > blk[c].rec
        /\ \A j \in 1..Len(up[c]) : up[c][j].kind = "data" /\ i < j
                                       => up[c][i].rec < up[c][j].rec
  BY DEF SentBy
<1> QED
  BY <1>2, <1>4, <1>5 DEF SentBy

(* Something is sent by the current run. *)
LEMMA SentOne ==
  ASSUME TypeOK, TypeOK', ProgramInv, HeldInv, Kept, SentBy(run), prog \in Sending, ~asked,
         run \in Runs, NEW k \in 1..Pieces(Kind(prog)),
         up' = [up EXCEPT ![run] = Append(@, Request(k))],
         UNCHANGED <<run, records, blk>>,
         (k = Pieces(Kind(prog)) /\ asked' /\ prog' = prog) \/ prog' = "down"
  PROVE  SentBy(run)'
<1> DEFINE m == Request(k)
           s == up[run]
<1>1. m \in Requests /\ s \in Seq(Requests) /\ up'[run] = Append(s, m)
  BY RequestType DEF TypeOK
<1>2. /\ Len(up'[run]) = Len(s) + 1 /\ up'[run][Len(s) + 1] = m
      /\ \A i \in 1..Len(s) : up'[run][i] = s[i]
  BY <1>1, AppendProperties
<1>3. run \in Nat /\ Len(s) \in Nat /\ Len(records) \in Nat
      /\ \A i \in 1..Len(s) : s[i].rec \in Nat
  BY <1>1, RunIsNumber, MessageType
<1>4. prog = "data" => Unsent /\ Own(run, Len(records)) /\ Kind(prog) = "data"
  BY <1>3 DEF Unsent, Pending, ProgramInv, Own, Kind
<1>5. m.kind = "data" => prog = "data" /\ m.rec = Len(records)
  BY DEF Request, Kind
<1>6. Own(run, m.rec)
  BY <1>3, <1>4 DEF Request, Own
<1>7. Cut(m) => Over(run)'
  BY <1>5 DEF Cut, Request, Pieces, Kind, Over
<1>8. m.kind = "data" => m.rec > blk[run].rec /\ \A i \in 1..Len(s) : s[i].kind = "data" => s[i].rec < m.rec
  BY <1>3, <1>4, <1>5, BlockType DEF HeldInv, SentBy
<1>9. m.kind = "data" => ~Unsent'
  BY <1>5 DEF Unsent, Pending
<1>10. \A i \in 1..Len(s) :
         /\ Own(run, s[i].rec)
         /\ ~Cut(s[i])
         /\ s[i].kind = "data" => /\ s[i].rec > blk[run].rec
                                  /\ Unsent' => s[i].rec < Len(records)
                                  /\ \A j \in 1..Len(s) : s[j].kind = "data" /\ i < j
                                                              => s[i].rec < s[j].rec
  <2>1. ~Over(run)
    BY <1>3 DEF Over
  <2>2. Unsent' => Unsent
    BY DEF Unsent, Pending
  <2> QED
    BY <2>1, <2>2 DEF SentBy
<1> HIDE DEF m, s
<1>11. ASSUME NEW i \in 1..Len(up'[run])
       PROVE  /\ Own(run, up'[run][i].rec)
              /\ Cut(up'[run][i]) => i = Len(up'[run]) /\ Over(run)'
              /\ up'[run][i].kind = "data" =>
                   /\ up'[run][i].rec > blk[run].rec
                   /\ Unsent' => up'[run][i].rec < Len(records)
                   /\ \A j \in 1..Len(up'[run]) : up'[run][j].kind = "data" /\ i < j
                                                      => up'[run][i].rec < up'[run][j].rec
  <2>1. CASE i = Len(s) + 1
    BY <1>2, <1>3, <1>6, <1>7, <1>8, <1>9, <2>1
  <2>2. CASE i \in 1..Len(s)
    <3>1. \A j \in 1..Len(up'[run]) : j \in 1..Len(s) \/ j = Len(s) + 1
      BY <1>2, <1>3
    <3> QED
      BY <1>2, <1>3, <1>8, <1>10, <2>2, <3>1
  <2> QED
    BY <1>2, <1>3, <2>1, <2>2
<1> QED
  BY <1>3, <1>11 DEF SentBy, Own, Over
LEMMA SentStep ==
  ASSUME TypeOK, TypeOK', ProgramInv, HeldInv, SentInv,
         Start \/ Integrate \/ Send \/ Answer \/ Unanswered \/ Broken \/ Stop
  PROVE  SentInv'
<1> SUFFICES ASSUME NEW c \in Runs PROVE SentBy(c)'
  BY DEF SentInv, SentBy
<1>1. Kept /\ SentBy(c) /\ blk' = blk /\ (prog # "down" => run \in Runs)
  BY ProgramKeeps DEF SentInv, SentBy, Start, Integrate, Send, Answer, Unanswered, Broken, Stop,
                      End, locals, ProgramInv
<1>2. CASE Start
  <2>1. up' = up /\ ~Unsent'
    BY <1>2 DEF Start, Unsent, Pending
  <2> QED
    BY <1>1, <2>1, SentSame
<1>3. CASE (Integrate \/ Send \/ Answer \/ Unanswered \/ Broken \/ Stop) /\ up'[c] = up[c]
  <2>1. run' = run /\ (Unsent' => Len(records) < Len(records') \/ Unsent)
    BY <1>3, UnsentStep
  <2> QED
    BY <1>1, <1>3, <2>1, SentSame
<1>4. CASE Send /\ up'[c] # up[c]
  <2>1. c = run
    BY <1>4 DEF Send, TypeOK
  <2> DEFINE k == Pieces(Kind(prog))
  <2>2. k \in 1..Pieces(Kind(prog))
    BY <1>4 DEF Send, Pieces, Kind
  <2>3. /\ up' = [up EXCEPT ![run] = Append(@, Request(k))] /\ UNCHANGED <<run, records, blk>>
        /\ k = Pieces(Kind(prog)) /\ asked' /\ prog' = prog
    BY <1>4 DEF Send, locals
  <2>4. prog \in Sending /\ ~asked /\ run \in Runs /\ SentBy(run)
    BY <1>1, <1>4, <2>1 DEF Send
  <2> HIDE DEF k
  <2>5. SentBy(run)'
    BY <1>1, <2>2, <2>3, <2>4, SentOne
  <2> QED
    BY <2>1, <2>3, <2>5 DEF SentBy, Own, Over, Unsent, Pending
<1>5. CASE Stop /\ up'[c] # up[c]
  <2>1. c = run
    BY <1>5 DEF Stop, TypeOK
  <2>2. prog \in Sending /\ ~asked /\ run \in Runs /\ SentBy(run)
    BY <1>1, <1>5, <2>1 DEF Stop
  <2>3. PICK k \in 1..(Pieces(Kind(prog)) - 1) : up' = [up EXCEPT ![run] = Append(@, Request(k))]
    BY <1>5 DEF Stop
  <2>4. k \in 1..Pieces(Kind(prog))
    BY <2>2 DEF Pieces, Kind
  <2>5. UNCHANGED <<run, records, blk>> /\ prog' = "down"
    BY <1>5 DEF Stop, End, locals
  <2>6. SentBy(run)'
    BY <1>1, <2>2, <2>3, <2>4, <2>5, SentOne
  <2> QED
    BY <2>1, <2>5, <2>6 DEF SentBy, Own, Over, Unsent, Pending
<1>6. up'[c] # up[c] => Start \/ Send \/ Stop
  BY DEF Integrate, Answer, Unanswered, Broken
<1> QED
  BY <1>2, <1>3, <1>4, <1>5, <1>6

LEMMA ProgramStep ==
  ASSUME WriterInv, TypeOK',
         Start \/ Integrate \/ Send \/ Answer \/ Unanswered \/ Broken \/ Stop
  PROVE  WriterInv'
<1> USE DEF WriterInv
<1>1. Kept
  BY ProgramKeeps
<1>2. UNCHANGED <<blk, filename, files, made>>
  BY DEF Start, Integrate, Send, Answer, Unanswered, Broken, Stop, End, locals, disk
<1>3. ProgramInv' /\ HeldInv' /\ SentInv'
  BY ProgramInvStep, HeldStep, SentStep
<1>4. NameInv'
  BY <1>1, <1>2, NamesKept
<1>5. StoredInv'
  <2>1. \A c \in Runs : Holds(c)
    <3> SUFFICES ASSUME NEW c \in Runs PROVE Holds(c)
      OBVIOUS
    <3>1. blk[c].rec <= blk'[c].rec
      BY <1>2, BlockType
    <3>2. CASE Start
      <4>1. up' = up /\ child' = [child EXCEPT ![run + 1] = "recv"]
        BY <3>2 DEF Start
      <4> QED
        BY <1>2, <3>1, <4>1 DEF Holds, Looking, TypeOK
    <3>3. CASE Integrate \/ Send \/ Answer \/ Unanswered \/ Broken \/ Stop
      <4>1. child' = child
        BY <3>3 DEF Integrate, Send, Answer, Unanswered, Broken, Stop, End
      <4>2. Over(c) => up'[c] = up[c]
        BY <3>3, UpStep
      <4> QED
        BY <1>2, <3>1, <4>1, <4>2 DEF Holds, Looking
    <3> QED
      BY <3>2, <3>3
  <2> QED
    BY <1>1, <1>2, <2>1, StoredKept
<1>6. OneRunPerFile' /\ InOrder' /\ StaleIsLast'
  BY <1>1, <1>2, FilesKept
<1> QED
  BY <1>3, <1>4, <1>5, <1>6
-----------------------------------------------------------------------------
(***************************************************************************)
(* The steps of a child.                                                   *)
(***************************************************************************)
(* HeldInv, for one run. *)
HeldBy(c) ==
  /\ child[c] # "none" => c <= run
  /\ Own(c, blk[c].rec)
  /\ c = run /\ Unsent => blk[c].rec < Len(records)
  /\ blk[c].live => child[c] \in {"ack", "process", "gone"}
  /\ Looking(c) /\ blk[c].num /\ ~blk[c].live => Over(c) /\ up[c] = <<>>

LEMMA ReceiveStep ==
  ASSUME WriterInv, TypeOK', NEW c \in Runs, Receive(c)
  PROVE  SentBy(c)' /\ HeldBy(c)' /\ Holds(c)
<1> DEFINE s == up[c]
           m == Head(s)
           b == blk[c]
<1>1. SentBy(c) /\ HeldBy(c) /\ UNCHANGED program
  BY DEF WriterInv, SentInv, HeldInv, SentBy, HeldBy, Receive
<1>2. /\ child[c] = "recv" /\ s # <<>> /\ up'[c] = Tail(s)
      /\ blk'[c] = (IF m.kind = "data" THEN Decoded(b, m) ELSE b)
      /\ child'[c] = (IF m.kind = "data" THEN "ack" ELSE "reply")
  BY DEF WriterInv, TypeOK, Receive
<1>3. /\ Tail(s) \in Seq(Requests) /\ Len(Tail(s)) = Len(s) - 1 /\ Len(s) \in Nat
      /\ \A i \in 1..Len(Tail(s)) : Tail(s)[i] = s[i + 1]
      /\ Len(s) # 0
  <2>1. s \in Seq(Requests)
    BY MessageType DEF WriterInv
  <2> HIDE DEF s
  <2> QED
    BY <1>2, <2>1, HeadTailProperties
<1>4. /\ m = s[1] /\ 1 \in 1..Len(s) /\ m \in Requests /\ m.rec \in Nat
      /\ \A i \in 1..Len(s) : s[i].rec \in Nat
  <2>1. m = s[1] /\ 1 \in 1..Len(s)
    BY <1>3
  <2> QED
    BY <2>1, MessageType DEF WriterInv
<1>5. b.rec \in Nat /\ b.live \in BOOLEAN /\ Len(records) \in Nat /\ run \in Nat /\ c \in Nat
  BY BlockType, RunIsNumber DEF WriterInv
<1>6. /\ c <= run /\ ~b.live /\ Own(c, b.rec) /\ (c = run /\ Unsent => b.rec < Len(records))
      /\ Own(c, m.rec) /\ (Cut(m) => Len(s) = 1 /\ Over(c))
      /\ m.kind = "data" => m.rec > b.rec /\ (c = run /\ Unsent => m.rec < Len(records))
      /\ \A j \in 1..Len(s) : m.kind = "data" /\ s[j].kind = "data" /\ 1 < j => m.rec < s[j].rec
  BY <1>1, <1>2, <1>4 DEF SentBy, HeldBy
<1>7. /\ blk'[c].rec = b.rec \/ (m.kind = "data" /\ blk'[c].rec = m.rec)
      /\ blk'[c].live => m.kind = "data" /\ blk'[c].rec = m.rec
      /\ m.kind = "data" /\ ~blk'[c].live => Cut(m)
      /\ child'[c] \in {"ack", "reply"} /\ (child'[c] = "ack" => m.kind = "data")
  <2>1. m.pieces \in 1..5
    BY <1>4 DEF Requests
  <2>2. CASE m.kind # "data"
    BY <1>2, <1>6, <2>2
  <2>3. CASE m.kind = "data"
    <3>1. Decoded(b, m).rec = IF m.pieces = 5 THEN m.rec ELSE b.rec
      BY DEF Decoded
    <3>2. Decoded(b, m).live <=> m.pieces = 5 \/ (m.pieces < 4 /\ b.live)
      BY DEF Decoded
    <3>3. blk'[c] = Decoded(b, m) /\ child'[c] = "ack"
      BY <1>2, <2>3
    <3>4. m.pieces = 5 \/ Cut(m)
      BY <2>1, <2>3 DEF Cut
    <3>5. blk'[c].live <=> m.pieces = 5
      BY <1>6, <2>1, <3>2, <3>3
    <3>6. m.pieces = 5 => ~Cut(m)
      BY DEF Cut
    <3>7. blk'[c].rec = IF m.pieces = 5 THEN m.rec ELSE b.rec
      BY <3>1, <3>3
    <3> HIDE DEF m, b
    <3> QED
      BY <2>3, <3>3, <3>4, <3>5, <3>7
  <2> QED
    BY <2>2, <2>3
<1> HIDE DEF m, b
<1>8. Holds(c)
  <2>1. b.rec <= blk'[c].rec /\ (blk'[c].live => b.rec < blk'[c].rec)
    BY <1>4, <1>5, <1>6, <1>7
  <2> QED
    BY <1>2, <2>1 DEF Holds, b
<1>9. HeldBy(c)'
  <2>1. Own(c, blk'[c].rec) /\ (c = run /\ Unsent => blk'[c].rec < Len(records))
    BY <1>6, <1>7
  <2>2. m.kind = "data" /\ ~blk'[c].live => Over(c) /\ Tail(s) = <<>>
    BY <1>3, <1>6, <1>7
  <2>3. UNCHANGED <<run, prog, asked, records>>
    BY <1>1 DEF program
  <2> HIDE DEF s
  <2> QED
    BY <1>2, <1>6, <1>7, <2>1, <2>2, <2>3 DEF HeldBy, Own, Over, Looking, Unsent, Pending
<1>10. SentBy(c)'
  <2>1. ASSUME NEW i \in 1..Len(Tail(s))
        PROVE  /\ Own(c, Tail(s)[i].rec)
               /\ Cut(Tail(s)[i]) => i = Len(Tail(s)) /\ Over(c)
               /\ Tail(s)[i].kind = "data" =>
                    /\ Tail(s)[i].rec > blk'[c].rec
                    /\ \A j \in 1..Len(Tail(s)) : Tail(s)[j].kind = "data" /\ i < j
                                                   => Tail(s)[i].rec < Tail(s)[j].rec
                    /\ c = run /\ Unsent => Tail(s)[i].rec < Len(records)
    <3>1. i + 1 \in 1..Len(s) /\ 1 < i + 1 /\ Tail(s)[i] = s[i + 1]
      BY <1>3
    <3>2. /\ Own(c, s[i + 1].rec)
          /\ Cut(s[i + 1]) => i + 1 = Len(s) /\ Over(c)
          /\ s[i + 1].kind = "data" =>
               /\ s[i + 1].rec > b.rec
               /\ \A j \in 1..Len(s) : s[j].kind = "data" /\ i + 1 < j => s[i + 1].rec < s[j].rec
               /\ c = run /\ Unsent => s[i + 1].rec < Len(records)
      BY <1>1, <3>1 DEF SentBy, b
    <3>3. m.kind = "data" /\ s[i + 1].kind = "data" => m.rec < s[i + 1].rec
      BY <1>6, <3>1
    <3>4. s[i + 1].kind = "data" => s[i + 1].rec > blk'[c].rec
      BY <1>7, <3>2, <3>3
    <3>5. \A j \in 1..Len(Tail(s)) : j + 1 \in 1..Len(s) /\ Tail(s)[j] = s[j + 1]
                                     /\ (i < j => i + 1 < j + 1)
      BY <1>3
    <3>6. Own(c, Tail(s)[i].rec)
      BY <3>1, <3>2
    <3>7. Cut(Tail(s)[i]) => i + 1 = Len(s) /\ Over(c)
      BY <3>1, <3>2
    <3>8. Len(Tail(s)) + 1 = Len(s) /\ Len(Tail(s)) \in Nat
      BY <1>3
    <3>9. Cut(Tail(s)[i]) => i = Len(Tail(s)) /\ Over(c)
      <4>1. i + 1 = Len(s) => i = Len(Tail(s))
        BY <3>8
      <4> QED
        BY <3>7, <4>1
    <3>10. ASSUME NEW j \in 1..Len(Tail(s)), Tail(s)[i].kind = "data",
                  Tail(s)[j].kind = "data", i < j
           PROVE  Tail(s)[i].rec < Tail(s)[j].rec
      <4>1. j + 1 \in 1..Len(s) /\ Tail(s)[j] = s[j + 1] /\ i + 1 < j + 1
        BY <3>5, <3>10
      <4>2. s[i + 1].kind = "data" /\ s[j + 1].kind = "data"
        BY <3>1, <3>10, <4>1
      <4>3. s[i + 1].rec < s[j + 1].rec
        BY <3>2, <4>1, <4>2
      <4> QED
        BY <3>1, <4>1, <4>3
    <3>11. Tail(s)[i].kind = "data" =>
             Tail(s)[i].rec > blk'[c].rec /\ (c = run /\ Unsent => Tail(s)[i].rec < Len(records))
      BY <3>1, <3>2, <3>4
    <3> HIDE DEF s
    <3> QED
      BY <3>6, <3>9, <3>10, <3>11
  <2>2. UNCHANGED <<run, prog, asked, records>>
    BY <1>1 DEF program
  <2> HIDE DEF s
  <2> QED
    BY <1>2, <1>6, <2>1, <2>2 DEF SentBy, Own, Over, Unsent, Pending
<1> QED
  BY <1>8, <1>9, <1>10

(* A child that answers, or is done with a record, or is gone. *)
LEMMA FreedType ==
  ASSUME TypeOK, NEW c \in Runs, blk' = [blk EXCEPT ![c].live = FALSE]
  PROVE  /\ blk'[c].rec = blk[c].rec /\ ~blk'[c].live
         /\ \A d \in Runs \ {c} : blk'[d] = blk[d]
<1>1. blk[c] \in Blocks /\ blk' = [blk EXCEPT ![c] = [blk[c] EXCEPT !.live = FALSE]]
  BY DEF TypeOK
<1>2. /\ [blk[c] EXCEPT !.live = FALSE].rec = blk[c].rec
      /\ ~[blk[c] EXCEPT !.live = FALSE].live
  BY <1>1 DEF Blocks
<1>3. blk \in [Runs -> Blocks]
  BY DEF TypeOK
<1> QED
  BY <1>1, <1>2, <1>3

LEMMA OnwardStep ==
  ASSUME WriterInv, TypeOK', NEW c \in Runs, UNCHANGED <<program, up>>, child[c] # "none",
         \/ (Looking(c)' => Looking(c)) /\ blk' = blk /\ (Looking(c)' \/ ~blk[c].live)
         \/ child'[c] = "gone" /\ blk' = blk
         \/ ~Looking(c)' /\ blk' = [blk EXCEPT ![c].live = FALSE]
  PROVE  SentBy(c)' /\ HeldBy(c)' /\ Holds(c)
<1>1. /\ SentBy(c) /\ HeldBy(c) /\ TypeOK /\ ProgramInv
      /\ UNCHANGED <<run, prog, asked, records>> /\ up'[c] = up[c]
  BY DEF WriterInv, SentInv, HeldInv, SentBy, HeldBy, program
<1>2. blk'[c].rec = blk[c].rec /\ blk[c].rec \in Nat /\ blk[c].live \in BOOLEAN
  BY <1>1, BlockType, FreedType
<1>3. \/ blk'[c] = blk[c] /\ (blk[c].live => child'[c] \in {"ack", "process", "gone"})
                          /\ (Looking(c)' => Looking(c))
      \/ ~Looking(c)' /\ ~blk'[c].live
  BY <1>1, FreedType DEF Looking
<1>4. Kept /\ Unsent' = Unsent
  BY <1>1, ChildKeeps DEF Unsent, Pending
<1>5. SentBy(c)'
  BY <1>1, <1>2, <1>4, SentSame
<1>6. Holds(c)
  BY <1>1, <1>2, <1>3 DEF Holds, Looking
<1>7. HeldBy(c)'
  <2>1. blk'[c].live => child'[c] \in {"ack", "process", "gone"}
    BY <1>3
  <2>2. Looking(c)' /\ blk'[c].num /\ ~blk'[c].live => Over(c)' /\ up'[c] = <<>>
    BY <1>1, <1>2, <1>3 DEF HeldBy, Looking, Over
  <2> QED
    BY <1>1, <1>2, <2>1, <2>2 DEF HeldBy, Own, Unsent, Pending
<1> QED
  BY <1>5, <1>6, <1>7
(* The other children. *)
LEMMA OthersStep ==
  ASSUME WriterInv, TypeOK', NEW c \in Runs, UNCHANGED program,
         \A d \in Runs \ {c} : up'[d] = up[d] /\ child'[d] = child[d] /\ blk'[d] = blk[d],
         SentBy(c)' /\ HeldBy(c)' /\ Holds(c)
  PROVE  SentInv' /\ HeldInv' /\ \A d \in Runs : Holds(d)
<1>1. ASSUME NEW d \in Runs PROVE SentBy(d)' /\ HeldBy(d)' /\ Holds(d)
  <2>1. CASE d = c
    BY <2>1
  <2>2. CASE d # c
    <3>1. up'[d] = up[d] /\ child'[d] = child[d] /\ blk'[d] = blk[d]
      BY <2>2
    <3>2. UNCHANGED <<run, prog, asked, records>>
      BY DEF program
    <3>3. SentBy(d) /\ HeldBy(d) /\ blk[d].rec \in Nat
      BY BlockType DEF WriterInv, SentInv, HeldInv, SentBy, HeldBy
    <3>4. SentBy(d)'
      BY <3>1, <3>2, <3>3 DEF SentBy, Own, Over, Unsent, Pending
    <3>5. HeldBy(d)'
      BY <3>1, <3>2, <3>3 DEF HeldBy, Own, Over, Looking, Unsent, Pending
    <3>6. Holds(d)
      BY <3>1, <3>3 DEF Holds, Looking
    <3> QED
      BY <3>4, <3>5, <3>6
  <2> QED
    BY <2>1, <2>2
<1> QED
  BY <1>1 DEF SentInv, HeldInv, SentBy, HeldBy

LEMMA ProgramInvKept == ASSUME ProgramInv, UNCHANGED program PROVE ProgramInv'
  BY DEF ProgramInv, Pending, program

LEMMA FilesSameStep ==
  ASSUME WriterInv, TypeOK', NEW c \in Runs,
         Receive(c) \/ Reply(c) \/ Skip(c) \/ Drop(c) \/ NoOpen(c) \/ Crash(c) \/ Finish(c)
  PROVE  WriterInv'
<1>1. /\ UNCHANGED <<program, files>> /\ made \subseteq made'
      /\ \A d \in Runs : filename'[d] \in {NoName, filename[d]}
      /\ \A d \in Runs \ {c} : up'[d] = up[d] /\ child'[d] = child[d] /\ blk'[d] = blk[d]
  <2>1. TypeOK
    BY DEF WriterInv
  <2>2. CASE Receive(c)
    BY <2>1, <2>2 DEF Receive, disk, TypeOK
  <2>3. CASE Skip(c) \/ Drop(c)
    <3>1. blk' = [blk EXCEPT ![c].live = FALSE] /\ child' = [child EXCEPT ![c] = "recv"]
      BY <2>3 DEF Skip, Drop, Done
    <3>2. \A d \in Runs \ {c} : blk'[d] = blk[d] /\ child'[d] = child[d]
      BY <2>1, <3>1, FreedType DEF TypeOK
    <3>3. UNCHANGED <<program, up, filename, files, made>>
      BY <2>3 DEF Skip, Drop, disk
    <3> QED
      BY <3>2, <3>3
  <2>4. CASE Reply(c) \/ NoOpen(c) \/ Crash(c) \/ Finish(c)
    <3>1. UNCHANGED <<program, up, blk, filename, files>> /\ made \subseteq made'
      BY <2>4 DEF Reply, NoOpen, Crash, Finish, locals, disk
    <3>2. \A d \in Runs \ {c} : child'[d] = child[d]
      BY <2>1, <2>4 DEF Reply, NoOpen, Crash, Finish, TypeOK
    <3> QED
      BY <3>1, <3>2
  <2> QED
    BY <2>2, <2>3, <2>4
<1>2. SentBy(c)' /\ HeldBy(c)' /\ Holds(c)
  <2>1. child \in [Runs -> ChildPlaces] /\ (blk[c].live => child[c] \in {"ack", "process", "gone"})
    BY DEF WriterInv, TypeOK, HeldInv
  <2>2. CASE Receive(c)
    BY <2>2, ReceiveStep
  <2>3. CASE Reply(c) \/ NoOpen(c) \/ Crash(c) \/ Finish(c)
    <3>1. child[c] # "none" /\ UNCHANGED <<program, up, blk>>
      BY <2>3 DEF Reply, NoOpen, Crash, Finish, HasRecord, locals
    <3>2. CASE Reply(c)
      <4>1. child[c] \in {"reply", "ack"} /\ child'[c] = IF child[c] = "ack" THEN "process" ELSE "recv"
        BY <2>1, <3>2 DEF Reply
      <4> QED
        BY <2>1, <3>1, <4>1, OnwardStep DEF Looking
    <3>3. CASE ~Reply(c)
      <4>1. child'[c] = "gone"
        BY <2>1, <2>3, <3>3 DEF NoOpen, Crash, Finish
      <4> QED
        BY <3>1, <4>1, OnwardStep
    <3> QED
      BY <3>2, <3>3
  <2>4. CASE Skip(c) \/ Drop(c)
    <3>1. /\ child[c] # "none" /\ UNCHANGED <<program, up>>
          /\ blk' = [blk EXCEPT ![c].live = FALSE] /\ child'[c] = "recv"
      BY <2>1, <2>4 DEF Skip, Drop, Done, HasRecord
    <3> QED
      BY <3>1, OnwardStep DEF Looking
  <2> QED
    BY <2>2, <2>3, <2>4
<1>3. SentInv' /\ HeldInv' /\ \A d \in Runs : Holds(d)
  BY <1>1, <1>2, OthersStep
<1>4. Kept /\ ProgramInv'
  BY <1>1, ChildKeeps, ProgramInvKept DEF WriterInv
<1>5. NameInv' /\ StoredInv' /\ OneRunPerFile' /\ InOrder' /\ StaleIsLast'
  BY <1>1, <1>3, <1>4, NamesKept, StoredKept, FilesKept DEF WriterInv
<1> QED
  BY <1>3, <1>4, <1>5 DEF WriterInv
-----------------------------------------------------------------------------
(***************************************************************************)
(* A record is stored.                                                     *)
(***************************************************************************)
(* What Store does to the files: at most one entry more in one of them.    *)
Grows(c, file) ==
  LET more == Len(files[file]) + 1 IN
  /\ made' = made \cup {file} /\ filename' = [filename EXCEPT ![c] = file]
  /\ file = filename[c] \/ file \notin made
  /\ \A n \in Names \ {file} : files'[n] = files[n]
  /\ Len(files'[file]) \in {Len(files[file]), more}
  /\ \A i \in 1..Len(files[file]) : files'[file][i] = files[file][i]
  /\ Len(files'[file]) = more =>
       /\ files'[file][more].rec = blk[c].rec
       /\ files'[file][more].is = "whole" => blk[c].live
       /\ files'[file][more].is = "stale" => ~blk[c].live

LEMMA AtMostOneMore ==
  ASSUME NEW S, NEW s \in Seq(S), NEW w \in Seq(S), Len(w) \in {0, 1}
  PROVE  /\ Len(s \o w) \in {Len(s), Len(s) + 1}
         /\ \A i \in 1..Len(s) : (s \o w)[i] = s[i]
         /\ Len(s \o w) = Len(s) + 1 => Len(w) = 1 /\ (s \o w)[Len(s) + 1] = w[1]
<1> DEFINE t == s \o w
<1>1. /\ Len(t) = Len(s) + Len(w) /\ Len(s) \in Nat
      /\ \A i \in 1..(Len(s) + Len(w)) : t[i] = IF i <= Len(s) THEN s[i] ELSE w[i - Len(s)]
  BY ConcatProperties
<1> HIDE DEF t
<1>2. Len(t) \in {Len(s), Len(s) + 1} /\ (Len(t) = Len(s) + 1 => Len(w) = 1)
  BY <1>1
<1>3. \A i \in 1..Len(s) : t[i] = s[i]
  BY <1>1
<1>4. Len(t) = Len(s) + 1 => t[Len(s) + 1] = w[1]
  BY <1>1, <1>2
<1> QED
  BY <1>2, <1>3, <1>4 DEF t

LEMMA StoreGrows ==
  ASSUME TypeOK, HeldInv, NEW c \in Runs, Store(c)
  PROVE  \E file \in Names : Grows(c, file)
<1>1. PICK bad \in IF FileDue(c) THEN SUBSET (1..Dirs) ELSE {{}},
           wrote \in {<<Entry(c)>>, <<[Entry(c) EXCEPT !.is = "short"]>>, <<>>} :
        /\ File(c, bad) # NoName
        /\ files' = [files EXCEPT ![File(c, bad)] = @ \o wrote]
        /\ made' = made \cup {File(c, bad)}
        /\ filename' = [filename EXCEPT ![c] = File(c, bad)]
  BY DEF Store
<1>2. HasRecord(c) /\ bad \in SUBSET (1..Dirs)
  BY BadType DEF Store
<1>3. PICK file \in Names : file = File(c, bad)
  BY <1>1, <1>2, FileType
<1>4. file = filename[c] \/ file \notin made
  BY <1>1, <1>2, <1>3, FileType
<1>5. Entry(c) \in Entries
  <2>1. blk[c].rec \in 1..Len(records)
    BY <1>2, FileType
  <2>2. Len(records) \in Nat /\ Len(records) <= MaxRecords /\ MaxRecords \in Nat
    BY BoundsAssumption DEF TypeOK
  <2>3. blk[c].rec \in RecordIds
    BY <2>1, <2>2 DEF RecordIds
  <2> QED
    BY <2>3 DEF Entry, Entries
<1> DEFINE e == Entry(c)
           short == [e EXCEPT !.is = "short"]
<1>6. /\ short \in Entries /\ e.rec = blk[c].rec /\ short.rec = blk[c].rec /\ short.is = "short"
      /\ e.is = IF blk[c].live THEN "whole" ELSE "stale"
  BY <1>5 DEF Entry, Entries
<1> HIDE DEF e
<1>7. /\ wrote \in Seq(Entries) /\ Len(wrote) \in {0, 1}
      /\ Len(wrote) = 1 => wrote[1] \in {e, short}
  <2>1. wrote = <<e>> \/ wrote = <<short>> \/ wrote = <<>>
    BY DEF e
  <2>2. e \in Entries
    BY <1>5 DEF e
  <2> HIDE DEF short
  <2>3. CASE wrote = <<e>>
    BY <2>2, <2>3
  <2>4. CASE wrote = <<short>>
    BY <1>6, <2>4
  <2>5. CASE wrote = <<>>
    BY <2>5
  <2> QED
    BY <2>1, <2>3, <2>4, <2>5
<1> HIDE DEF short
<1>8. /\ files' = [files EXCEPT ![file] = files[file] \o wrote]
      /\ files \in [Names -> Seq(Entries)]
  BY <1>1, <1>3 DEF TypeOK
<1>9. files'[file] = files[file] \o wrote /\ \A n \in Names \ {file} : files'[n] = files[n]
  BY <1>8
<1> DEFINE s == files[file]
<1>10. s \in Seq(Entries) /\ Len(s) \in Nat
  BY <1>8
<1> HIDE DEF s
<1>11. /\ Len(s \o wrote) \in {Len(s), Len(s) + 1}
       /\ \A i \in 1..Len(s) : (s \o wrote)[i] = s[i]
       /\ Len(s \o wrote) = Len(s) + 1 =>
            Len(wrote) = 1 /\ (s \o wrote)[Len(s) + 1] = wrote[1]
  BY <1>7, <1>10, AtMostOneMore, ZenonT(40)
<1>12. Len(s \o wrote) = Len(s) + 1 => (s \o wrote)[Len(s) + 1] \in {e, short}
  BY <1>7, <1>11, Zenon
<1>13. Grows(c, file)
  BY <1>1, <1>3, <1>4, <1>6, <1>9, <1>11, <1>12 DEF Grows, s
<1> QED
  BY <1>13

LEMMA StoreStep ==
  ASSUME WriterInv, TypeOK', NEW c \in Runs, Store(c)
  PROVE  WriterInv'
<1>types. TypeOK /\ HeldInv /\ SentInv /\ NameInv /\ StoredInv /\ ProgramInv
  BY DEF WriterInv
<1>1. PICK file \in Names : Grows(c, file)
  BY <1>types, StoreGrows
<1> DEFINE old == files[file]
           new == files'[file]
           more == Len(old) + 1
<1>2. /\ HasRecord(c) /\ UNCHANGED <<program, up>>
      /\ blk' = [blk EXCEPT ![c].live = FALSE] /\ child' = [child EXCEPT ![c] = "recv"]
  BY DEF Store, Done
<1>3. /\ child[c] = "process" /\ child'[c] = "recv" /\ ~blk'[c].live /\ blk'[c].rec = blk[c].rec
      /\ \A d \in Runs \ {c} : up'[d] = up[d] /\ child'[d] = child[d] /\ blk'[d] = blk[d]
  BY <1>types, <1>2, FreedType DEF TypeOK, HasRecord
<1>4. SentInv' /\ HeldInv' /\ \A d \in Runs : Holds(d)
  <2>1. SentBy(c)' /\ HeldBy(c)' /\ Holds(c)
    BY <1>2, <1>3, OnwardStep DEF Looking
  <2> QED
    BY <1>2, <1>3, <2>1, OthersStep
<1>5. Kept /\ ProgramInv' /\ UNCHANGED <<run, prog, records>>
  BY <1>types, <1>2, ChildKeeps, ProgramInvKept DEF program
<1>6. /\ blk[c].rec \in 1..Len(records) /\ records[blk[c].rec].run = c
      /\ ~blk[c].live => Over(c) /\ up[c] = <<>>
  <2>1. blk[c].rec \in 1..Len(records)
    BY <1>types, <1>2, FileType
  <2>2. Own(c, blk[c].rec) /\ (Looking(c) /\ blk[c].num /\ ~blk[c].live => Over(c) /\ up[c] = <<>>)
    BY <1>types DEF HeldInv
  <2>3. Looking(c) /\ blk[c].num
    BY <1>2 DEF HasRecord, Looking
  <2> QED
    BY <2>1, <2>2, <2>3 DEF Own
<1>7. /\ old \in Seq(Entries) /\ Len(old) \in Nat /\ DOMAIN old = 1..Len(old)
      /\ new \in Seq(Entries) /\ Len(new) \in Nat /\ DOMAIN new = 1..Len(new)
      /\ \A n \in Names : DOMAIN files[n] = 1..Len(files[n])
  BY <1>types DEF TypeOK
<1>8. /\ \A n \in Names \ {file} : files'[n] = files[n]
      /\ made' = made \cup {file} /\ filename' = [filename EXCEPT ![c] = file]
      /\ file = filename[c] \/ file \notin made
  BY <1>1 DEF Grows
<1>length. Len(new) \in {Len(old), more}
  BY <1>1 DEF Grows
<1>kept. \A i \in 1..Len(old) : new[i] = old[i]
  BY <1>1 DEF Grows
<1>last. Len(new) = more => /\ new[more].rec = blk[c].rec
                            /\ new[more].is = "whole" => blk[c].live
                            /\ new[more].is = "stale" => ~blk[c].live
  BY <1>1 DEF Grows
<1>own. ASSUME NEW i \in 1..Len(old) PROVE records[old[i].rec].run = c
  <2>1. CASE file = filename[c]
    BY <1>types, <2>1 DEF NameInv, Of
  <2>2. CASE file \notin made
    BY <1>types, <2>2 DEF NameInv
  <2> QED
    BY <1>8, <2>1, <2>2
<1>stored. ASSUME NEW i \in 1..Len(old)
           PROVE  /\ old[i].rec <= Len(records) /\ old[i].rec <= blk[c].rec
                  /\ old[i].is = "whole" /\ blk[c].live => old[i].rec < blk[c].rec
                  /\ old[i].is # "stale"
  <2>1. Looking(c)
    BY <1>3 DEF Looking
  <2> QED
    BY <1>types, <1>own, <2>1 DEF StoredInv
<1> HIDE DEF old, new
<1>lens. Len(old) \in Nat /\ Len(new) \in Nat /\ more = Len(old) + 1
  BY <1>7
<1> HIDE DEF more
<1>split. \A i \in 1..Len(new) : i \in 1..Len(old) \/ (i = more /\ Len(new) = more)
  BY <1>lens, <1>length
<1>9. ASSUME NEW i \in 1..Len(new) PROVE records[new[i].rec].run = c
  <2>1. CASE i \in 1..Len(old)
    BY <1>own, <1>kept, <2>1
  <2>2. CASE i = more /\ Len(new) = more
    BY <1>6, <1>last, <2>2
  <2> QED
    BY <1>split, <2>1, <2>2
<1>10. NameInv'
  <2>1. filename \in [Runs -> Names \cup {NoName}]
    BY <1>types DEF TypeOK
  <2>2. \A d \in Runs \ {c} : filename'[d] = filename[d] /\ filename[d] # file
    BY <1>types, <1>8, <2>1, NoNameIsNoFile DEF NameInv
  <2>3. filename'[c] = file
    BY <1>8, <2>1
  <2>4. \A d \in Runs : filename'[d] # NoName => filename'[d] \in made'
    BY <1>types, <1>8, <2>2, <2>3 DEF NameInv
  <2>5. \A d, e \in Runs : filename'[d] = filename'[e] /\ filename'[d] # NoName => d = e
    BY <1>types, <2>2, <2>3 DEF NameInv
  <2>6. \A n \in Names : n \notin made' => files'[n] = <<>>
    BY <1>types, <1>8 DEF NameInv
  <2>7. ASSUME NEW d \in Runs, NEW n \in Names, filename'[d] = n, NEW i \in 1..Len(files'[n])
        PROVE  records'[files'[n][i].rec].run = d
    <3>1. CASE d = c
      BY <1>5, <1>9, <2>3, <2>7, <3>1 DEF new
    <3>2. CASE d # c
      <4>1. filename[d] = n /\ n # file
        BY <2>2, <2>7, <3>2
      <4>2. files'[n] = files[n]
        BY <1>8, <4>1
      <4> QED
        BY <1>types, <1>5, <4>1, <4>2 DEF NameInv, Of
    <3> QED
      BY <3>1, <3>2
  <2> QED
    BY <2>4, <2>5, <2>6, <2>7 DEF NameInv, Of
<1>11. StoredInv'
  <2>1. ASSUME NEW i \in 1..Len(new)
        PROVE  /\ new[i].rec <= Len(records') /\ new[i].rec <= blk'[c].rec
               /\ new[i].is = "stale" => up'[c] = <<>> /\ Over(c)' /\ ~Looking(c)'
    <3>1. CASE i \in 1..Len(old)
      BY <1>3, <1>5, <1>kept, <1>stored, <3>1
    <3>2. CASE i = more /\ Len(new) = more
      <4>1. new[i].rec = blk[c].rec /\ blk[c].rec \in Nat /\ blk[c].rec <= Len(records)
        <5>1. Len(records) \in Nat
          BY <1>types, RunIsNumber
        <5> QED
          BY <1>6, <1>last, <3>2, <5>1
      <4>2. ~Looking(c)' /\ (Over(c) => Over(c)')
        BY <1>3, <1>5 DEF Looking, Over
      <4> QED
        BY <1>2, <1>3, <1>5, <1>6, <1>last, <3>2, <4>1, <4>2
    <3> QED
      BY <1>split, <3>1, <3>2
  <2>2. ASSUME NEW n \in Names, NEW i \in 1..Len(files'[n])
        PROVE  LET e == files'[n][i]
                   d == records'[e.rec].run
               IN  /\ e.rec <= Len(records')
                   /\ e.rec <= blk'[d].rec
                   /\ e.is = "whole" /\ blk'[d].live => e.rec < blk'[d].rec
                   /\ e.is = "stale" => /\ up'[d] = <<>>
                                        /\ d < run' \/ prog' = "down"
                                        /\ child'[d] \notin {"ack", "process"}
    <3>1. CASE n = file
      BY <1>3, <1>5, <1>9, <2>1, <3>1 DEF new, Over, Looking
    <3>2. CASE n # file
      <4>1. files'[n] = files[n] /\ records' = records
        BY <1>5, <1>8, <3>2
      <4>2. PICK d \in Runs : d = Of(n, i).run
        BY <1>types, <4>1, OfType
      <4>3. LET e == files[n][i]
            IN  /\ e.rec <= Len(records')
                /\ e.rec <= blk'[d].rec
                /\ e.is = "whole" /\ blk'[d].live => e.rec < blk'[d].rec
                /\ e.is = "stale" => up'[d] = <<>> /\ Over(d)' /\ ~Looking(d)'
        BY <1>types, <1>4, <1>5, <4>1, <4>2, EntryKept
      <4> QED
        BY <4>1, <4>2, <4>3 DEF Of, Over, Looking
    <3> QED
      BY <3>1, <3>2
  <2> QED
    BY <2>2 DEF StoredInv, Over, Looking
<1>12. OneRunPerFile'
  <2>1. ASSUME NEW n \in Names, NEW i \in DOMAIN files'[n], NEW j \in DOMAIN files'[n]
        PROVE  records'[files'[n][i].rec].run = records'[files'[n][j].rec].run
    <3>1. CASE n = file
      BY <1>5, <1>7, <1>9, <3>1 DEF new
    <3>2. CASE n # file
      BY <1>5, <1>8, <3>2 DEF WriterInv, OneRunPerFile, Of
    <3> QED
      BY <3>1, <3>2
  <2> QED
    BY <2>1 DEF OneRunPerFile, Of
<1>13. InOrder'
  <2>1. ASSUME NEW i \in 1..Len(new), NEW j \in 1..Len(new), i < j,
               new[i].is = "whole", new[j].is = "whole"
        PROVE  new[i].rec < new[j].rec
    <3>1. i \in 1..Len(old)
      BY <1>lens, <1>length, <2>1
    <3>2. CASE j \in 1..Len(old)
      <4>1. old[i].is = "whole" /\ old[j].is = "whole" /\ new[i] = old[i] /\ new[j] = old[j]
        BY <1>kept, <2>1, <3>1, <3>2
      <4>2. i \in DOMAIN files[file] /\ j \in DOMAIN files[file]
        BY <1>7, <3>1, <3>2 DEF old
      <4> QED
        BY <2>1, <4>1, <4>2 DEF WriterInv, InOrder, old
    <3>3. CASE j = more /\ Len(new) = more
      <4>1. new[j].rec = blk[c].rec /\ blk[c].live
        BY <1>last, <2>1, <3>3
      <4> QED
        BY <1>kept, <1>stored, <2>1, <3>1, <4>1
    <3> QED
      BY <1>split, <3>2, <3>3
  <2>2. ASSUME NEW n \in Names, NEW i \in DOMAIN files'[n], NEW j \in DOMAIN files'[n], i < j,
               files'[n][i].is = "whole", files'[n][j].is = "whole"
        PROVE  files'[n][i].rec < files'[n][j].rec
    <3>1. CASE n = file
      BY <1>7, <2>1, <2>2, <3>1 DEF new
    <3>2. CASE n # file
      BY <1>8, <2>2, <3>2 DEF WriterInv, InOrder
    <3> QED
      BY <3>1, <3>2
  <2> QED
    BY <2>2 DEF InOrder
<1>14. StaleIsLast'
  <2>1. ASSUME NEW i \in 1..Len(new), new[i].is = "stale" PROVE i = Len(new) /\ Over(c)
    <3>1. CASE i \in 1..Len(old)
      BY <1>kept, <1>stored, <2>1, <3>1
    <3>2. CASE i = more /\ Len(new) = more
      BY <1>6, <1>last, <2>1, <3>2
    <3> QED
      BY <1>split, <3>1, <3>2
  <2>2. ASSUME NEW n \in Names, NEW i \in DOMAIN files'[n], files'[n][i].is = "stale"
        PROVE  /\ i = Len(files'[n])
               /\ records'[files'[n][i].rec].run < run' \/ prog' = "down"
    <3>1. CASE n = file
      BY <1>5, <1>7, <1>9, <2>1, <2>2, <3>1 DEF new, Over
    <3>2. CASE n # file
      BY <1>5, <1>8, <2>2, <3>2 DEF WriterInv, StaleIsLast, Of, Over
    <3> QED
      BY <3>1, <3>2
  <2> QED
    BY <2>2 DEF StaleIsLast, Of, Over
<1> QED
  BY <1>4, <1>5, <1>10, <1>11, <1>12, <1>13, <1>14 DEF WriterInv

-----------------------------------------------------------------------------
LEMMA WriterInit == Init => WriterInv
<1> SUFFICES ASSUME Init PROVE WriterInv
  OBVIOUS
<1>1. TypeOK
  BY TypeInit
<1>2. /\ records = <<>> /\ Len(records) = 0 /\ prog = "down" /\ ~asked
      /\ \A c \in Runs : /\ up[c] = <<>> /\ child[c] = "none" /\ filename[c] = NoName
                          /\ blk[c].rec = 0 /\ ~blk[c].live
      /\ \A n \in Names : files[n] = <<>> /\ Len(files[n]) = 0 /\ DOMAIN files[n] = {}
  BY DEF Init
<1>3. ProgramInv
  BY <1>2 DEF ProgramInv, Pending
<1>4. SentInv
  BY <1>2 DEF SentInv
<1>5. HeldInv
  BY <1>2 DEF HeldInv, Own, Unsent, Pending, Looking
<1>6. NameInv /\ StoredInv
  BY <1>2, NoNameIsNoFile DEF NameInv, StoredInv
<1>7. OneRunPerFile /\ InOrder /\ StaleIsLast
  BY <1>2 DEF OneRunPerFile, InOrder, StaleIsLast
<1> QED
  BY <1>1, <1>3, <1>4, <1>5, <1>6, <1>7 DEF WriterInv

LEMMA WriterStep == WriterInv /\ [Next]_vars => WriterInv'
<1> SUFFICES ASSUME WriterInv, [Next]_vars PROVE WriterInv'
  OBVIOUS
<1>1. TypeOK'
  BY TypeStep DEF WriterInv
<1>2. CASE UNCHANGED vars
  <2>1. UNCHANGED <<run, prog, asked, records, up, child, filename, blk, files, made>>
    BY <1>2 DEF vars, program, locals, disk
  <2>2. ProgramInv' /\ SentInv' /\ HeldInv'
    BY <2>1 DEF WriterInv, ProgramInv, SentInv, HeldInv, Own, Over, Cut, Looking, Unsent, Pending
  <2>3. NameInv'
    BY <2>1 DEF WriterInv, NameInv, Of
  <2>5. StoredInv'
    BY <2>1, ZenonT(30) DEF WriterInv, StoredInv, Over, Looking
  <2>4. OneRunPerFile' /\ InOrder' /\ StaleIsLast'
    BY <2>1 DEF WriterInv, OneRunPerFile, InOrder, StaleIsLast, Of, Over
  <2> QED
    BY <1>1, <2>2, <2>3, <2>4, <2>5 DEF WriterInv
<1>3. CASE Start \/ Integrate \/ Send \/ Answer \/ Unanswered \/ Broken \/ Stop
  BY <1>1, <1>3, ProgramStep
<1>4. CASE \E c \in Runs : Child(c) \/ NoOpen(c) \/ Crash(c)
  BY <1>1, <1>4, FilesSameStep, StoreStep DEF Child
<1> QED
  BY <1>2, <1>3, <1>4 DEF Next

LEMMA WriterInvariant == Spec => []WriterInv
  BY WriterInit, WriterStep, PTL DEF Spec

(* The state stays within its types. *)
THEOREM TypeCorrect == Spec => []TypeOK
<1>1. WriterInv => TypeOK
  BY DEF WriterInv
<1> QED
  BY <1>1, WriterInvariant, PTL

(* Two runs of the control program never write to one file, however they   *)
(* overlap and whichever directories fail.                                 *)
THEOREM OneRunPerFileCorrect == Spec => []OneRunPerFile
<1>1. WriterInv => OneRunPerFile
  BY DEF WriterInv
<1> QED
  BY <1>1, WriterInvariant, PTL

(* The records of a file are in the order they were made, none twice.      *)
THEOREM InOrderCorrect == Spec => []InOrder
<1>1. WriterInv => InOrder
  BY DEF WriterInv
<1> QED
  BY <1>1, WriterInvariant, PTL

(* What is made of a message that broke off ends its file, and its program *)
(* is gone.                                                                *)
THEOREM StaleIsLastCorrect == Spec => []StaleIsLast
<1>1. WriterInv => StaleIsLast
  BY DEF WriterInv
<1> QED
  BY <1>1, WriterInvariant, PTL

-----------------------------------------------------------------------------
(***************************************************************************)
(* The clock and the period.                                               *)
(***************************************************************************)
LEMMA Division ==
  ASSUME NEW a \in Nat, NEW d \in Nat \ {0}
  PROVE  a \div d \in Nat /\ a % d \in 0..(d - 1) /\ a = d * (a \div d) + (a % d)
  OBVIOUS

LEMMA Times ==
  ASSUME NEW d \in Nat, NEW x \in Int, NEW y \in Int, x <= y
  PROVE  d * x <= d * y /\ d * x \in Int /\ d * y \in Int
  OBVIOUS

(* Two seconds that are no more than a scan apart are in one period of the *)
(* day only if they are in one period.                                     *)
LEMMA PeriodOfScan ==
  ASSUME NEW s \in Nat, NEW t \in Nat, s <= t, t <= s + Beams, NowPeriod(s) = NowPeriod(t)
  PROVE  Period(s) = Period(t)
<1> DEFINE p == Period(s)
           q == Period(t)
<1>1. /\ PeriodLen \in Nat \ {0} /\ Periods \in Nat \ {0} /\ Beams \in Nat
      /\ Beams <= (Periods - 1) * PeriodLen
  BY BoundsAssumption, ScanAssumption
<1>2. PICK a \in 0..(PeriodLen - 1) : s = PeriodLen * p + a
  BY <1>1, Division DEF Period
<1>3. PICK b \in 0..(PeriodLen - 1) : t = PeriodLen * q + b
  BY <1>1, Division DEF Period
<1>4. p \in Nat /\ q \in Nat
  BY <1>1, Division DEF Period
<1>5. PICK m \in 0..(Periods - 1), i \in Nat, j \in Nat :
        p = Periods * i + m /\ q = Periods * j + m
  <2>1. p % Periods = q % Periods
    BY DEF NowPeriod
  <2> HIDE DEF p, q
  <2>2. /\ p \div Periods \in Nat /\ q \div Periods \in Nat /\ p % Periods \in 0..(Periods - 1)
        /\ p = Periods * (p \div Periods) + (p % Periods)
        /\ q = Periods * (q \div Periods) + (q % Periods)
    BY <1>1, <1>4, Division
  <2> QED
    BY <2>1, <2>2
<1> HIDE DEF p, q
<1>6. ~(q <= p - 1)
  <2> SUFFICES ASSUME q <= p - 1 PROVE FALSE
    OBVIOUS
  <2>1. PeriodLen * q <= PeriodLen * (p - 1) /\ PeriodLen * q \in Int
    BY <1>1, <1>4, Times
  <2>2. PeriodLen * (p - 1) = PeriodLen * p - PeriodLen /\ PeriodLen * p \in Int
    BY <1>1, <1>4
  <2> QED
    BY <1>1, <1>2, <1>3, <1>4, <2>1, <2>2
<1>7. ~(p <= q - Periods)
  <2> SUFFICES ASSUME p <= q - Periods PROVE FALSE
    OBVIOUS
  <2>1. PeriodLen * (p + Periods) <= PeriodLen * q /\ PeriodLen * q \in Int
    BY <1>1, <1>4, Times
  <2>2. PeriodLen * (p + Periods) = PeriodLen * p + (Periods - 1) * PeriodLen + PeriodLen
    BY <1>1, <1>4
  <2>3. PeriodLen * p \in Int /\ (Periods - 1) * PeriodLen \in Int
    BY <1>1, <1>4
  <2> QED
    BY <1>1, <1>2, <1>3, <2>1, <2>2, <2>3
<1>8. i <= j - 1 => p <= q - Periods
  <2> SUFFICES ASSUME i <= j - 1 PROVE p <= q - Periods
    OBVIOUS
  <2>1. Periods * i <= Periods * (j - 1) /\ Periods * i \in Int
    BY <1>1, <1>5, Times
  <2>2. Periods * (j - 1) = Periods * j - Periods /\ Periods * j \in Int
    BY <1>1, <1>5
  <2> QED
    BY <1>1, <1>5, <2>1, <2>2
<1>9. j <= i - 1 => q <= p - 1
  <2> SUFFICES ASSUME j <= i - 1 PROVE q <= p - 1
    OBVIOUS
  <2>1. Periods * j <= Periods * (i - 1) /\ Periods * j \in Int
    BY <1>1, <1>5, Times
  <2>2. Periods * (i - 1) = Periods * i - Periods /\ Periods * i \in Int
    BY <1>1, <1>5
  <2> QED
    BY <1>1, <1>5, <2>1, <2>2
<1>10. i = j
  BY <1>5, <1>6, <1>7, <1>8, <1>9
<1> QED
  BY <1>5, <1>10 DEF p, q

(* What a record tells. *)
LEMMA RecordType ==
  ASSUME TypeOK, NEW r \in 1..Len(records)
  PROVE  /\ records[r] \in Made /\ records[r].sec \in Nat /\ records[r].first \in BOOLEAN
         /\ records[r].run \in Nat
<1>1. records[r] \in Made
  BY ElementOfSeq DEF TypeOK
<1> QED
  BY <1>1, BoundsAssumption DEF Made, Clock

(* NowPeriod is never the -1 that "then" begins with. *)
LEMMA NowPeriodType == ASSUME NEW t \in Nat PROVE NowPeriod(t) \in Nat
<1>1. Period(t) \in Nat
  BY BoundsAssumption, Division DEF Period
<1> QED
  BY <1>1, BoundsAssumption, Division DEF NowPeriod

(* An integration: the record made, and the beams of the scan so far.      *)
LEMMA Integration ==
  ASSUME TypeOK, ProgramInv, Integrate
  PROVE  \E t \in Nat :
           /\ t \in {clock, clock + 1} /\ clock \in Nat /\ clock' = t
           /\ then' = IF beam = 0 THEN NowPeriod(t) ELSE then
           /\ prog' = IF beam = 0 /\ then \notin {-1, NowPeriod(t)} THEN "close" ELSE "data"
           /\ Len(records') = Len(records) + 1
           /\ \A r \in 1..Len(records) : records'[r] = records[r]
           /\ records'[Len(records) + 1].run = run
           /\ records'[Len(records) + 1].sec = t
           /\ records'[Len(records) + 1].first <=> beam = 0
           /\ beam' = NextBeam(beam)
           /\ prog = "scan" /\ ~asked /\ run \in Runs /\ run \in Nat
           /\ UNCHANGED <<run, asked, acked, up, down, child, locals, disk>>
<1>1. run \in Runs /\ prog = "scan" /\ ~asked /\ run \in Nat
  BY RunIsNumber DEF Integrate, ProgramInv
<1>2. PICK t \in {clock, clock + 1} \cap Clock :
        /\ clock' = t
        /\ records' = Append(records, [run |-> run, sec |-> t, first |-> beam = 0])
        /\ then' = IF beam = 0 THEN NowPeriod(t) ELSE then
        /\ prog' = IF beam = 0 /\ then \notin {-1, NowPeriod(t)} THEN "close" ELSE "data"
  BY DEF Integrate
<1> DEFINE x == [run |-> run, sec |-> t, first |-> beam = 0]
<1>3. x \in Made /\ x.run = run /\ x.sec = t /\ (x.first <=> beam = 0)
  BY <1>1, Zenon DEF Made
<1> HIDE DEF x
<1>4. records \in Seq(Made) /\ records' = Append(records, x)
  BY <1>2 DEF x, TypeOK
<1>5. /\ Len(records') = Len(records) + 1 /\ records'[Len(records) + 1] = x
      /\ \A r \in 1..Len(records) : records'[r] = records[r]
  BY <1>3, <1>4, AppendProperties
<1>6. t \in Nat /\ clock \in Nat
  BY BoundsAssumption DEF TypeOK, Clock
<1>7. beam' = NextBeam(beam) /\ UNCHANGED <<run, asked, acked, up, down, child, locals, disk>>
  BY DEF Integrate
<1> QED
  BY <1>1, <1>2, <1>3, <1>5, <1>6, <1>7

(* The record that begins a scan is the last one that did.                 *)
LEMMA OneLastStart ==
  ASSUME TypeOK, NEW f, NEW g, LastStart(f), LastStart(g)
  PROVE  f = g
  BY RunIsNumber DEF LastStart

LEMMA ThenIntegrate ==
  ASSUME TypeOK, ProgramInv, ThenInv, Integrate
  PROVE  ThenInv'
<1>l. PICK l \in Nat : l = Len(records)
  BY RunIsNumber
<1>1. PICK t \in Nat :
           /\ t \in {clock, clock + 1} /\ clock \in Nat /\ clock' = t
           /\ then' = IF beam = 0 THEN NowPeriod(t) ELSE then
           /\ prog' = IF beam = 0 /\ then \notin {-1, NowPeriod(t)} THEN "close" ELSE "data"
           /\ Len(records') = l + 1
           /\ \A r \in 1..l : records'[r] = records[r]
           /\ records'[l + 1].run = run
           /\ records'[l + 1].sec = t
           /\ records'[l + 1].first <=> beam = 0
           /\ beam' = NextBeam(beam)
           /\ prog = "scan" /\ run \in Nat /\ run' = run
  BY <1>l, Integration, Zenon
<1>2. l = Len(records) /\ Beams \in Nat \ {0}
  BY <1>l, BoundsAssumption
<1>3. NowPeriod(t) \in Nat
  BY NowPeriodType
<1>4. CASE beam = 0
  <2>1. LastStart(l + 1)'
    BY <1>1, <1>2, <1>4 DEF LastStart
  <2>2. NextBeam(0) = beam' /\ Len(records') - (l + 1) = 0
    BY <1>1, <1>2, <1>4
  <2>3. Since(l + 1)'
    BY <1>1, <1>2, <1>4, <2>1, <2>2 DEF Since
  <2>4. then' # -1 /\ prog' \in {"close", "data"} /\ records'[Len(records')].first
    BY <1>1, <1>3, <1>4
  <2>5. l + 1 \in 1..Len(records')
    BY <1>1, <1>2
  <2> QED
    BY <2>3, <2>4, <2>5 DEF ThenInv
<1>5. CASE beam # 0
  <2>1. then' = then /\ then # -1 /\ prog' = "data"
    BY <1>1, <1>5 DEF ThenInv
  <2>2. PICK f \in 1..l : Since(f)
    BY <1>1, <1>2, <2>1 DEF ThenInv
  <2>3. f \in Nat /\ f <= l /\ records'[f] = records[f] /\ records[f].sec \in Nat
    BY <1>1, <1>2, RecordType
  <2>4. LastStart(f) /\ LastStart(f)'
    <3>1. LastStart(f)
      BY <2>2 DEF Since
    <3>2. \A r \in (f + 1)..(l + 1) : ~records'[r].first
      <4> SUFFICES ASSUME NEW r \in (f + 1)..(l + 1) PROVE ~records'[r].first
        OBVIOUS
      <4>1. CASE r = l + 1
        BY <1>1, <1>5, <4>1
      <4>2. CASE r # l + 1
        <5>1. r \in (f + 1)..l /\ r \in 1..l
          BY <1>2, <2>3, <4>2
        <5> QED
          BY <1>1, <1>2, <3>1, <5>1 DEF LastStart
      <4> QED
        BY <4>1, <4>2
    <3> QED
      BY <1>1, <1>2, <2>3, <3>1, <3>2 DEF LastStart
  <2>5. beam = NextBeam(l - f) /\ l - f \in Nat /\ l - f < Beams
    BY <1>2, <2>2, <2>3 DEF Since
  <2>6. l - f + 1 < Beams /\ beam = l - f + 1
    <3>1. (l - f + 1) % Beams = beam /\ l - f + 1 <= Beams /\ l - f + 1 \in Nat
      BY <1>2, <2>5 DEF NextBeam
    <3>2. l - f + 1 # Beams
      BY <1>2, <1>5, <3>1
    <3> QED
      BY <1>2, <3>1, <3>2
  <2>7. Len(records') - f = l - f + 1 /\ beam' = NextBeam(Len(records') - f)
    BY <1>1, <1>2, <2>3, <2>6
  <2>8. records'[f].sec <= clock' /\ clock' <= records'[f].sec + (Len(records') - f)
    BY <1>1, <1>2, <2>2, <2>3, <2>7 DEF Since
  <2>9. Since(f)'
    BY <1>1, <2>1, <2>2, <2>3, <2>4, <2>6, <2>7, <2>8 DEF Since
  <2>10. f \in 1..Len(records')
    BY <1>1, <1>2, <2>3
  <2> QED
    BY <2>1, <2>9, <2>10 DEF ThenInv
<1> QED
  BY <1>4, <1>5

LEMMA ThenStep ==
  ASSUME TypeOK, ProgramInv, ThenInv,
         Start \/ Integrate \/ Send \/ Answer \/ Unanswered \/ Broken \/ Stop
  PROVE  ThenInv'
<1>1. run \in Nat /\ Len(records) \in Nat
  BY RunIsNumber
<1>2. CASE Start
  <2>1. \A r \in 1..Len(records) : records[r].run \in Nat /\ records[r].run < run + 1
    BY <1>1, RecordType DEF ProgramInv
  <2>2. /\ UNCHANGED records /\ run' = run + 1 /\ then' = -1 /\ beam' = 0 /\ prog' = "reset"
    BY <1>2 DEF Start
  <2> QED
    BY <2>1, <2>2 DEF ThenInv
<1>3. CASE Integrate
  BY <1>3, ThenIntegrate
<1>4. CASE Send \/ Answer \/ Unanswered
  <2>1. UNCHANGED <<run, then, beam, clock, records>> /\ prog # "down"
    BY <1>4 DEF Send, Answer, Unanswered, ProgramInv
  <2>2. prog' = prog \/ (prog' = NextPlace /\ prog \in Sending)
    BY <1>4 DEF Send, Answer, Unanswered, ProgramInv
  <2>3. /\ prog' \in {"reset", "open"} => prog \in {"reset", "open"}
        /\ prog' \in {"close", "reopen"} => prog \in {"close", "reopen"}
    BY <2>2 DEF NextPlace
  <2>4. \A f : Since(f) => Since(f)'
    BY <2>1 DEF Since, LastStart
  <2> QED
    BY <2>1, <2>3, <2>4 DEF ThenInv
<1>5. CASE Broken \/ Stop
  BY <1>5 DEF Broken, Stop, End, ThenInv
<1> QED
  BY <1>2, <1>3, <1>4, <1>5

-----------------------------------------------------------------------------
(***************************************************************************)
(* One request at a time.                                                  *)
(***************************************************************************)
LEMMA DownType ==
  ASSUME TypeOK, NEW c \in Runs
  PROVE  down[c] \in Seq(Replies) /\ Len(down[c]) \in Nat
  BY DEF TypeOK

(* What is added to the current run's own queue. *)
LEMMA SentFirst ==
  ASSUME TypeOK, run \in Runs, up[run] = <<>>, NEW m, up' = [up EXCEPT ![run] = Append(@, m)]
  PROVE  up'[run] = <<m>> /\ Len(up'[run]) = 1 /\ up'[run] # <<>> /\ up'[run][1] = m
<1>1. up'[run] = Append(<<>>, m)
  BY DEF TypeOK
<1>2. Append(<<>>, m) = <<m>>
  OBVIOUS
<1> QED
  BY <1>1, <1>2

(* The others are not disturbed. *)
LEMMA UpOther ==
  ASSUME TypeOK, ProgramInv,
         Start \/ Integrate \/ Send \/ Answer \/ Unanswered \/ Broken \/ Stop,
         NEW c \in Runs
  PROVE  /\ c # run => up'[c] = up[c] /\ down'[c] = down[c]
         /\ ~Start => child'[c] = child[c]
         /\ c # run + 1 => child'[c] = child[c]
         /\ UNCHANGED <<flg, filename, blk>>
<1>1. UNCHANGED <<flg, filename, blk>>
  BY DEF Start, Integrate, Send, Answer, Unanswered, Broken, Stop, End, locals
<1>2. CASE Start
  BY <1>1, <1>2 DEF Start, TypeOK
<1>3. CASE ~Start
  <2>1. UNCHANGED child
    BY <1>3 DEF Integrate, Send, Answer, Unanswered, Broken, Stop, End
  <2>2. down' = down \/ down' = [down EXCEPT ![run] = Tail(@)]
    BY <1>3 DEF Integrate, Send, Answer, Unanswered, Broken, Stop, End
  <2>3. c # run => down'[c] = down[c]
    BY <2>2 DEF TypeOK
  <2>4. c # run => up'[c] = up[c]
    <3>1. CASE Send
      BY <3>1 DEF Send, TypeOK
    <3>2. CASE Stop
      BY <3>2 DEF Stop, TypeOK
    <3>3. CASE Integrate \/ Answer \/ Unanswered \/ Broken
      BY <3>3 DEF Integrate, Answer, Unanswered, Broken, End
    <3> QED
      BY <1>3, <3>1, <3>2, <3>3
  <2> QED
    BY <1>1, <2>1, <2>3, <2>4
<1> QED
  BY <1>2, <1>3

LEMMA TurnStep ==
  ASSUME TypeOK, ProgramInv, SentInv, HeldInv, \A d \in Runs : Turn(d),
         Start \/ Integrate \/ Send \/ Answer \/ Unanswered \/ Broken \/ Stop,
         NEW c \in Runs
  PROVE  Turn(c)'
<1>1. run \in Nat /\ c \in Nat /\ Turn(c) /\ down[c] \in Seq(Replies)
  BY RunIsNumber, DownType
<1>2. /\ c # run => up'[c] = up[c] /\ down'[c] = down[c]
      /\ ~Start => child'[c] = child[c]
      /\ c # run + 1 => child'[c] = child[c]
  BY UpOther
<1>3. CASE Start
  <2>1. run' = run + 1 /\ UNCHANGED <<up, down>> /\ ~asked' /\ child' = [child EXCEPT ![run + 1] = "recv"]
    BY <1>3 DEF Start, ProgramInv
  <2>2. CASE c = run + 1
    <3>1. up[c] = <<>> /\ down[c] = <<>>
      BY <1>1, <2>2 DEF SentInv, Turn
    <3>2. child'[c] = "recv"
      BY <2>1, <2>2 DEF TypeOK
    <3> QED
      BY <2>1, <3>1, <3>2 DEF Turn, Served, Answering
  <2>3. CASE c # run + 1
    <3>1. ~Served(c)'
      BY <2>1, <2>3 DEF Served
    <3> QED
      BY <1>1, <1>2, <2>1, <2>3, <3>1 DEF Turn
  <2> QED
    BY <2>2, <2>3
<1>4. CASE c # run /\ ~Start
  <2>1. run' = run /\ up'[c] = up[c] /\ down'[c] = down[c] /\ child'[c] = child[c]
    BY <1>2, <1>4 DEF Integrate, Send, Answer, Unanswered, Broken, Stop, End
  <2>2. ~Served(c)'
    BY <1>4, <2>1 DEF Served
  <2> QED
    BY <1>1, <2>1, <2>2 DEF Turn
<1>5. CASE c = run /\ ~Start
  <2> USE <1>5
  <2>1. CASE Integrate
    <3>1. prog = "scan" /\ ~asked /\ UNCHANGED <<run, asked, up, down, child>>
      BY <2>1 DEF Integrate, ProgramInv
    <3> QED
      BY <1>1, <3>1 DEF Turn, Served, Answering
  <2>2. CASE Send
    <3>1. /\ UNCHANGED <<run, prog, records, down, child>> /\ ~asked /\ asked' /\ prog # "down"
          /\ up' = [up EXCEPT ![run] = Append(@, Request(Pieces(Kind(prog))))]
      BY <2>2 DEF Send
    <3>2. CASE child[c] = "gone"
      BY <1>1, <3>1, <3>2 DEF Turn, Served
    <3>3. CASE child[c] # "gone"
      <4>1. up[c] = <<>> /\ down[c] = <<>> /\ ~Answering(c)
        BY <1>1, <3>1, <3>3 DEF Turn, Served
      <4>2. /\ Len(up'[c]) = 1 /\ up'[c] # <<>>
            /\ up'[c][1] = Request(Pieces(Kind(prog)))
        BY <3>1, <4>1, SentFirst
      <4>3. Request(Pieces(Kind(prog)))' = Request(Pieces(Kind(prog)))
        BY <3>1 DEF Request, Pieces, Kind
      <4> QED
        BY <3>1, <4>1, <4>2, <4>3 DEF Turn, Served, Answering
    <3> QED
      BY <3>2, <3>3
  <2>3. CASE Answer
    <3>1. /\ UNCHANGED <<run, up, child>> /\ asked /\ ~asked' /\ down[c] # <<>>
          /\ down' = [down EXCEPT ![run] = Tail(@)] /\ prog # "down"
      BY <2>3 DEF Answer, ProgramInv
    <3>2. down'[c] = Tail(down[c])
      BY <3>1 DEF TypeOK
    <3>3. CASE child[c] = "gone"
      <4>1. down[c] # <<>> => c <= run
        BY <1>1 DEF Turn
      <4> QED
        BY <3>1, <3>3, <4>1 DEF Turn, Served
    <3>4. CASE child[c] # "gone"
      <4>1. up[c] = <<>> /\ ~Answering(c) /\ Len(down[c]) = 1
        BY <1>1, <3>1, <3>4 DEF Turn, Served
      <4>2. down'[c] = <<>>
        <5>1. Tail(down[c]) \in Seq(Replies) /\ Len(Tail(down[c])) = 0
          BY <1>1, <3>1, <4>1, HeadTailProperties
        <5> QED
          BY <3>2, <5>1, EmptySeq
      <4> QED
        BY <3>1, <4>1, <4>2 DEF Turn, Served, Answering
    <3> QED
      BY <3>3, <3>4
  <2>4. CASE Unanswered
    <3>1. UNCHANGED <<run, up, down, child>> /\ child[c] = "gone"
      BY <2>4 DEF Unanswered
    <3> QED
      BY <1>1, <3>1 DEF Turn, Served
  <2>5. CASE Broken
    <3>1. UNCHANGED <<run, up, down, child>> /\ prog' = "down"
      BY <2>5 DEF Broken, End
    <3> QED
      BY <1>1, <3>1 DEF Turn, Served
  <2>6. CASE Stop
    <3>1. UNCHANGED <<run, down, child>> /\ prog' = "down" /\ prog # "down"
      BY <2>6 DEF Stop, End
    <3>2. child[c] # "gone" => Len(up'[c]) <= 1
      <4>1. CASE up'[c] = up[c]
        BY <1>1, <4>1 DEF Turn
      <4>2. CASE up'[c] # up[c] /\ child[c] # "gone"
        <5>1. ~asked /\ \E k \in 1..(Pieces(Kind(prog)) - 1) :
                up' = [up EXCEPT ![run] = Append(@, Request(k))]
          BY <2>6, <4>2 DEF Stop
        <5>2. PICK m : up' = [up EXCEPT ![run] = Append(@, m)]
          BY <5>1
        <5>3. up[run] = <<>>
          BY <1>1, <3>1, <4>2, <5>1 DEF Turn, Served
        <5> QED
          BY <5>2, <5>3, SentFirst
      <4> QED
        BY <4>1, <4>2
    <3> QED
      BY <1>1, <3>1, <3>2 DEF Turn, Served
  <2> QED
    BY <2>1, <2>2, <2>3, <2>4, <2>5, <2>6
<1> QED
  BY <1>3, <1>4, <1>5

-----------------------------------------------------------------------------
(***************************************************************************)
(* What the child's file is for, when the program takes a step.            *)
(***************************************************************************)
(* The record a child holds is there. *)
LEMMA HeldRecord ==
  ASSUME TypeOK, HeldInv, NEW c \in Runs
  PROVE  /\ blk[c].rec \in Nat
         /\ blk[c].rec # 0 => blk[c].rec \in 1..Len(records) /\ records[blk[c].rec].run = c
  BY BlockType, RunIsNumber DEF HeldInv, Own

(* A run without records has no file. *)
LEMMA NoRecordNoFile ==
  ASSUME TypeOK, HeldInv, NEW c \in Runs, \A r \in 1..Len(records) : records[r].run # c,
         Aim(c), child[c] # "gone"
  PROVE  blk[c].rec = 0 /\ filename[c] = NoName /\ ~Aimed(c)
<1>1. blk[c].rec = 0
  BY HeldRecord
<1>2. filename[c] = NoName
  BY <1>1 DEF Aim
<1> QED
  BY <1>1, <1>2 DEF Aimed

LEMMA FirstScan ==
  ASSUME TypeOK, ProgramInv, HeldInv, ThenInv, NEW c \in Runs, Aim(c), Served(c), then = -1
  PROVE  blk[c].rec = 0 /\ filename[c] = NoName /\ ~Aimed(c)
<1>1. \A r \in 1..Len(records) : records[r].run < c /\ records[r].run \in Nat
  BY RecordType DEF ThenInv, Served
<1>2. \A r \in 1..Len(records) : records[r].run # c
  BY <1>1, BoundsAssumption
<1> QED
  BY <1>2, NoRecordNoFile DEF Served

(* A child that does nothing has the file it had. *)
LEMMA SameAim ==
  ASSUME TypeOK, HeldInv, Kept, NEW c \in Runs,
         filename'[c] = filename[c], flg'[c] = flg[c], blk'[c].rec = blk[c].rec,
         Looking(c)' <=> Looking(c)
  PROVE  /\ Aimed(c)' <=> Aimed(c)
         /\ Aimed(c) => AimedSec(c)' = AimedSec(c)
         /\ Aimed(c) => \A r \in 1..Len(records) : Fits(c, r)' <=> Fits(c, r)
<1>1. Aimed(c)' <=> Aimed(c)
  BY DEF Aimed, FileDue
<1>2. ASSUME Aimed(c) PROVE AimedSec(c)' = AimedSec(c)
  <2>1. CASE filename[c] # NoName
    BY <2>1 DEF AimedSec
  <2>2. CASE filename[c] = NoName
    <3>1. blk[c].rec \in 1..Len(records)
      BY <1>2, <2>2, HeldRecord DEF Aimed
    <3> QED
      BY <2>2, <3>1 DEF AimedSec, Kept
  <2> QED
    BY <2>1, <2>2
<1>3. ASSUME Aimed(c), NEW r \in 1..Len(records) PROVE Fits(c, r)' <=> Fits(c, r)
  BY <1>2, <1>3 DEF Fits, Kept
<1> QED
  BY <1>1, <1>2, <1>3

(* The records a child is sent are there. *)
LEMMA SentRecord ==
  ASSUME TypeOK, SentInv, NEW c \in Runs, NEW i \in 1..Len(up[c]), up[c][i].kind = "data"
  PROVE  up[c][i].rec \in 1..Len(records) /\ records[up[c][i].rec].run = c
<1>1. up[c][i].rec \in Nat /\ blk[c].rec \in Nat /\ Len(records) \in Nat
  BY MessageType, BlockType, RunIsNumber
<1>2. up[c][i].rec > blk[c].rec /\ Own(c, up[c][i].rec)
  BY DEF SentInv
<1> QED
  BY <1>1, <1>2 DEF Own

(* What fits goes on to fit. *)
LEMMA AimSame ==
  ASSUME TypeOK, HeldInv, SentInv, Kept, NEW c \in Runs, Aim(c),
         filename'[c] = filename[c], flg'[c] = flg[c], blk'[c].rec = blk[c].rec,
         Looking(c)' <=> Looking(c), child[c] # "gone",
         \A i \in 1..Len(up'[c]) : up'[c][i].kind = "data" /\ up'[c][i].pieces = 5 =>
           (i \in 1..Len(up[c]) /\ up'[c][i] = up[c][i]) \/ (Aimed(c) => Fits(c, up[c][i].rec)'),
         Aimed(c) /\ Served(c)' /\ prog' \in {"scan", "data"} =>
           \A f \in 1..Len(records') : LastStart(f)' => Fits(c, f)'
  PROVE  Aim(c)'
<1>1. /\ Aimed(c)' <=> Aimed(c)
      /\ Aimed(c) => \A r \in 1..Len(records) : Fits(c, r)' <=> Fits(c, r)
  BY SameAim
<1>2. filename'[c] # NoName => blk'[c].rec # 0
  BY DEF Aim
<1> SUFFICES ASSUME Aimed(c)
             PROVE  /\ Fits(c, blk[c].rec)'
                    /\ \A i \in 1..Len(up'[c]) :
                         up'[c][i].kind = "data" /\ up'[c][i].pieces = 5 => Fits(c, up[c][i].rec)'
  BY <1>1, <1>2 DEF Aim
<1>3. Fits(c, blk[c].rec)'
  <2>1. blk[c].rec # 0
    BY DEF Aim, Aimed
  <2>2. PICK r \in 1..Len(records) : r = blk[c].rec
    BY <2>1, HeldRecord
  <2>3. Fits(c, r)'
    BY <1>1, <2>2 DEF Aim
  <2> QED
    BY <2>2, <2>3 DEF Fits
<1>4. ASSUME NEW i \in 1..Len(up'[c]), up'[c][i].kind = "data", up'[c][i].pieces = 5
      PROVE  Fits(c, up[c][i].rec)'
  <2>1. CASE i \in 1..Len(up[c]) /\ up'[c][i] = up[c][i]
    <3>1. PICK r \in 1..Len(records) : r = up[c][i].rec
      BY <1>4, <2>1, SentRecord
    <3>2. Fits(c, r)
      BY <1>4, <2>1, <3>1 DEF Aim
    <3>3. Fits(c, r)'
      BY <1>1, <3>2
    <3> QED
      BY <2>1, <3>1, <3>3 DEF Fits
  <2> QED
    BY <1>4, <2>1
<1> QED
  BY <1>3, <1>4

(* An integration: the record fits the open file, or the file is closed.   *)
LEMMA AimIntegrate ==
  ASSUME TypeOK, ProgramInv, HeldInv, SentInv, ThenInv, Kept, NEW c \in Runs, Aim(c), Integrate,
         c = run, child[c] # "gone", Aimed(c), prog' \in {"scan", "data"},
         NEW f \in 1..Len(records'), LastStart(f)'
  PROVE  Fits(c, f)'
<1>l. PICK l \in Nat : l = Len(records)
  BY RunIsNumber
<1>1. PICK t \in Nat :
        /\ t \in {clock, clock + 1} /\ clock \in Nat
        /\ prog' = IF beam = 0 /\ then \notin {-1, NowPeriod(t)} THEN "close" ELSE "data"
        /\ Len(records') = l + 1
        /\ \A r \in 1..l : records'[r] = records[r]
        /\ records'[l + 1].sec = t
        /\ records'[l + 1].first <=> beam = 0
        /\ prog = "scan" /\ UNCHANGED <<run, child, locals>>
  BY <1>l, Integration, Zenon
<1>2. Served(c)
  BY <1>1 DEF Served
<1>3. then # -1
  BY <1>2, FirstScan
<1>4. PICK g \in 1..l : Since(g)
  BY <1>l, <1>1, <1>3 DEF ThenInv
<1>5. g \in Nat /\ g <= l /\ records[g].sec \in Nat /\ LastStart(g) /\ Fits(c, g) /\ records[g].first
  BY <1>l, <1>1, <1>2, <1>4, RecordType DEF Aim, Since, LastStart
<1>6. /\ AimedSec(c)' = AimedSec(c)
      /\ \A r \in 1..l : Fits(c, r)' <=> Fits(c, r)
  BY <1>l, <1>1, SameAim DEF locals, Looking
<1>7. CASE beam = 0
  <2>1. f = l + 1
    <3>1. f \in 1..(l + 1) /\ (f # l + 1 => l + 1 \in (f + 1)..(l + 1))
      BY <1>1, <1>l
    <3> QED
      BY <1>1, <1>7, <3>1 DEF LastStart
  <2>2. NowPeriod(records[g].sec) = NowPeriod(t)
    BY <1>1, <1>3, <1>4, <1>7 DEF Since
  <2>3. records[g].sec <= t /\ t <= records[g].sec + Beams
    <3>1. records[g].sec <= clock /\ clock <= records[g].sec + (l - g) /\ l - g < Beams
      BY <1>l, <1>4 DEF Since
    <3> QED
      BY <1>1, <1>5, <3>1, BoundsAssumption
  <2>4. Period(records[g].sec) = Period(t)
    BY <1>5, <2>2, <2>3, PeriodOfScan
  <2>5. Period(t) = Period(AimedSec(c)')
    BY <1>5, <1>6, <2>4 DEF Fits
  <2> QED
    BY <1>1, <2>1, <2>5 DEF Fits, Period
<1>8. CASE beam # 0
  <2>1. f \in 1..(l + 1) /\ f # l + 1
    BY <1>1, <1>8 DEF LastStart
  <2>2. f \in 1..l
    BY <2>1
  <2>3. LastStart(f)
    <3>1. \A r \in (f + 1)..l : r \in 1..l /\ r \in (f + 1)..(l + 1)
      BY <2>2
    <3> QED
      BY <1>l, <1>1, <2>2, <3>1 DEF LastStart, locals
  <2>4. Fits(c, f)
    BY <1>l, <1>1, <1>2, <2>2, <2>3 DEF Aim
  <2> QED
    BY <1>6, <2>2, <2>4
<1> QED
  BY <1>7, <1>8

LEMMA AimStart ==
  ASSUME TypeOK, ProgramInv, HeldInv, SentInv, NEW c \in Runs, Aim(c), Turn(c), Start
  PROVE  Aim(c)'
<1>1. /\ UNCHANGED <<records, up, flg, filename, blk>> /\ run' = run + 1 /\ prog' = "reset"
      /\ child' = [child EXCEPT ![run + 1] = "recv"] /\ Kept
  BY ProgramKeeps DEF Start, locals
<1>2. run \in Nat /\ c \in Nat
  BY RunIsNumber
<1>3. CASE c = run + 1
  <2>1. \A r \in 1..Len(records) : records[r].run # c
    BY <1>2, <1>3, RecordType DEF ProgramInv
  <2>2. child[c] # "gone" /\ child'[c] = "recv"
    BY <1>1, <1>2, <1>3 DEF HeldInv, TypeOK
  <2>3. blk[c].rec = 0 /\ filename[c] = NoName /\ ~Aimed(c)
    BY <2>1, <2>2, NoRecordNoFile
  <2> QED
    BY <1>1, <2>2, <2>3 DEF Aim, Aimed, FileDue, Looking
<1>4. CASE c # run + 1
  <2>1. child'[c] = child[c]
    BY <1>1, <1>4 DEF TypeOK
  <2>2. CASE child[c] = "gone"
    BY <2>1, <2>2 DEF Aim
  <2>3. CASE child[c] # "gone"
    <3>1. prog' \notin {"scan", "data"}
      BY <1>1
    <3> QED
      BY <1>1, <2>1, <2>3, <3>1, AimSame DEF Looking
  <2> QED
    BY <2>2, <2>3
<1> QED
  BY <1>3, <1>4

LEMMA AimStep ==
  ASSUME TypeOK, ProgramInv, HeldInv, SentInv, ThenInv, NEW c \in Runs, Aim(c), Turn(c), Due(c),
         Start \/ Integrate \/ Send \/ Answer \/ Unanswered \/ Broken \/ Stop
  PROVE  Aim(c)'
<1>1. Kept
  BY ProgramKeeps
<1>2. CASE Start
  BY <1>2, AimStart
<1>3. CASE ~Start /\ child[c] = "gone"
  <2>1. child'[c] = "gone"
    BY <1>3, UpOther
  <2> QED
    BY <2>1 DEF Aim
<1>4. CASE ~Start /\ child[c] # "gone"
  <2>1. /\ UNCHANGED <<flg, filename, blk>> /\ child'[c] = child[c] /\ run' = run
        /\ c # run => up'[c] = up[c]
    <3>1. run' = run
      BY <1>4 DEF Integrate, Send, Answer, Unanswered, Broken, Stop, End
    <3> QED
      BY <1>4, <3>1, UpOther
  <2>2. /\ filename'[c] = filename[c] /\ flg'[c] = flg[c] /\ blk'[c].rec = blk[c].rec
        /\ Looking(c)' <=> Looking(c)
    BY <2>1 DEF Looking
  <2>3. CASE c # run
    <3>1. ~Served(c)'
      BY <2>1, <2>3 DEF Served
    <3> QED
      BY <1>1, <1>4, <2>1, <2>2, <2>3, <3>1, AimSame
  <2>4. CASE c = run
    <3>served. prog # "down" => Served(c)
      BY <1>4, <2>4 DEF Served
    <3>1. CASE Integrate
      <4>1. up'[c] = up[c]
        BY <3>1 DEF Integrate
      <4>2. ASSUME Aimed(c), prog' \in {"scan", "data"}
            PROVE  \A f \in 1..Len(records') : LastStart(f)' => Fits(c, f)'
        BY <1>1, <1>4, <2>4, <3>1, <4>2, AimIntegrate
      <4> QED
        BY <1>1, <1>4, <2>2, <4>1, <4>2, AimSame
    <3>2. CASE ~Integrate
      <4>1. UNCHANGED records
        BY <1>4, <3>2 DEF Send, Answer, Unanswered, Broken, Stop, End
      <4>2. ASSUME Aimed(c), prog' \in {"scan", "data"}
            PROVE  prog \in {"scan", "data"}
        <5>1. CASE Send
          BY <4>2, <5>1 DEF Send
        <5>2. CASE Broken \/ Stop
          BY <4>2, <5>2 DEF Broken, Stop, End
        <5>3. CASE Unanswered
          BY <1>4, <2>4, <5>3 DEF Unanswered
        <5>4. CASE Answer
          <6>1. prog \in Sending /\ prog' = NextPlace /\ Served(c)
            BY <5>4, <3>served DEF Answer, ProgramInv
          <6>2. prog \in {"open", "reopen", "data"}
            BY <4>2, <6>1 DEF NextPlace
          <6>3. prog # "open"
            BY <4>2, <6>1, FirstScan DEF ThenInv, Served
          <6>4. prog # "reopen"
            BY <4>2, <6>1 DEF Due, Aimed
          <6> QED
            BY <6>2, <6>3, <6>4
        <5> QED
          BY <1>4, <3>2, <5>1, <5>2, <5>3, <5>4
      <4>3. ASSUME Aimed(c), prog' \in {"scan", "data"},
                   NEW f \in 1..Len(records'), LastStart(f)'
            PROVE  Fits(c, f)'
        <5>1. LastStart(f) /\ f \in 1..Len(records)
          BY <2>1, <4>1, <4>3 DEF LastStart
        <5>2. Fits(c, f)
          BY <1>4, <3>served, <4>2, <4>3, <5>1 DEF Aim
        <5> QED
          BY <1>1, <2>2, <4>3, <5>1, <5>2, SameAim
      <4>4. CASE up'[c] = up[c]
        BY <1>1, <1>4, <2>2, <4>3, <4>4, AimSame
      <4>5. CASE up'[c] # up[c]
        <5>1. PICK k \in 1..5 :
                /\ up' = [up EXCEPT ![run] = Append(@, Request(k))] /\ prog # "down" /\ ~asked
                /\ Send \/ k < Pieces(Kind(prog))
          BY <1>4, <3>2, <4>5 DEF Send, Answer, Unanswered, Broken, Stop, End, Pieces, Kind
        <5>2. up[c] = <<>>
          BY <1>4, <2>4, <3>served, <5>1 DEF Turn
        <5>3. PICK m : m = Request(k)
          OBVIOUS
        <5>4. Len(up'[c]) = 1 /\ up'[c][1] = m
          BY <2>4, <5>1, <5>2, <5>3, SentFirst
        <5>5. ASSUME m.kind = "data", m.pieces = 5, Aimed(c)
              PROVE  Fits(c, m.rec)'
          <6>1. prog = "data"
            BY <5>3, <5>5 DEF Request, Kind
          <6>2. PICK l \in Nat : l = Len(records)
            BY RunIsNumber
          <6>3. m.rec = l /\ l \in 1..l /\ records[l].run = run
            BY <5>3, <6>1, <6>2 DEF Request, ProgramInv, Pending
          <6>4. records[l].first => LastStart(l)
            BY <6>2, <6>3 DEF LastStart
          <6>5. Fits(c, l)
            BY <1>4, <3>served, <5>1, <5>5, <6>1, <6>2, <6>3, <6>4 DEF Aim, Fits
          <6>6. Fits(c, l)'
            BY <1>1, <2>2, <5>5, <6>2, <6>3, <6>5, SameAim
          <6> QED
            BY <6>3, <6>6
        <5>6. ASSUME NEW i \in 1..Len(up'[c]), up'[c][i].kind = "data", up'[c][i].pieces = 5, Aimed(c)
              PROVE  Fits(c, up[c][i].rec)'
          <6>1. i = 1 /\ up'[c][i] = m
            BY <5>4, <5>6
          <6>2. Fits(c, m.rec)'
            BY <5>5, <5>6, <6>1
          <6> QED
            BY <6>1, <6>2 DEF Fits
        <5> QED
          BY <1>1, <1>4, <2>2, <4>3, <5>6, AimSame
      <4> QED
        BY <4>4, <4>5
    <3> QED
      BY <3>1, <3>2
  <2> QED
    BY <2>3, <2>4
<1> QED
  BY <1>2, <1>3, <1>4

-----------------------------------------------------------------------------
(***************************************************************************)
(* When a file is due.                                                     *)
(***************************************************************************)
LEMMA DueStep ==
  ASSUME TypeOK, ProgramInv, HeldInv, ThenInv, NEW c \in Runs, Aim(c), Turn(c), Due(c), Turn(c)',
         Start \/ Integrate \/ Send \/ Answer \/ Unanswered \/ Broken \/ Stop
  PROVE  Due(c)'
<1>1. CASE Start
  <2>1. /\ UNCHANGED <<records, flg, filename, blk>> /\ run' = run + 1 /\ prog' = "reset"
        /\ child' = [child EXCEPT ![run + 1] = "recv"]
    BY <1>1 DEF Start, locals
  <2>2. CASE c = run + 1
    <3>1. run \in Nat /\ c \in Nat
      BY RunIsNumber
    <3>2. \A r \in 1..Len(records) : records[r].run # c
      BY <2>2, <3>1, RecordType DEF ProgramInv
    <3>3. child[c] # "gone" /\ child'[c] = "recv"
      BY <2>1, <2>2, <3>1 DEF HeldInv, TypeOK
    <3>4. filename'[c] = NoName
      BY <2>1, <3>2, <3>3, NoRecordNoFile
    <3> QED
      BY <2>1, <3>3, <3>4 DEF Due, Looking
  <2>3. CASE c # run + 1
    BY <2>1, <2>3 DEF Due, Served
  <2> QED
    BY <2>2, <2>3
<1>2. CASE Broken \/ Stop \/ Unanswered
  BY <1>2 DEF Broken, Stop, End, Unanswered, Due, Served
<1>3. CASE Integrate \/ Send \/ Answer
  <2>1. /\ UNCHANGED <<run, flg, filename, blk, child>> /\ prog # "down"
    <3>1. UNCHANGED <<flg, filename, blk>>
      BY <1>3, UpOther
    <3>2. UNCHANGED <<run, child>> /\ prog # "down"
      BY <1>3 DEF Integrate, Send, Answer, ProgramInv
    <3> QED
      BY <3>1, <3>2
  <2>2. CASE ~Served(c)
    BY <2>1, <2>2 DEF Due, Served
  <2>3. CASE Served(c)
    <3>1. /\ flg[c] => filename[c] = NoName
          /\ Looking(c) => blk[c].num /\ blk[c].rec # 0
          /\ FileDue(c) /\ ~Looking(c) =>
               /\ prog # "close"
               /\ prog = "scan" => then = -1
               /\ prog \in {"reopen", "data"} => records[Len(records)].first
               /\ prog = "data" /\ asked => up[c] # <<>>
          /\ prog = "reopen" \/ (prog = "close" /\ asked /\ up[c] = <<>>) =>
               filename[c] = NoName /\ ~Looking(c)
      BY <2>3 DEF Due
    <3>2. /\ prog \in {"reset", "open"} => then = -1
          /\ prog \in {"close", "reopen"} => records[Len(records)].first
          /\ then = -1 => beam = 0
      BY <2>1 DEF ThenInv
    <3>3. CASE Integrate
      <4>1. PICK t \in Nat :
              /\ prog' = IF beam = 0 /\ then \notin {-1, NowPeriod(t)} THEN "close" ELSE "data"
              /\ records'[Len(records')].first <=> beam = 0
              /\ prog = "scan" /\ ~asked'
        BY <3>3, Integration
      <4> QED
        BY <2>1, <3>1, <3>2, <4>1 DEF Due, FileDue, Looking
    <3>4. CASE Send
      <4>1. UNCHANGED <<prog, records, then>> /\ asked' /\ ~asked
        BY <3>4 DEF Send
      <4>2. up'[c] # <<>>
        <5>1. up[run] = <<>> /\ run \in Runs /\ run = c
          BY <2>3, <4>1 DEF Turn, Served
        <5> QED
          BY <3>4, <5>1, SentFirst DEF Send
      <4> QED
        BY <2>1, <3>1, <4>1, <4>2 DEF Due, FileDue, Looking
    <3>5. CASE Answer
      <4>1. UNCHANGED <<records, then>> /\ ~asked' /\ asked /\ prog' = NextPlace /\ prog \in Sending
        BY <3>5 DEF Answer, ProgramInv
      <4>2. up[c] = <<>>
        BY <2>3, <3>5 DEF Answer, Turn, Served
      <4>3. /\ prog' = "reopen" => prog = "close"
            /\ prog' = "data" => prog = "reopen"
            /\ prog' = "scan" => prog \in {"open", "data"}
            /\ prog' # "close"
        BY <4>1 DEF NextPlace
      <4> QED
        BY <2>1, <3>1, <3>2, <4>1, <4>2, <4>3 DEF Due, FileDue, Looking
    <3> QED
      BY <1>3, <3>3, <3>4, <3>5
  <2> QED
    BY <2>2, <2>3
<1> QED
  BY <1>1, <1>2, <1>3

-----------------------------------------------------------------------------
(***************************************************************************)
(* A step of a child.                                                      *)
(***************************************************************************)
LEMMA ThenKept == ASSUME ThenInv, UNCHANGED program PROVE ThenInv'
<1>1. UNCHANGED <<run, prog, then, beam, clock, records>>
  BY DEF program
<1>2. \A f : Since(f)' <=> Since(f)
  BY <1>1 DEF Since, LastStart
<1> QED
  BY <1>1, <1>2 DEF ThenInv

(* What another child does is nothing to this one. *)
LEMMA OtherChild ==
  ASSUME UNCHANGED program, NEW d \in Runs, Turn(d), Aim(d), Due(d),
         up'[d] = up[d], down'[d] = down[d], child'[d] = child[d], blk'[d] = blk[d],
         flg'[d] = flg[d], filename'[d] = filename[d]
  PROVE  Turn(d)' /\ Aim(d)' /\ Due(d)'
<1>1. UNCHANGED <<run, prog, asked, then, records>>
  BY DEF program
<1>2. /\ Served(d)' <=> Served(d)
      /\ Looking(d)' <=> Looking(d)
      /\ Answering(d)' <=> Answering(d)
      /\ FileDue(d)' <=> FileDue(d)
  BY <1>1 DEF Served, Looking, Answering, FileDue
<1>3. Aimed(d)' <=> Aimed(d)
  BY <1>2 DEF Aimed
<1>4. AimedSec(d)' = AimedSec(d)
  BY <1>1 DEF AimedSec
<1>5. \A r : /\ Fits(d, r)' <=> Fits(d, r)
             /\ LastStart(r)' <=> LastStart(r)
  BY <1>1, <1>4 DEF Fits, LastStart
<1>6. Request(Pieces(Kind(prog)))' = Request(Pieces(Kind(prog)))
  BY <1>1 DEF Request, Pieces, Kind
<1>7. Turn(d)'
  BY <1>1, <1>2, <1>6 DEF Turn
<1>8. Aim(d)'
  <2>1. Fits(d, blk[d].rec)' <=> Fits(d, blk[d].rec)
    BY <1>1, <1>4 DEF Fits
  <2>2. \A i \in 1..Len(up[d]) : Fits(d, up[d][i].rec)' <=> Fits(d, up[d][i].rec)
    BY <1>1, <1>4 DEF Fits
  <2> QED
    BY <1>1, <1>2, <1>3, <1>5, <2>1, <2>2 DEF Aim
<1>9. Due(d)'
  BY <1>1, <1>2 DEF Due
<1> QED
  BY <1>7, <1>8, <1>9

(* A child that is gone.                                                   *)
LEMMA GoneChild ==
  ASSUME NEW c \in Runs, Turn(c), UNCHANGED <<program, up, down>>, child'[c] = "gone"
  PROVE  Turn(c)' /\ Aim(c)' /\ Due(c)'
<1>1. UNCHANGED <<run, prog>>
  BY DEF program
<1> QED
  BY <1>1 DEF Turn, Aim, Due, Served

(* What Receive does with the one request m that is on the way.            *)
Takes(c, m) ==
  LET complete == m.pieces = Pieces(m.kind) IN
  /\ m \in Requests /\ up[c][1] = m /\ 1 \in 1..Len(up[c]) /\ up[c] # <<>> /\ up'[c] = <<>>
  /\ child[c] = "recv" /\ child'[c] = IF m.kind = "data" THEN "ack" ELSE "reply"
  /\ flg'[c] = (flg[c] \/ (m.kind = "open" /\ complete))
  /\ filename'[c] = IF m.kind \in {"close", "reset"} THEN NoName ELSE filename[c]
  /\ m.kind # "data" => blk'[c] = blk[c]
  /\ blk'[c].rec = IF m.kind = "data" /\ m.pieces = 5 THEN m.rec ELSE blk[c].rec
  /\ m.kind = "data" /\ complete => blk'[c].num
  /\ UNCHANGED <<run, prog, asked, then, records, down>>

LEMMA TailOfOne ==
  ASSUME NEW S, NEW s \in Seq(S), s # <<>>, Len(s) <= 1
  PROVE  Tail(s) \in Seq(S) /\ Len(Tail(s)) = 0
<1>1. Len(s) \in Nat /\ Tail(s) \in Seq(S) /\ Len(Tail(s)) = Len(s) - 1
  BY HeadTailProperties
<1>2. Len(Tail(s)) \in Nat
  BY <1>1
<1> QED
  BY <1>1, <1>2

LEMMA ReceiveTakes ==
  ASSUME TypeOK, NEW c \in Runs, Turn(c), Receive(c)
  PROVE  \E m : Takes(c, m)
<1>1. up[c] \in Seq(Requests) /\ up[c] # <<>> /\ child[c] = "recv"
  BY MessageType DEF Receive
<1>2. PICK m \in Requests : m = Head(up[c])
  BY <1>1, HeadTailProperties
<1>3. Len(up[c]) = 1 /\ up[c][1] = m /\ Tail(up[c]) = <<>>
  <2>1. Len(up[c]) <= 1
    BY <1>1 DEF Turn
  <2>2. Len(up[c]) \in Nat /\ Len(up[c]) # 0
    BY <1>1, EmptySeq
  <2>3. Tail(up[c]) \in Seq(Requests) /\ Len(Tail(up[c])) = 0
    BY <1>1, <2>1, <2>2, TailOfOne
  <2> QED
    BY <1>1, <1>2, <2>1, <2>2, <2>3, EmptySeq
<1>4. /\ up'[c] = <<>>
      /\ flg'[c] = (flg[c] \/ (m.kind = "open" /\ m.pieces = Pieces(m.kind)))
      /\ filename'[c] = IF m.kind \in {"close", "reset"} THEN NoName ELSE filename[c]
      /\ child'[c] = IF m.kind = "data" THEN "ack" ELSE "reply"
      /\ blk'[c] = IF m.kind = "data" THEN Decoded(blk[c], m) ELSE blk[c]
  BY <1>2, <1>3 DEF Receive, TypeOK
<1>5. UNCHANGED <<run, prog, asked, then, records, down>>
  BY DEF Receive, program
<1>6. /\ Decoded(blk[c], m).rec = IF m.pieces = 5 THEN m.rec ELSE blk[c].rec
      /\ Decoded(blk[c], m).num = (m.pieces >= 2)
  BY DEF Decoded
<1>7. Pieces("data") = 5
  BY DEF Pieces
<1>8. /\ m.kind # "data" => blk'[c] = blk[c]
      /\ blk'[c].rec = IF m.kind = "data" /\ m.pieces = 5 THEN m.rec ELSE blk[c].rec
      /\ m.kind = "data" /\ m.pieces = Pieces(m.kind) => blk'[c].num
  <2>1. CASE m.kind # "data"
    BY <1>4, <2>1
  <2>2. CASE m.kind = "data"
    <3>1. ASSUME m.pieces = 5 PROVE Decoded(blk[c], m).num
      <4>1. m.pieces >= 2
        BY <3>1
      <4> QED
        BY <4>1, Zenon DEF Decoded
    <3>2. /\ blk'[c].rec = IF m.pieces = 5 THEN m.rec ELSE blk[c].rec
          /\ m.pieces = Pieces(m.kind) => blk'[c].num
      BY <1>4, <1>6, <1>7, <2>2, <3>1
    <3> QED
      BY <2>2, <3>2
  <2> QED
    BY <2>1, <2>2
<1> QED
  BY <1>1, <1>3, <1>4, <1>5, <1>8 DEF Takes

LEMMA ReceiveTurn ==
  ASSUME NEW c \in Runs, Turn(c), NEW m, Takes(c, m)
  PROVE  Turn(c)'
<1>1. Served(c)' => Served(c)
  BY DEF Takes, Served
<1>2. Len(up'[c]) = 0
  BY DEF Takes
<1>3. Served(c) => asked /\ down[c] = <<>>
  BY DEF Takes, Turn
<1> QED
  BY <1>1, <1>2, <1>3 DEF Takes, Turn

(* What a run that goes on sends is what it is at.                         *)
LEMMA TakesRequest ==
  ASSUME TypeOK, ProgramInv, NEW c \in Runs, Turn(c), Served(c), NEW m, Takes(c, m)
  PROVE  /\ asked /\ prog \in Sending /\ m.pieces = Pieces(m.kind) /\ m.kind = Kind(prog)
         /\ m.kind = "data" => prog = "data" /\ m.rec = Len(records) /\ m.pieces = 5
         /\ m.kind = "open" => prog \in {"open", "reopen"}
         /\ m.kind = "close" => prog = "close"
         /\ prog = "reset" => m.kind = "reset"
<1>1. asked /\ m = Request(Pieces(Kind(prog)))
  BY DEF Turn, Takes
<1>2. prog \in Sending
  BY <1>1 DEF ProgramInv
<1> QED
  BY <1>1, <1>2 DEF Request, Kind, Pieces

LEMMA ReceiveAim ==
  ASSUME TypeOK, ProgramInv, HeldInv, SentInv, Kept, NEW c \in Runs, Aim(c), Turn(c), Due(c),
         NEW m, Takes(c, m)
  PROVE  Aim(c)'
<1>1. /\ child[c] = "recv" /\ ~Looking(c) /\ child[c] # "gone" /\ up'[c] = <<>> /\ Len(up'[c]) = 0
      /\ UNCHANGED <<run, prog, asked, then, records>>
      /\ Served(c)' <=> Served(c)
  BY DEF Takes, Looking, Served
<1>2. Aimed(c) <=> filename[c] # NoName
  BY <1>1 DEF Aimed
<1>3. CASE m.kind # "data"
  <2>1. ~Looking(c)' /\ blk'[c] = blk[c] /\ filename'[c] \in {NoName, filename[c]}
    BY <1>3 DEF Takes, Looking
  <2>2. Aimed(c)' => filename'[c] = filename[c] /\ Aimed(c)
    BY <1>2, <2>1 DEF Aimed
  <2>3. Aimed(c)' => AimedSec(c)' = AimedSec(c)
    BY <1>2, <2>1, <2>2 DEF AimedSec
  <2>4. Aimed(c)' => \A f \in 1..Len(records) : LastStart(f)' /\ Served(c) /\ prog \in {"scan", "data"} => Fits(c, f)'
    BY <1>1, <2>2, <2>3 DEF Aim, Fits, LastStart
  <2>5. Aimed(c)' => Fits(c, blk[c].rec)'
    BY <1>1, <2>1, <2>2, <2>3 DEF Aim, Fits
  <2>6. filename'[c] # NoName => blk'[c].rec # 0
    BY <1>1, <2>1 DEF Aim
  <2> QED
    BY <1>1, <2>4, <2>5, <2>6 DEF Aim
<1>4. CASE m.kind = "data" /\ m.pieces = 5
  <2>1. /\ blk'[c].rec = m.rec /\ filename'[c] = filename[c] /\ (flg'[c] => flg[c])
        /\ m.rec \in 1..Len(records) /\ m = up[c][1] /\ 1 \in 1..Len(up[c])
    <3>1. /\ blk'[c].rec = m.rec /\ filename'[c] = filename[c]
          /\ m = up[c][1] /\ 1 \in 1..Len(up[c])
      BY <1>4 DEF Takes
    <3>2. flg'[c] => flg[c]
      BY <1>4 DEF Takes
    <3>3. m.rec \in 1..Len(records)
      BY <1>4, <3>1, SentRecord
    <3> QED
      BY <3>1, <3>2, <3>3
  <2>2. PICK r \in 1..Len(records) : r = m.rec
    BY <2>1
  <2>3. r # 0
    OBVIOUS
  <2>4. CASE filename[c] # NoName
    <3>1. AimedSec(c)' = AimedSec(c)
      BY <2>1, <2>4 DEF AimedSec
    <3>2. Fits(c, r)
      BY <1>1, <1>2, <1>4, <2>1, <2>2, <2>4 DEF Aim
    <3>3. Fits(c, blk[c].rec)'
      BY <1>1, <2>1, <2>2, <3>1, <3>2 DEF Fits
    <3>4. \A f \in 1..Len(records) : LastStart(f)' /\ Served(c) /\ prog \in {"scan", "data"} => Fits(c, f)'
      BY <1>1, <1>2, <2>4, <3>1 DEF Aim, Fits, LastStart
    <3> QED
      BY <1>1, <2>1, <2>2, <2>3, <3>3, <3>4 DEF Aim
  <2>5. CASE filename[c] = NoName
    <3>1. AimedSec(c)' = records[r].sec
      BY <1>1, <2>1, <2>2, <2>5 DEF AimedSec
    <3>2. Fits(c, blk[c].rec)'
      BY <1>1, <2>1, <2>2, <3>1 DEF Fits, Period
    <3>3. ASSUME Aimed(c)', Served(c), NEW f \in 1..Len(records), LastStart(f)'
          PROVE  Fits(c, f)'
      <4>1. FileDue(c) /\ prog = "data" /\ m.rec = Len(records)
        BY <1>4, <2>1, <2>5, <3>3, TakesRequest DEF Aimed, FileDue
      <4>2. records[r].first
        BY <1>1, <2>2, <3>3, <4>1 DEF Due
      <4>3. f = r
        <5>1. r \in Nat /\ f \in Nat /\ f <= r /\ (f # r => r \in (f + 1)..Len(records))
          BY <2>2, <4>1, RunIsNumber
        <5> QED
          BY <1>1, <3>3, <4>2, <5>1 DEF LastStart
      <4> QED
        BY <1>1, <3>1, <4>3 DEF Fits, Period
    <3> QED
      BY <1>1, <2>1, <2>5, <3>2, <3>3 DEF Aim
  <2> QED
    BY <2>4, <2>5
<1>5. CASE m.kind = "data" /\ m.pieces # 5
  <2>1. blk'[c].rec = blk[c].rec /\ filename'[c] = filename[c]
    BY <1>5 DEF Takes
  <2>2. ~Served(c)
    BY <1>5, TakesRequest
  <2>3. CASE filename[c] # NoName
    <3>1. AimedSec(c)' = AimedSec(c)
      BY <2>1, <2>3 DEF AimedSec
    <3>2. Fits(c, blk[c].rec)'
      BY <1>1, <1>2, <2>1, <2>3, <3>1 DEF Aim, Fits
    <3> QED
      BY <1>1, <2>1, <2>2, <2>3, <3>2 DEF Aim
  <2>4. CASE filename[c] = NoName
    <3>1. Fits(c, blk[c].rec)'
      BY <1>1, <2>1, <2>4 DEF Fits, AimedSec
    <3> QED
      BY <1>1, <2>1, <2>2, <2>4, <3>1 DEF Aim
  <2> QED
    BY <2>3, <2>4
<1> QED
  BY <1>3, <1>4, <1>5

LEMMA ReceiveDue ==
  ASSUME TypeOK, ProgramInv, HeldInv, SentInv, ThenInv, NEW c \in Runs,
         Aim(c), Turn(c), Due(c), NEW m, Takes(c, m)
  PROVE  Due(c)'
<1>1. /\ child[c] = "recv" /\ ~Looking(c) /\ child[c] # "gone"
      /\ UNCHANGED <<run, prog, asked, then, records>>
      /\ Served(c)' <=> Served(c)
      /\ Looking(c)' <=> m.kind = "data"
  BY DEF Takes, Looking, Served
<1> SUFFICES ASSUME Served(c) PROVE Due(c)'
  BY <1>1 DEF Due
<1>2. /\ asked /\ prog \in Sending /\ m.pieces = Pieces(m.kind) /\ m.kind = Kind(prog)
      /\ m.kind = "data" => prog = "data" /\ m.rec = Len(records) /\ m.pieces = 5
      /\ m.kind = "open" => prog \in {"open", "reopen"}
      /\ m.kind = "close" => prog = "close"
  BY TakesRequest
<1>3. /\ flg[c] => filename[c] = NoName
      /\ FileDue(c) =>
           /\ prog # "close"
           /\ prog \in {"reopen", "data"} => records[Len(records)].first
      /\ prog = "reopen" => filename[c] = NoName
  BY <1>1 DEF Due
<1>4. m.kind = "open" => filename[c] = NoName
  <2>1. prog = "open" => then = -1
    BY DEF ThenInv
  <2> QED
    BY <1>2, <1>3, <2>1, FirstScan
<1>5. flg'[c] => filename'[c] = NoName
  BY <1>3, <1>4 DEF Takes
<1>6. Looking(c)' => blk'[c].num /\ blk'[c].rec # 0
  <2>1. m.kind = "data" => m.rec \in 1..Len(records)
    BY SentRecord DEF Takes
  <2> QED
    BY <1>1, <1>2, <2>1 DEF Takes
<1>7. ASSUME FileDue(c)', ~Looking(c)'
      PROVE  /\ prog # "close" /\ prog # "scan" /\ prog # "data"
             /\ prog = "reopen" => records[Len(records)].first
  <2>1. prog # "scan" /\ prog # "data"
    BY <1>1, <1>2, <1>7 DEF Kind
  <2>2. prog # "close"
    BY <1>2, <1>3, <1>7 DEF Takes, FileDue, Kind
  <2>3. prog = "reopen" => records[Len(records)].first
    BY DEF ThenInv
  <2> QED
    BY <2>1, <2>2, <2>3
<1>8. prog = "reopen" \/ prog = "close" => filename'[c] = NoName /\ ~Looking(c)'
  BY <1>1, <1>2, <1>3 DEF Takes, Kind
<1> QED
  BY <1>1, <1>5, <1>6, <1>7, <1>8 DEF Due

(* The child is as far as it was with the record it holds.                 *)
LEMMA ChildOnward ==
  ASSUME TypeOK, HeldInv, SentInv, Kept, UNCHANGED <<program, up>>,
         NEW c \in Runs, Turn(c), Aim(c), Due(c), child[c] # "gone",
         filename'[c] = filename[c], flg'[c] = flg[c], blk'[c] = blk[c],
         Looking(c)' <=> Looking(c), child'[c] # "gone"
  PROVE  Aim(c)' /\ Due(c)'
<1>1. UNCHANGED <<run, prog, asked, then, records>>
  BY DEF program
<1>2. /\ Served(c)' <=> Served(c)
      /\ \A f : LastStart(f)' <=> LastStart(f)
  BY <1>1 DEF Served, LastStart
<1>3. ASSUME Aimed(c), Served(c)', prog' \in {"scan", "data"}
      PROVE  \A f \in 1..Len(records') : LastStart(f)' => Fits(c, f)'
  BY <1>1, <1>2, <1>3, SameAim DEF Aim
<1>4. Aim(c)'
  BY <1>1, <1>3, AimSame
<1>5. Due(c)'
  BY <1>1, <1>2 DEF Due, FileDue
<1> QED
  BY <1>4, <1>5

LEMMA ReplyStep ==
  ASSUME TypeOK, HeldInv, SentInv, Kept, NEW c \in Runs, Turn(c), Aim(c), Due(c), Reply(c)
  PROVE  Turn(c)' /\ Aim(c)' /\ Due(c)'
<1>1. /\ child[c] \in {"reply", "ack"} /\ UNCHANGED <<program, up, locals>>
      /\ child'[c] = IF child[c] = "ack" THEN "process" ELSE "recv"
      /\ down'[c] = Append(down[c], rmsg[c])
  BY DEF Reply, TypeOK
<1>2. UNCHANGED <<flg, filename, blk, run, prog, asked>> /\ UNCHANGED up
  BY <1>1 DEF program, locals
<1>3. Aim(c)' /\ Due(c)'
  BY <1>1, <1>2, ChildOnward DEF Looking
<1>4. Turn(c)'
  <2>1. ~Answering(c)' /\ Answering(c) /\ (Served(c)' => Served(c)) /\ child[c] # "none"
    BY <1>1, <1>2 DEF Answering, Served
  <2>2. c <= run /\ (down'[c] # <<>> => c <= run')
    BY <1>2, <2>1 DEF HeldInv
  <2>3. Served(c) => /\ asked /\ up[c] = <<>> /\ down[c] = <<>>
                     /\ Len(down'[c]) = 1 /\ down'[c] # <<>>
    <3>1. Append(<<>>, rmsg[c]) = <<rmsg[c]>>
      OBVIOUS
    <3> QED
      BY <1>1, <2>1, <3>1 DEF Turn
  <2>4. Len(up'[c]) <= 1
    BY <1>1, <1>2 DEF Turn
  <2> QED
    BY <1>2, <2>1, <2>2, <2>3, <2>4 DEF Turn
<1> QED
  BY <1>3, <1>4

(* The child goes back to its loop.                                        *)
LEMMA TurnBack ==
  ASSUME NEW c \in Runs, Turn(c), UNCHANGED <<program, up, down>>,
         child[c] = "process", child'[c] = "recv"
  PROVE  Turn(c)'
<1>1. UNCHANGED <<run, prog, asked, records>>
  BY DEF program
<1>2. ~Answering(c)' /\ ~Answering(c) /\ (Served(c)' <=> Served(c))
  BY <1>1 DEF Answering, Served
<1>3. Request(Pieces(Kind(prog)))' = Request(Pieces(Kind(prog)))
  BY <1>1 DEF Request, Pieces, Kind
<1> QED
  BY <1>1, <1>2, <1>3 DEF Turn

LEMMA SkipStep ==
  ASSUME TypeOK, HeldInv, NEW c \in Runs, Turn(c), Aim(c), Due(c), Skip(c)
  PROVE  Turn(c)' /\ Aim(c)' /\ Due(c)'
<1>1. /\ child[c] = "process" /\ ~HasRecord(c) /\ UNCHANGED <<program, up, down, flg, filename>>
      /\ child'[c] = "recv" /\ blk'[c].rec = blk[c].rec
  BY FreedType DEF Skip, Done, TypeOK
<1>2. UNCHANGED <<run, prog, records, up>> /\ filename' = filename
  BY <1>1 DEF program
<1>3. ~Served(c) /\ ~Served(c)' /\ ~Looking(c)' /\ child[c] # "gone"
  BY <1>1, <1>2 DEF Due, Served, Looking, HasRecord
<1>4. Turn(c)'
  BY <1>1, TurnBack
<1>5. Due(c)'
  BY <1>3 DEF Due
<1>6. Aimed(c)' => filename[c] # NoName
  BY <1>2, <1>3 DEF Aimed
<1>7. ASSUME filename[c] # NoName PROVE AimedSec(c)' = AimedSec(c) /\ Aimed(c)
  BY <1>2, <1>7 DEF AimedSec, Aimed
<1>8. Aim(c)'
  <2>1. filename'[c] # NoName => blk'[c].rec # 0
    BY <1>1, <1>2, <1>3 DEF Aim
  <2>2. Aimed(c)' => Fits(c, blk[c].rec)'
    BY <1>1, <1>2, <1>3, <1>6, <1>7 DEF Aim, Fits
  <2>3. Aimed(c)' => \A i \in 1..Len(up[c]) :
                       up[c][i].kind = "data" /\ up[c][i].pieces = 5 => Fits(c, up[c][i].rec)'
    BY <1>2, <1>3, <1>6, <1>7 DEF Aim, Fits
  <2> QED
    BY <1>2, <1>3, <2>1, <2>2, <2>3 DEF Aim
<1> QED
  BY <1>4, <1>5, <1>8

LEMMA DropStep ==
  ASSUME TypeOK, HeldInv, NEW c \in Runs, Turn(c), Aim(c), Due(c), Drop(c)
  PROVE  Turn(c)' /\ Aim(c)' /\ Due(c)'
<1>1. /\ HasRecord(c) /\ UNCHANGED <<program, up, down, filename>> /\ child[c] = "process"
      /\ child'[c] = "recv" /\ ~flg'[c]
  BY DEF Drop, Done, TypeOK, HasRecord
<1>2. filename[c] = NoName
  <2>1. PICK bad : File(c, bad) = NoName
    BY DEF Drop
  <2> QED
    BY <2>1 DEF File, FileDue
<1>3. UNCHANGED <<run, prog, asked, records>> /\ filename'[c] = NoName
  BY <1>1, <1>2 DEF program
<1>4. ~Looking(c)' /\ ~FileDue(c)' /\ ~Aimed(c)' /\ (Served(c)' <=> Served(c))
  BY <1>1, <1>3 DEF Looking, FileDue, Aimed, Served
<1>5. Turn(c)'
  BY <1>1, TurnBack
<1>6. Aim(c)'
  BY <1>3, <1>4 DEF Aim
<1>7. Due(c)'
  BY <1>1, <1>3, <1>4 DEF Due
<1> QED
  BY <1>5, <1>6, <1>7

LEMMA MakeFileSec ==
  ASSUME NEW sec, NEW bad, MakeFile(sec, bad) # NoName
  PROVE  MakeFile(sec, bad).sec = sec
<1> DEFINE free == { d \in (1..Dirs) \ bad : [dir |-> d, sec |-> sec] \notin made }
<1>1. MakeFile(sec, bad) = [dir |-> CHOOSE d \in free : \A e \in free : d <= e, sec |-> sec]
  BY DEF MakeFile
<1> HIDE DEF free
<1> QED
  BY <1>1

(* A record is stored in the file the child has open, or makes for it.     *)
LEMMA StoreAims ==
  ASSUME TypeOK, HeldInv, NEW c \in Runs, Store(c)
  PROVE  /\ HasRecord(c) /\ Aimed(c) /\ child[c] = "process"
         /\ filename'[c] # NoName /\ filename'[c].sec = AimedSec(c)
         /\ child'[c] = "recv" /\ blk'[c].rec = blk[c].rec
         /\ flg'[c] => flg[c] /\ ~FileDue(c)
         /\ UNCHANGED <<program, up, down>>
<1>1. PICK bad : /\ File(c, bad) # NoName
                 /\ filename' = [filename EXCEPT ![c] = File(c, bad)]
  BY DEF Store
<1>2. /\ HasRecord(c) /\ UNCHANGED <<program, up, down>> /\ child[c] = "process"
      /\ child'[c] = "recv" /\ blk'[c].rec = blk[c].rec
  BY FreedType DEF Store, Done, TypeOK, HasRecord
<1>3. filename'[c] = File(c, bad) /\ filename'[c] # NoName
  BY <1>1 DEF TypeOK
<1>4. flg'[c] => flg[c] /\ ~FileDue(c)
  <2>1. flg' = [flg EXCEPT ![c] = @ /\ ~FileDue(c)] /\ flg \in [Runs -> BOOLEAN]
    BY DEF Store, TypeOK
  <2>2. flg'[c] = (flg[c] /\ ~FileDue(c))
    BY <2>1, Zenon
  <2> QED
    BY <2>2, Zenon
<1>5. CASE FileDue(c)
  <2>1. filename[c] = NoName /\ Aimed(c)
    BY <1>2, <1>5 DEF FileDue, Aimed, HasRecord, Looking
  <2>2. File(c, bad) = MakeFile(records[blk[c].rec].sec, bad)
    BY <1>5 DEF File
  <2>3. File(c, bad).sec = records[blk[c].rec].sec
    BY <1>1, <2>2, MakeFileSec
  <2> QED
    BY <1>2, <1>3, <1>4, <2>1, <2>3 DEF AimedSec
<1>6. CASE ~FileDue(c)
  <2>1. File(c, bad) = filename[c]
    BY <1>6 DEF File
  <2> QED
    BY <1>1, <1>2, <1>3, <1>4, <2>1 DEF Aimed, AimedSec
<1> QED
  BY <1>5, <1>6

LEMMA StoreFits ==
  ASSUME TypeOK, HeldInv, NEW c \in Runs, Turn(c), Aim(c), Due(c), Store(c)
  PROVE  Turn(c)' /\ Aim(c)' /\ Due(c)'
<1>1. /\ HasRecord(c) /\ Aimed(c) /\ child[c] = "process"
      /\ filename'[c] # NoName /\ filename'[c].sec = AimedSec(c)
      /\ child'[c] = "recv" /\ blk'[c].rec = blk[c].rec
      /\ flg'[c] => flg[c] /\ ~FileDue(c)
      /\ UNCHANGED <<program, up, down>>
  BY StoreAims
<1>2. UNCHANGED <<run, prog, asked, then, records, up>>
  BY <1>1 DEF program
<1>3. /\ ~Looking(c)' /\ Looking(c) /\ ~FileDue(c)' /\ (Served(c)' <=> Served(c))
      /\ AimedSec(c)' = AimedSec(c)
      /\ \A f : LastStart(f)' <=> LastStart(f)
  BY <1>1, <1>2 DEF Looking, FileDue, Served, AimedSec, LastStart
<1>4. Turn(c)'
  BY <1>1, TurnBack
<1>5. Due(c)'
  <2>1. Served(c) => ~flg'[c]
    BY <1>1 DEF Due, FileDue
  <2> QED
    BY <1>1, <1>2, <1>3, <2>1 DEF Due
<1>6. Aim(c)'
  <2>1. blk'[c].rec # 0
    BY <1>1 DEF HasRecord
  <2>2. Fits(c, blk[c].rec)'
    BY <1>1, <1>2, <1>3 DEF Aim, Fits
  <2>3. \A i \in 1..Len(up[c]) :
          up[c][i].kind = "data" /\ up[c][i].pieces = 5 => Fits(c, up[c][i].rec)'
    BY <1>1, <1>2, <1>3 DEF Aim, Fits
  <2>4. Served(c) /\ prog \in {"scan", "data"} =>
          \A f \in 1..Len(records) : LastStart(f) => Fits(c, f)'
    BY <1>1, <1>2, <1>3 DEF Aim, Fits
  <2> QED
    BY <1>2, <1>3, <2>1, <2>2, <2>3, <2>4 DEF Aim
<1> QED
  BY <1>4, <1>5, <1>6

-----------------------------------------------------------------------------
(***************************************************************************)
(* The files.                                                              *)
(***************************************************************************)
LEMMA FilesOf == ASSUME TypeOK, NEW n \in Names PROVE DOMAIN files[n] = 1..Len(files[n])
  BY DEF TypeOK

LEMMA PeriodSame ==
  ASSUME TypeOK, ProgramInv, StoredInv, Kept, UNCHANGED files, FilePerPeriod
  PROVE  FilePerPeriod'
<1>1. ASSUME NEW n \in Names, NEW i \in 1..Len(files[n])
      PROVE  Of(n, i)'.first => Period(Of(n, i)'.sec) = Period(n.sec)
  <2>1. Of(n, i)' = Of(n, i)
    BY OfKept
  <2> QED
    BY <2>1, FilesOf DEF FilePerPeriod
<1> QED
  BY <1>1, FilesOf DEF FilePerPeriod, Period

LEMMA PeriodStore ==
  ASSUME TypeOK, HeldInv, ProgramInv, StoredInv, TypeOK', FilePerPeriod,
         NEW c \in Runs, Aim(c), Store(c)
  PROVE  FilePerPeriod'
<1>1. PICK file \in Names : Grows(c, file)
  BY StoreGrows
<1>2. /\ HasRecord(c) /\ Aimed(c) /\ child[c] = "process" /\ filename'[c].sec = AimedSec(c)
      /\ UNCHANGED records
  BY StoreAims DEF program
<1>3. filename'[c] = file
  BY <1>1 DEF Grows, TypeOK
<1>4. records[blk[c].rec].first => Period(records[blk[c].rec].sec) = Period(file.sec)
  BY <1>2, <1>3 DEF Aim, Fits
<1>5. ASSUME NEW n \in Names, NEW i \in 1..Len(files'[n])
      PROVE  records[files'[n][i].rec].first =>
               Period(records[files'[n][i].rec].sec) = Period(n.sec)
  <2>1. PICK l \in Nat : l = Len(files[n])
    <3>1. files \in [Names -> Seq(Entries)]
      BY DEF TypeOK
    <3> QED
      BY <3>1
  <2>2. CASE i \in 1..l /\ files'[n][i] = files[n][i]
    BY <2>1, <2>2, FilesOf DEF FilePerPeriod, Of
  <2>3. CASE n = file /\ i = l + 1
    <3>1. Len(files'[file]) \in Nat
      <4>1. files' \in [Names -> Seq(Entries)]
        BY DEF TypeOK
      <4> QED
        BY <4>1
    <3>2. Len(files'[file]) = l + 1
      BY <1>1, <1>5, <2>1, <2>3, <3>1 DEF Grows
    <3>3. files'[file][l + 1].rec = blk[c].rec
      BY <1>1, <2>1, <2>3, <3>2 DEF Grows
    <3> QED
      BY <1>4, <2>3, <3>3
  <2>4. CASE n # file
    <3>1. files'[n] = files[n]
      BY <1>1, <2>4 DEF Grows
    <3> QED
      BY <1>5, <2>1, <2>2, <3>1
  <2>5. CASE n = file
    <3>1. Len(files'[file]) \in {l, l + 1} /\ \A j \in 1..l : files'[file][j] = files[file][j]
      BY <1>1, <2>1, <2>5 DEF Grows
    <3>2. i \in 1..l \/ i = l + 1
      BY <1>5, <2>1, <2>5, <3>1
    <3> QED
      BY <2>2, <2>3, <2>5, <3>1, <3>2
  <2> QED
    BY <2>4, <2>5
<1>6. \A n \in Names : DOMAIN files'[n] = 1..Len(files'[n])
  <2>1. files' \in [Names -> Seq(Entries)]
    BY DEF TypeOK
  <2> QED
    BY <2>1
<1> QED
  BY <1>2, <1>5, <1>6 DEF FilePerPeriod, Of, Period

-----------------------------------------------------------------------------
LEMMA PeriodInit == Init => PeriodInv
<1> SUFFICES ASSUME Init PROVE PeriodInv
  OBVIOUS
<1>1. /\ prog = "down" /\ \A n \in Names : DOMAIN files[n] = {}
      /\ \A c \in Runs : /\ up[c] = <<>> /\ down[c] = <<>> /\ Len(up[c]) = 0
                          /\ filename[c] = NoName /\ child[c] = "none"
  BY DEF Init
<1>2. ThenInv /\ FilePerPeriod
  BY <1>1 DEF ThenInv, FilePerPeriod
<1>3. ASSUME NEW c \in Runs PROVE Turn(c) /\ Aim(c) /\ Due(c)
  <2>1. ~Served(c) /\ ~Aimed(c)
    BY <1>1 DEF Served, Aimed, Looking
  <2> QED
    BY <1>1, <2>1 DEF Turn, Aim, Due
<1> QED
  BY <1>2, <1>3 DEF PeriodInv

(* What the child c does is nothing to the others. *)
LEMMA ChildAlone ==
  ASSUME TypeOK, NEW c \in Runs, Child(c) \/ NoOpen(c) \/ Crash(c)
  PROVE  /\ UNCHANGED program
         /\ \A d \in Runs \ {c} :
              /\ up'[d] = up[d] /\ down'[d] = down[d] /\ child'[d] = child[d]
              /\ blk'[d] = blk[d] /\ flg'[d] = flg[d] /\ filename'[d] = filename[d]
<1>1. UNCHANGED program
  BY DEF Child, Receive, Reply, Skip, Drop, Store, Finish, NoOpen, Crash
<1>2. CASE Receive(c)
  BY <1>1, <1>2 DEF Receive, TypeOK
<1>3. CASE Reply(c) \/ Finish(c) \/ NoOpen(c) \/ Crash(c)
  BY <1>1, <1>3 DEF Reply, Finish, NoOpen, Crash, locals, TypeOK
<1>4. CASE Skip(c) \/ Drop(c) \/ Store(c)
  <2>1. Done(c) /\ UNCHANGED <<up, down>>
    BY <1>4 DEF Skip, Drop, Store
  <2>2. \A d \in Runs \ {c} : child'[d] = child[d] /\ blk'[d] = blk[d]
    <3>1. blk' = [blk EXCEPT ![c] = [blk[c] EXCEPT !.live = FALSE]]
      BY <2>1 DEF Done
    <3>2. child' = [child EXCEPT ![c] = "recv"]
      BY <2>1 DEF Done
    <3> QED
      BY <3>1, <3>2 DEF TypeOK
  <2>3. \A d \in Runs \ {c} : flg'[d] = flg[d]
    BY <1>4 DEF Skip, Drop, Store, TypeOK
  <2>4. \A d \in Runs \ {c} : filename'[d] = filename[d]
    <3>1. filename' = filename \/ \E file : filename' = [filename EXCEPT ![c] = file]
      BY <1>4 DEF Skip, Drop, Store
    <3> QED
      BY <3>1 DEF TypeOK
  <2> QED
    BY <1>1, <2>1, <2>2, <2>3, <2>4
<1> QED
  BY <1>2, <1>3, <1>4 DEF Child

LEMMA ChildFits ==
  ASSUME TypeOK, ProgramInv, HeldInv, SentInv, ThenInv, NEW c \in Runs,
         Turn(c), Aim(c), Due(c), Child(c) \/ NoOpen(c) \/ Crash(c)
  PROVE  Turn(c)' /\ Aim(c)' /\ Due(c)'
<1>1. Kept
  BY ChildAlone, ChildKeeps
<1>2. CASE Receive(c)
  BY <1>1, <1>2, ReceiveTakes, ReceiveTurn, ReceiveAim, ReceiveDue
<1>3. CASE Reply(c)
  BY <1>1, <1>3, ReplyStep
<1>4. CASE Skip(c) \/ Drop(c) \/ Store(c)
  BY <1>4, SkipStep, DropStep, StoreFits
<1>5. CASE Finish(c) \/ NoOpen(c) \/ Crash(c)
  <2>1. UNCHANGED <<program, up, down>> /\ child'[c] = "gone"
    BY <1>5 DEF Finish, NoOpen, Crash, TypeOK
  <2> QED
    BY <2>1, GoneChild
<1> QED
  BY <1>2, <1>3, <1>4, <1>5 DEF Child

LEMMA PeriodStep == WriterInv /\ WriterInv' /\ PeriodInv /\ [Next]_vars => PeriodInv'
<1> SUFFICES ASSUME WriterInv, WriterInv', PeriodInv, [Next]_vars PROVE PeriodInv'
  OBVIOUS
<1>1. /\ TypeOK /\ TypeOK' /\ ProgramInv /\ SentInv /\ HeldInv /\ StoredInv
      /\ ThenInv /\ FilePerPeriod /\ \A c \in Runs : Turn(c) /\ Aim(c) /\ Due(c)
  BY DEF WriterInv, PeriodInv
<1>2. CASE UNCHANGED vars
  <2>1. /\ UNCHANGED program /\ UNCHANGED <<files, records, up, down, child, blk, flg, filename>>
    BY <1>2 DEF vars, program, locals, disk
  <2>2. \A c \in Runs : Turn(c)' /\ Aim(c)' /\ Due(c)'
    BY <1>1, <2>1, OtherChild
  <2>3. ThenInv' /\ FilePerPeriod'
    BY <1>1, <2>1, ThenKept DEF FilePerPeriod, Of
  <2> QED
    BY <2>2, <2>3 DEF PeriodInv
<1>3. CASE Start \/ Integrate \/ Send \/ Answer \/ Unanswered \/ Broken \/ Stop
  <2>1. Kept /\ ThenInv'
    BY <1>1, <1>3, ProgramKeeps, ThenStep
  <2>2. UNCHANGED files
    BY <1>3 DEF Start, Integrate, Send, Answer, Unanswered, Broken, Stop, End, disk
  <2>3. FilePerPeriod'
    BY <1>1, <2>1, <2>2, PeriodSame
  <2>4. \A c \in Runs : Turn(c)'
    BY <1>1, <1>3, TurnStep
  <2>5. ASSUME NEW c \in Runs PROVE Aim(c)' /\ Due(c)'
    <3>1. Aim(c)'
      BY <1>1, <1>3, AimStep
    <3>2. Due(c)'
      BY <1>1, <1>3, <2>4, DueStep
    <3> QED
      BY <3>1, <3>2
  <2> QED
    BY <2>1, <2>3, <2>4, <2>5 DEF PeriodInv
<1>4. ASSUME NEW c \in Runs, Child(c) \/ NoOpen(c) \/ Crash(c) PROVE PeriodInv'
  <2>1. /\ UNCHANGED program
        /\ \A d \in Runs \ {c} :
              /\ up'[d] = up[d] /\ down'[d] = down[d] /\ child'[d] = child[d]
              /\ blk'[d] = blk[d] /\ flg'[d] = flg[d] /\ filename'[d] = filename[d]
    BY <1>1, <1>4, ChildAlone
  <2>2. ThenInv' /\ Kept
    BY <1>1, <2>1, ThenKept, ChildKeeps
  <2>3. Turn(c)' /\ Aim(c)' /\ Due(c)'
    BY <1>1, <1>4, ChildFits
  <2>4. \A d \in Runs \ {c} : Turn(d)' /\ Aim(d)' /\ Due(d)'
    BY <1>1, <2>1, OtherChild
  <2>5. FilePerPeriod'
    <3>1. CASE Store(c)
      BY <1>1, <3>1, PeriodStore
    <3>2. CASE ~Store(c)
      <4>1. UNCHANGED files
        BY <1>4, <3>2 DEF Child, Receive, Reply, Skip, Drop, Finish, NoOpen, Crash, disk
      <4> QED
        BY <1>1, <2>2, <4>1, PeriodSame
    <3> QED
      BY <3>1, <3>2
  <2> QED
    BY <2>2, <2>3, <2>4, <2>5 DEF PeriodInv
<1> QED
  BY <1>2, <1>3, <1>4 DEF Next

(* A scan that begins in another period than the file did goes to another  *)
(* file, whatever fails and whenever programs are stopped.                 *)
THEOREM FilePerPeriodCorrect == Spec => []FilePerPeriod
<1>1. Init => WriterInv /\ PeriodInv
  BY WriterInit, PeriodInit
<1>2. WriterInv /\ PeriodInv /\ [Next]_vars => (WriterInv /\ PeriodInv)'
  BY WriterStep, PeriodStep
<1>3. WriterInv /\ PeriodInv => FilePerPeriod
  BY DEF PeriodInv
<1> QED
  BY <1>1, <1>2, <1>3, PTL DEF Spec
=============================================================================
