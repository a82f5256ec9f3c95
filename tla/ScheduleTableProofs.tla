------------------------- MODULE ScheduleTableProofs -------------------------
(***************************************************************************)
(* Lemmas about the schedule table, for every table and every time.        *)
(***************************************************************************)
EXTENDS ScheduleTable, WellFoundedInduction, TLAPS

(* load_schedule keeps a well-formed prefix of the lines. *)
LEMMA KeptType ==
  ASSUME NEW body \in Seq(Entry)
  PROVE  Kept(body) \in Seq(Entry)
<1>1. CASE Len(body) <= MaxEntries
  BY <1>1 DEF Kept
<1>2. CASE ~(Len(body) <= MaxEntries)
  <2>1. Kept(body) = SubSeq(body, 1, MaxEntries)
    BY <1>2 DEF Kept
  <2>2. MaxEntries \in Nat /\ Len(body) \in Nat /\ MaxEntries <= Len(body)
    BY <1>2, MaxEntriesAssumption
  <2>3. QED
    BY <2>1, <2>2
<1>3. QED
  BY <1>1, <1>2

(* A table that load_schedule accepts is made of the entries of the file,  *)
(* is not empty, and its first entry is a default, whatever the order in   *)
(* which qsort leaves entries of the same date.                            *)
LEMMA LoadedTable ==
  ASSUME NEW body \in Seq(Entry), Loads(body),
         NEW es \in Sorted(Kept(body))
  PROVE  /\ es \in Seq(Entry)
         /\ Len(es) > 0
         /\ es[1].stime = DefaultTime
<1> DEFINE ks == Kept(body)
<1>1. ks \in Seq(Entry)
  BY KeptType
<1>2. PICK p \in Bijection(DOMAIN ks, DOMAIN ks) : es = [i \in DOMAIN ks |-> ks[p[i]]]
  BY DEF Sorted
<1>3. InOrder(es)
  BY DEF Sorted
<1> HIDE DEF ks
<1>4. p \in [DOMAIN ks -> DOMAIN ks] /\ \A j \in DOMAIN ks : \E i \in DOMAIN ks : p[i] = j
  BY <1>2 DEF Bijection, Surjection
<1>5. DOMAIN ks = 1..Len(ks) /\ Len(ks) \in Nat /\ \A i \in DOMAIN ks : ks[i] \in Entry
  BY <1>1
<1>6. es \in [1..Len(ks) -> Entry]
  BY <1>2, <1>4, <1>5
<1>7. es \in Seq(Entry) /\ Len(es) = Len(ks) /\ DOMAIN es = DOMAIN ks
  BY <1>5, <1>6
<1>8. PICK j \in DOMAIN ks : ks[j].stime = DefaultTime
  BY DEF Loads, ks
<1>9. PICK i \in DOMAIN ks : p[i] = j
  BY <1>4
<1>10. es[i].stime = DefaultTime
  BY <1>2, <1>8, <1>9
<1>11. 1 \in DOMAIN es /\ i \in DOMAIN es /\ i \in Int
  BY <1>5, <1>7, <1>9
<1>12. es[1].stime <= DefaultTime
  <2>1. CASE i = 1
    BY <2>1, <1>10 DEF DefaultTime
  <2>2. CASE i # 1
    <3>1. 1 < i
      BY <2>2, <1>5, <1>9
    <3>2. QED
      BY <3>1, <1>3, <1>10, <1>11 DEF InOrder
  <2>3. QED
    BY <2>1, <2>2
<1>13. es[1].stime \in Nat \cup {DefaultTime}
  BY <1>6, <1>7, <1>11, <1>5 DEF Entry
<1>14. QED
  BY <1>5, <1>7, <1>9, <1>12, <1>13 DEF DefaultTime

(* set_schedule stops at the first entry that is not due: the number it    *)
(* returns is within the table and every entry before it is due.           *)
LEMMA DueCountProperties ==
  ASSUME NEW es \in Seq(Entry), NEW t \in Int
  PROVE  /\ DueCount(es, t) \in 0..Len(es)
         /\ \A i \in 1..DueCount(es, t) : es[i].stime <= t
<1> DEFINE Stops == { c \in 0..Len(es) : c < Len(es) => es[c + 1].stime > t }
<1>1. Len(es) \in Nat /\ Len(es) \in Stops /\ Stops \subseteq Nat
  OBVIOUS
<1>2. PICK c \in Stops : \A d \in Stops : ~(<<d, c>> \in OpToRel(<, Nat))
  BY <1>1, WFMin, NatLessThanWellFounded
<1>3. \A d \in Stops : ~(d < c)
  BY <1>1, <1>2 DEF OpToRel
<1>4. c \in 0..Len(es) /\ (c < Len(es) => es[c + 1].stime > t)
  OBVIOUS
<1>5. ASSUME NEW i \in 1..c
      PROVE  es[i].stime <= t
  <2>1. i - 1 \in 0..Len(es) /\ i - 1 < c /\ i - 1 < Len(es) /\ (i - 1) + 1 = i
    BY <1>4, <1>1
  <2>2. ~(es[i].stime > t)
    BY <2>1, <1>3
  <2>3. i \in 1..Len(es) /\ es[i] \in Entry
    BY <2>1, <1>1
  <2>4. es[i].stime \in Int
    BY <2>3 DEF Entry, DefaultTime
  <2>5. QED
    BY <2>2, <2>4
<1>6. QED
  BY <1>4, <1>5 DEF DueCount
==============================================================================
