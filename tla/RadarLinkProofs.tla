-------------------------- MODULE RadarLinkProofs --------------------------
(***************************************************************************)
(* Proofs about RadarLink: its types, and that commands and answers stay   *)
(* in step, for scans, sequences and codes of every length, structures of  *)
(* every size, any number of signals and failures, and a radar that        *)
(* refuses whatever it likes.                                              *)
(***************************************************************************)
EXTENDS RadarLink, SequenceTheorems, TLAPS

(***************************************************************************)
(* The inductive invariant.  In the middle of a command the rest of it is  *)
(* a script: the steps of the program that are still to come, S[1..L],     *)
(* with the rounds of its loop written out, and in the same way W[1..M] of *)
(* the radar.  One end is k steps ahead, and what it sent in them is on    *)
(* the way.                                                                *)
(***************************************************************************)
Endings == {"answer", "agreed"}
Ops == {"send", "put", "get", "count", "loop", "answer", "agreed", "test", "alloc", "check", "exit"}
AStep == [op : Ops, cmd : Commands \cup {"none"}, n : Nat]

(* The unit of a message with so many after it.                            *)
Half(after) == IF after = 0 THEN "type" ELSE "status"
IsHalf(u, after, c) == u.kind = Half(after) /\ u.cmd = c

(* The message of c comes first.                                           *)
Heard(q, c) == Len(q) >= 2 /\ q[2].kind = "type" /\ q[2].cmd = c

(* Between two commands.                                                   *)
Resting == todo = <<>> \/ Head(todo).op \in Pauses

(* The units that a step sends or receives.                                *)
Size(s) == IF s.op \in {"put", "get"} THEN s.n ELSE IF s.op = "count" THEN 1 ELSE 2

(* What the radar does when the program does s.                            *)
Matches(s, w) ==
  \/ w.op = "get" /\ s.op = "put" /\ s.n = w.n
  \/ w.op = "put" /\ s.op = "get" /\ s.n = w.n
  \/ w.op \in {"count", "loop"} /\ s.op = w.op
  \/ w.op = "answer" /\ s.op \in Endings

(* The first k steps of F move len units: f[i] of them in the first i.     *)
Spans(F, k, len) ==
  \E f \in [0..k -> Nat] :
    /\ f[0] = 0 /\ f[k] = len
    /\ \A i \in 1..k : f[i] = f[i - 1] + Size(F[i])
    /\ \A i, j \in 0..k : i <= j => f[i] <= f[j]

Shift(F, L) == [q \in 1..(L - 1) |-> F[q + 1]]

Script(S, L) ==
  /\ L \in Nat \ {0} /\ S \in [1..L -> AStep]
  /\ S[L].op \in Endings
  /\ \A q \in 1..(L - 1) : S[q].op \in {"put", "get", "count"}
  /\ \A q \in 1..L : S[q].op \in {"put", "get"} => S[q].n > 0

(* The program is k steps ahead: u units are on the way to the radar.      *)
Ahead(S, L, W, M, u) ==
  \E k \in Nat :
    /\ M = L + k
    /\ \A q \in 1..L : Matches(S[q], W[q + k])
    /\ \A i \in 1..k : W[i].op = "get" /\ W[i].n > 0
    /\ Spans(W, k, u)

(* What came of the first k steps: pieces, the number of sequences among   *)
(* them, and the answer to command c at the end.                           *)
Came(S, L, k, c, n, d) ==
  /\ \A i \in 1..k : S[i].op # "put"
  /\ Spans(S, k, Len(d))
  /\ \A u \in 1..Len(d) :
       IF k = L /\ u > Len(d) - 2 THEN IsHalf(d[u], Len(d) - u, c) /\ d[u].n \in {0, 1}
                                  ELSE d[u].kind = "piece"
  /\ \A p \in 1..k : S[p].op = "count" =>
       \E u \in 1..Len(d) : Spans(S, p - 1, u - 1) /\ d[u].n = n

(* The radar is k steps ahead.                                             *)
Behind(S, L, W, M, c, n, d) ==
  \E k \in 1..L :
    /\ L = M + k
    /\ \A q \in 1..M : Matches(S[q + k], W[q])
    /\ Came(S, L, k, c, n, d)

(* The program and the radar are k steps apart.                            *)
InStep(S, L, W, M, c, n, u, d) ==
  \/ Ahead(S, L, W, M, u) /\ d = <<>>
  \/ Behind(S, L, W, M, c, n, d) /\ u = 0

(* What is left of d, and what it becomes.                                 *)
Later(d, size) == SubSeq(d, size + 1, Len(d))
More(d, units) == d \o units

(* The first a steps of t, with n turns in the place of the loop.          *)
Unrolled(t, a, turn, n, S, L) ==
  \/ /\ \A q \in 1..a : t[q].op # "loop" /\ S[q] = t[q]
     /\ L = a
  \/ \E p \in 1..a :
       /\ \A q \in 1..a : t[q].op = "loop" <=> q = p
       /\ L = a - 1 + 5 * n
       /\ \A q \in 1..(p - 1) : S[q] = t[q]
       /\ \A r \in 0..(n - 1), i \in 1..5 : S[p - 1 + 5 * r + i] = turn[i]
       /\ \A q \in (p + 1)..a : S[q - 1 + 5 * n] = t[q]

(* The number of sequences is still to be sent, or received: before then   *)
(* it is any number, and after it x.                                       *)
Counts(t, a) == \E i \in 1..a : t[i].op = "count"
Numbers(t, a, x) == IF Counts(t, a) THEN 0..MaxSeqs ELSE {x}

Ordered(t, a) ==
  \A p, q \in 1..a : t[p].op = "count" =>
    (t[q].op = "count" => p = q) /\ (t[q].op = "loop" => p < q)

(* The command that the program is in ends with its a-th step.             *)
Current(t, a) ==
  /\ a \in 1..Len(t) /\ t[a].op \in Endings
  /\ \A q \in 1..(a - 1) : t[q].op \in {"put", "get", "count", "loop"}
  /\ Ordered(t, a)

(* The steps t of the program fit the steps w of the radar: n turns of the *)
(* loop of the one, and m of the other's; u units are on the way to the    *)
(* radar, and d on the way back.                                           *)
Linked(t, a, n, w, m, c, u, d, S, L, W, M) ==
  /\ L \in Nat /\ M \in Nat /\ W \in [1..M -> AStep] /\ Script(S, L)
  /\ Unrolled(t, a, Sequence, n, S, L)
  /\ Unrolled(w, Len(w), Round, m, W, M)
  /\ InStep(S, L, W, M, c, n, u, d)

Talk(t, a, n, w, m, c, u, d) == \E S, L, W, M : Linked(t, a, n, w, m, c, u, d, S, L, W, M)

(* They do whatever the number s that the program knows, and the v that    *)
(* the radar has left.                                                     *)
Converse(t, s, w, v, c, u, d) ==
  \E a \in 1..Len(t) :
    /\ Current(t, a) /\ Ordered(w, Len(w))
    /\ \A m \in Numbers(w, Len(w), v) : \E n \in Numbers(t, a, s) :
         (Counts(w, Len(w)) => n = m) /\ Talk(t, a, n, w, m, c, u, d)

(* The radar's side: it hears the command that is on the way first.        *)
RadarSteps == IF radar = "hear" /\ up # <<>> THEN Get(2) \o (Work(cmd) \o Do("answer")) ELSE work

(* The steps of the program: w are those of the radar at t[i+1], t[i+2]... *)
Conforms(t, i, w) == i + Len(w) <= Len(t) /\ \A j \in 1..Len(w) : Matches(t[i + j], w[j])

Shape(t) ==
  \A i \in 1..Len(t) :
    /\ t[i].op \in Endings \cup {"check", "test", "alloc", "exit"} /\ i < Len(t) => t[i + 1].op \in Pauses
    /\ t[i].op = "send" => t[i].cmd \notin {"QUIT", "none"}
                             /\ Conforms(t, i, Work(t[i].cmd) \o Do("answer"))
    /\ t[i].op \in {"put", "get"} => t[i].n > 0

RadarInv ==
  /\ reset => radar = "ended"
  /\ radar # "work" => work = <<>>
  /\ radar = "work" => work # <<>> /\ \A i \in 1..Len(work) : work[i].op = "answer" <=> i = Len(work)

(* When the radar is gone what it has sent is still to come: w is what it  *)
(* would have gone on with.                                                *)
RunInv ==
  prog = "run" =>
    /\ Shape(todo) /\ cmd # "QUIT"
    /\ Resting => down = <<>> /\ (radar # "ended" => radar = "hear" /\ up = <<>>)
    /\ ~Resting /\ radar # "ended" => Converse(todo, seqs, RadarSteps, nave, cmd, Len(up), down)
    /\ ~Resting /\ radar = "ended" /\ down # <<>> =>
         \E w \in Seq(AStep), v \in 0..MaxSeqs : Converse(todo, seqs, w, v, cmd, 0, down)
    /\ ~Resting /\ radar = "work" => served = cmd
    /\ radar = "hear" /\ up # <<>> => Heard(up, cmd)

(* QUIT was sent between two commands.                                     *)
Quits(q) ==
  \E k \in Nat :
    /\ Len(q) = 2 * k
    /\ \A i \in 1..k : IsHalf(q[2 * i - 1], 1, "QUIT") /\ IsHalf(q[2 * i], 0, "QUIT")

QuitInv ==
  prog = "quit" /\ cmd = "QUIT" =>
    /\ Quits(down)
    /\ radar # "ended" => Quits(up)
    /\ radar = "work" => served = "QUIT" /\ work = Do("answer")

Inv == TypeOK /\ cancelCount <= signals /\ RadarInv /\ RunInv /\ QuitInv

(***************************************************************************)
(* Scripts.                                                                *)
(***************************************************************************)
LEMMA SpansNone == ASSUME NEW F, NEW len, Spans(F, 0, len) PROVE len = 0
  BY DEF Spans

LEMMA SpansZero == ASSUME NEW F PROVE Spans(F, 0, 0)
<1> DEFINE f == [i \in 0..0 |-> 0]
<1>1. /\ f \in [0..0 -> Nat] /\ f[0] = 0
      /\ \A i \in 1..0 : f[i] = f[i - 1] + Size(F[i])
      /\ \A i, j \in 0..0 : i <= j => f[i] <= f[j]
  OBVIOUS
<1> QED
  BY <1>1 DEF Spans

(* One more step.                                                          *)
LEMMA SpansMore ==
  ASSUME NEW F, NEW k \in Nat, NEW len, Spans(F, k, len), Size(F[k + 1]) \in Nat
  PROVE  Spans(F, k + 1, len + Size(F[k + 1])) /\ len \in Nat
<1>1. PICK f \in [0..k -> Nat] :
        /\ f[0] = 0 /\ f[k] = len
        /\ \A i \in 1..k : f[i] = f[i - 1] + Size(F[i])
        /\ \A i, j \in 0..k : i <= j => f[i] <= f[j]
  BY DEF Spans
<1> DEFINE size == Size(F[k + 1])
           g == [i \in 0..(k + 1) |-> IF i = k + 1 THEN len + size ELSE f[i]]
<1>2. len \in Nat /\ size \in Nat
  BY <1>1
<1> HIDE DEF size
<1>3. g \in [0..(k + 1) -> Nat] /\ g[0] = 0 /\ g[k + 1] = len + size
  BY <1>1, <1>2
<1>4. ASSUME NEW i \in 1..(k + 1) PROVE g[i] = g[i - 1] + Size(F[i])
  <2>1. CASE i = k + 1
    BY <1>1, <1>2, <2>1 DEF size
  <2>2. CASE i # k + 1
    <3>1. i \in 1..k /\ i - 1 # k + 1 /\ i - 1 \in 0..(k + 1)
      BY <2>2
    <3> QED
      BY <1>1, <3>1
  <2> QED
    BY <2>1, <2>2
<1>5. ASSUME NEW i \in 0..(k + 1), NEW j \in 0..(k + 1), i <= j PROVE g[i] <= g[j]
  <2>1. \A x \in 0..k : f[x] \in Nat /\ f[x] <= len
    BY <1>1
  <2> QED
    BY <1>1, <1>2, <1>5, <2>1
<1> HIDE DEF g
<1>6. Spans(F, k + 1, len + size)
  BY <1>3, <1>4, <1>5 DEF Spans
<1> QED
  BY <1>2, <1>6 DEF size

(* Without the first step.                                                 *)
LEMMA SpansLess ==
  ASSUME NEW L \in Nat, NEW F, NEW k \in Nat \ {0}, k <= L, NEW len, Spans(F, k, len),
         \A i \in 1..L : Size(F[i]) \in Nat
  PROVE  /\ len \in Nat /\ len >= Size(F[1])
         /\ Spans(Shift(F, L), k - 1, len - Size(F[1]))
<1>1. PICK f \in [0..k -> Nat] :
        /\ f[0] = 0 /\ f[k] = len
        /\ \A i \in 1..k : f[i] = f[i - 1] + Size(F[i])
        /\ \A i, j \in 0..k : i <= j => f[i] <= f[j]
  BY DEF Spans
<1> DEFINE size == Size(F[1])
           g == [i \in 0..(k - 1) |-> f[i + 1] - size]
<1>2. len \in Nat /\ size \in Nat /\ f[1] = size /\ len >= size
  <2>1. 1 \in 1..L /\ 1 \in 1..k /\ 1 \in 0..k /\ k \in 0..k /\ 1 <= k
    OBVIOUS
  <2>2. f[1] = f[1 - 1] + Size(F[1])
    BY <1>1, <2>1
  <2>3. f[1] = size /\ f[1] <= f[k]
    BY <1>1, <2>1, <2>2
  <2> QED
    BY <1>1, <2>1, <2>3
<1> HIDE DEF size
<1>3. \A i \in 0..(k - 1) : i + 1 \in 0..k /\ f[i + 1] \in Nat /\ f[i + 1] >= size
  BY <1>1, <1>2
<1>4. g \in [0..(k - 1) -> Nat] /\ g[0] = 0 /\ g[k - 1] = len - size
  <2>1. \A i \in 0..(k - 1) : f[i + 1] - size \in Nat
    BY <1>2, <1>3
  <2>2. g \in [0..(k - 1) -> Nat]
    BY <2>1
  <2>3. 0 \in 0..(k - 1) /\ k - 1 \in 0..(k - 1) /\ (k - 1) + 1 = k
    OBVIOUS
  <2> QED
    BY <1>1, <1>2, <2>2, <2>3
<1>5. ASSUME NEW i \in 1..(k - 1) PROVE g[i] = g[i - 1] + Size(Shift(F, L)[i])
  <2>1. i + 1 \in 1..k /\ i \in 0..(k - 1) /\ i - 1 \in 0..(k - 1) /\ i \in 1..(L - 1)
    OBVIOUS
  <2>2. Shift(F, L)[i] = F[i + 1]
    BY <2>1 DEF Shift
  <2>3. f[i + 1] = f[(i + 1) - 1] + Size(F[i + 1])
    BY <1>1, <2>1
  <2>4. f[i + 1] = f[i] + Size(F[i + 1]) /\ f[i] \in Nat /\ f[i + 1] \in Nat
    BY <1>1, <2>1, <2>3
  <2>5. g[i] = f[i + 1] - size /\ g[i - 1] = f[i] - size
    BY <2>1
  <2>6. Size(F[i + 1]) \in Nat
    BY <2>1
  <2>7. f[i + 1] - size = (f[i] - size) + Size(F[i + 1])
    BY <1>2, <2>4, <2>6
  <2> QED
    BY <2>2, <2>5, <2>7
<1>6. ASSUME NEW i \in 0..(k - 1), NEW j \in 0..(k - 1), i <= j PROVE g[i] <= g[j]
  BY <1>1, <1>2, <1>3, <1>6
<1> HIDE DEF g
<1> QED
  BY <1>2, <1>4, <1>5, <1>6 DEF Spans, size

LEMMA SizeNat == \A s \in AStep : Size(s) \in Nat
  BY DEF AStep, Size

LEMMA ScriptShift ==
  ASSUME NEW L, NEW S, Script(S, L), L > 1
  PROVE  Script(Shift(S, L), L - 1)
<1>1. L \in Nat /\ L - 1 \in Nat \ {0} /\ S \in [1..L -> AStep]
  BY DEF Script
<1>2. \A q \in 1..(L - 1) : q + 1 \in 1..L /\ Shift(S, L)[q] = S[q + 1]
  BY <1>1 DEF Shift
<1>3. Shift(S, L) \in [1..(L - 1) -> AStep]
  BY <1>1 DEF Shift
<1>4. Shift(S, L)[L - 1].op \in Endings
  BY <1>1, <1>2 DEF Script
<1>5. ASSUME NEW q \in 1..((L - 1) - 1) PROVE Shift(S, L)[q].op \in {"put", "get", "count"}
  <2>1. q \in 1..(L - 1) /\ q + 1 \in 1..(L - 1)
    BY <1>1
  <2> QED
    BY <1>2, <2>1 DEF Script
<1>6. ASSUME NEW q \in 1..(L - 1) PROVE Shift(S, L)[q].op \in {"put", "get"} => Shift(S, L)[q].n > 0
  BY <1>2 DEF Script
<1> QED
  BY <1>1, <1>3, <1>4, <1>5, <1>6 DEF Script

(* The program sends a piece.                                              *)
LEMMA AheadPut ==
  ASSUME NEW L, NEW S, NEW M \in Nat, NEW W \in [1..M -> AStep], NEW u,
         Script(S, L), Ahead(S, L, W, M, u), S[1].op = "put"
  PROVE  L > 1 /\ u \in Nat /\ Ahead(Shift(S, L), L - 1, W, M, u + S[1].n)
<1>1. PICK k \in Nat : /\ M = L + k
                       /\ \A q \in 1..L : Matches(S[q], W[q + k])
                       /\ \A i \in 1..k : W[i].op = "get" /\ W[i].n > 0
                       /\ Spans(W, k, u)
  BY DEF Ahead
<1>2. L \in Nat \ {0} /\ L > 1 /\ S[1] \in AStep /\ S[1].n > 0
  <2>1. L \in Nat \ {0} /\ 1 \in 1..L /\ S \in [1..L -> AStep] /\ S[L].op \in Endings
    BY DEF Script
  <2>2. L # 1
    BY <2>1 DEF Endings
  <2> QED
    BY <2>1, <2>2 DEF Script
<1>3. W[k + 1].op = "get" /\ W[k + 1].n = S[1].n
  <2>1. Matches(S[1], W[1 + k]) /\ 1 + k = k + 1
    BY <1>1, <1>2
  <2> QED
    BY <2>1 DEF Matches, Endings
<1>4. Size(W[k + 1]) = S[1].n /\ S[1].n \in Nat
  BY <1>2, <1>3 DEF Size, AStep
<1>5. Spans(W, k + 1, u + S[1].n) /\ u \in Nat
  BY <1>1, <1>4, SpansMore
<1>6. ASSUME NEW q \in 1..(L - 1) PROVE Matches(Shift(S, L)[q], W[q + (k + 1)])
  <2>1. q + 1 \in 1..L /\ Shift(S, L)[q] = S[q + 1] /\ (q + 1) + k = q + (k + 1)
    BY <1>1, <1>2 DEF Shift
  <2> QED
    BY <1>1, <2>1
<1>7. ASSUME NEW i \in 1..(k + 1) PROVE W[i].op = "get" /\ W[i].n > 0
  BY <1>1, <1>2, <1>3
<1>8. M = (L - 1) + (k + 1) /\ k + 1 \in Nat
  <2>1. M = L + k /\ L \in Nat /\ k \in Nat
    BY <1>1, <1>2
  <2> QED
    BY <2>1
<1> QED
  BY <1>2, <1>5, <1>6, <1>7, <1>8 DEF Ahead

(* The radar takes a piece.                                                *)
LEMMA AheadTake ==
  ASSUME NEW L, NEW S, NEW M \in Nat, NEW W \in [1..M -> AStep], NEW u,
         Script(S, L), Ahead(S, L, W, M, u), W[1].op = "get", u >= W[1].n
  PROVE  M > 0 /\ u \in Nat /\ Ahead(S, L, Shift(W, M), M - 1, u - W[1].n)
<1>1. PICK k \in Nat : /\ M = L + k
                       /\ \A q \in 1..L : Matches(S[q], W[q + k])
                       /\ \A i \in 1..k : W[i].op = "get" /\ W[i].n > 0
                       /\ Spans(W, k, u)
  BY DEF Ahead
<1>2. L \in Nat \ {0} /\ 1 \in 1..L /\ M > 0 /\ 1 \in 1..M
  BY <1>1 DEF Script
<1>3. k # 0
  <2>1. SUFFICES ASSUME k = 0 PROVE FALSE
    OBVIOUS
  <2>2. Matches(S[1], W[1])
    BY <1>1, <1>2, <2>1
  <2>3. S[1].op = "put" /\ S[1].n = W[1].n
    BY <2>2 DEF Matches
  <2>4. W[1].n > 0 /\ u = 0
    BY <1>1, <1>2, <2>1, <2>3, SpansNone DEF Script
  <2> QED
    BY <1>2, <2>4 DEF AStep
<1>4. \A i \in 1..M : Size(W[i]) \in Nat
  BY SizeNat
<1>5. /\ u \in Nat /\ Spans(Shift(W, M), k - 1, u - Size(W[1])) /\ Size(W[1]) = W[1].n
  BY <1>1, <1>2, <1>3, <1>4, SpansLess DEF Size
<1>6. ASSUME NEW q \in 1..L PROVE Matches(S[q], Shift(W, M)[q + (k - 1)])
  <2>1. q + (k - 1) \in 1..(M - 1) /\ (q + (k - 1)) + 1 = q + k
    BY <1>1, <1>2, <1>3
  <2> QED
    BY <1>1, <2>1 DEF Shift
<1>7. ASSUME NEW i \in 1..(k - 1) PROVE Shift(W, M)[i].op = "get" /\ Shift(W, M)[i].n > 0
  <2>1. i \in 1..(M - 1) /\ i + 1 \in 1..k
    BY <1>1, <1>2
  <2> QED
    BY <1>1, <2>1 DEF Shift
<1>8. M - 1 = L + (k - 1) /\ k - 1 \in Nat
  BY <1>1, <1>2, <1>3
<1> QED
  BY <1>2, <1>5, <1>6, <1>7, <1>8 DEF Ahead

(* A sequence of units, behind others.                                     *)
AUnit == [kind : {"status", "type", "piece"}, cmd : Commands \cup {"none"}, n : Nat]

(* The radar sends: a piece, the number of sequences, or the answer.       *)
Gift(w, c, n, units) ==
  /\ units \in Seq(AUnit)
  /\ Len(units) = Size(w)
  /\ w.op \in {"put", "count"} => \A u \in 1..Len(units) : units[u].kind = "piece"
  /\ w.op = "count" => units[1].n = n
  /\ w.op = "answer" =>
       \A u \in 1..Len(units) : IsHalf(units[u], 2 - u, c) /\ units[u].n \in {0, 1}

LEMMA Joined ==
  ASSUME NEW T, NEW s \in Seq(T), NEW t \in Seq(T)
  PROVE  /\ s \o t \in Seq(T) /\ Len(s) \in Nat /\ Len(t) \in Nat
         /\ Len(s \o t) = Len(s) + Len(t)
         /\ \A i \in 1..(Len(s) + Len(t)) :
              (s \o t)[i] = IF i <= Len(s) THEN s[i] ELSE t[i - Len(s)]
  OBVIOUS

LEMMA JoinedOne ==
  ASSUME NEW T, NEW s \in Seq(T), NEW t \in Seq(T), Len(t) = 1
  PROVE  /\ s \o t \in Seq(T) /\ Len(s) \in Nat /\ Len(s \o t) = Len(s) + 1
         /\ \A i \in 1..(Len(s) + 1) : (s \o t)[i] = IF i <= Len(s) THEN s[i] ELSE t[i - Len(s)]
<1> DEFINE x == s \o t
<1>1. /\ x \in Seq(T) /\ Len(s) \in Nat /\ Len(x) = Len(s) + Len(t)
      /\ \A i \in 1..(Len(s) + Len(t)) : x[i] = IF i <= Len(s) THEN s[i] ELSE t[i - Len(s)]
  BY Joined
<1> HIDE DEF x
<1>2. /\ x \in Seq(T) /\ Len(s) \in Nat /\ Len(x) = Len(s) + 1
      /\ \A i \in 1..(Len(s) + 1) : x[i] = IF i <= Len(s) THEN s[i] ELSE t[i - Len(s)]
  BY <1>1
<1> QED
  BY <1>2 DEF x

LEMMA MatchedSize ==
  ASSUME NEW s, NEW w, Matches(s, w), w.op \in {"put", "count", "answer"}
  PROVE  Size(s) = Size(w) /\ s.op # "put" /\ (s.op = "count" <=> w.op = "count")
         /\ (s.op \in Endings <=> w.op = "answer")
  BY DEF Matches, Size, Endings

LEMMA CameMore ==
  ASSUME NEW L, NEW S, Script(S, L), NEW k \in 0..(L - 1), NEW c, NEW n, NEW d \in Seq(AUnit),
         Came(S, L, k, c, n, d), NEW w, Matches(S[k + 1], w), w.op \in {"put", "count", "answer"},
         NEW units, Gift(w, c, n, units)
  PROVE  Came(S, L, k + 1, c, n, More(d, units))
<1> DEFINE both == More(d, units)
<1>1. /\ L \in Nat \ {0} /\ k \in Nat /\ k + 1 \in 1..L /\ S \in [1..L -> AStep]
      /\ S[k + 1] \in AStep /\ k # L
  BY DEF Script
<1>2. /\ Size(S[k + 1]) = Size(w) /\ S[k + 1].op # "put" /\ Size(w) \in Nat
      /\ S[k + 1].op = "count" <=> w.op = "count"
      /\ S[k + 1].op \in Endings <=> w.op = "answer"
  BY <1>1, MatchedSize, SizeNat
<1>3. /\ units \in Seq(AUnit) /\ Len(units) = Size(w) /\ Len(d) \in Nat
      /\ Len(both) = Len(d) + Len(units)
      /\ \A u \in 1..(Len(d) + Len(units)) :
           both[u] = IF u <= Len(d) THEN d[u] ELSE units[u - Len(d)]
  <2>1. units \in Seq(AUnit) /\ Len(units) = Size(w)
    BY DEF Gift
  <2> QED
    BY <2>1, Joined DEF More
<1> HIDE DEF both
<1>4. Spans(S, k + 1, Len(both)) /\ Spans(S, k, Len(d))
  <2>1. Spans(S, k, Len(d))
    BY DEF Came
  <2>2. Spans(S, k + 1, Len(d) + Size(S[k + 1]))
    BY <1>1, <1>2, <2>1, SpansMore
  <2>3. Len(d) + Size(S[k + 1]) = Len(both)
    BY <1>2, <1>3
  <2> QED
    BY <2>1, <2>2, <2>3
<1>5. \A i \in 1..(k + 1) : S[i].op # "put"
  BY <1>1, <1>2 DEF Came
<1>6. k + 1 = L <=> w.op = "answer"
  <2>1. k + 1 = L => S[k + 1].op \in Endings
    BY <1>1 DEF Script
  <2>2. k + 1 # L => S[k + 1].op \in {"put", "get", "count"}
    <3>1. k + 1 # L => k + 1 \in 1..(L - 1)
      BY <1>1
    <3> QED
      BY <3>1 DEF Script
  <2> QED
    BY <1>2, <2>1, <2>2 DEF Endings
<1>7. w.op = "answer" => Len(units) = 2
  BY <1>3 DEF Size
<1>8. ASSUME NEW u \in 1..Len(both)
      PROVE  IF k + 1 = L /\ u > Len(both) - 2
             THEN IsHalf(both[u], Len(both) - u, c) /\ both[u].n \in {0, 1}
             ELSE both[u].kind = "piece"
  <2>1. CASE u <= Len(d)
    <3>1. u \in 1..Len(d) /\ both[u] = d[u]
      BY <1>3, <2>1
    <3>2. d[u].kind = "piece"
      BY <1>1, <3>1 DEF Came
    <3>3. ~(k + 1 = L /\ u > Len(both) - 2)
      BY <1>3, <1>6, <1>7, <2>1
    <3> QED
      BY <3>1, <3>2, <3>3
  <2>2. CASE u > Len(d)
    <3>1. u - Len(d) \in 1..Len(units) /\ both[u] = units[u - Len(d)]
      BY <1>3, <2>2
    <3>2. CASE w.op = "answer"
      <4>1. u > Len(both) - 2 /\ 2 - (u - Len(d)) = Len(both) - u
        BY <1>3, <1>7, <2>2, <3>2
      <4>2. IsHalf(units[u - Len(d)], 2 - (u - Len(d)), c) /\ units[u - Len(d)].n \in {0, 1}
        BY <3>1, <3>2 DEF Gift
      <4> QED
        BY <1>6, <3>1, <3>2, <4>1, <4>2
    <3>3. CASE w.op # "answer"
      BY <1>6, <3>1, <3>3 DEF Gift
    <3> QED
      BY <3>2, <3>3
  <2>3. u \in Nat
    BY <1>3
  <2> QED
    BY <1>3, <2>1, <2>2, <2>3
<1>9. ASSUME NEW p \in 1..(k + 1), S[p].op = "count"
      PROVE  \E u \in 1..Len(both) : Spans(S, p - 1, u - 1) /\ both[u].n = n
  <2>1. CASE p \in 1..k
    <3>1. PICK u \in 1..Len(d) : Spans(S, p - 1, u - 1) /\ d[u].n = n
      BY <1>9, <2>1 DEF Came
    <3>2. u \in 1..Len(both) /\ both[u] = d[u]
      BY <1>3
    <3> QED
      BY <3>1, <3>2
  <2>2. CASE p = k + 1
    <3>1. w.op = "count" /\ Len(units) = 1 /\ units[1].n = n
      BY <1>2, <1>3, <1>9, <2>2 DEF Gift, Size
    <3>2. Len(d) + 1 \in 1..Len(both) /\ both[Len(d) + 1] = units[1]
      BY <1>3, <3>1
    <3>3. Spans(S, p - 1, (Len(d) + 1) - 1)
      <4>1. p - 1 = k /\ (Len(d) + 1) - 1 = Len(d)
        BY <1>1, <1>3, <2>2
      <4> QED
        BY <1>4, <4>1
    <3> QED
      BY <3>1, <3>2, <3>3
  <2> QED
    BY <1>1, <2>1, <2>2
<1>10. Came(S, L, k + 1, c, n, both)
  BY <1>4, <1>5, <1>8, <1>9 DEF Came
<1> QED
  BY <1>10 DEF both

LEMMA CameNone ==
  ASSUME NEW S, NEW L \in Nat, NEW c, NEW n
  PROVE  Came(S, L, 0, c, n, <<>>)
<1>1. Spans(S, 0, Len(<<>>))
  BY SpansZero
<1> QED
  BY <1>1 DEF Came

(* The radar sends what its next step says.                                *)
LEMMA StepGive ==
  ASSUME NEW L, NEW S, Script(S, L), NEW M \in Nat, NEW W \in [1..M -> AStep], NEW c, NEW n,
         NEW u, NEW d \in Seq(AUnit), InStep(S, L, W, M, c, n, u, d),
         M > 0, W[1].op \in {"put", "count", "answer"}
  PROVE  /\ u = 0
         /\ \A units : Gift(W[1], c, n, units) =>
              InStep(S, L, Shift(W, M), M - 1, c, n, 0, More(d, units))
<1>1. (Ahead(S, L, W, M, u) /\ d = <<>>) \/ (Behind(S, L, W, M, c, n, d) /\ u = 0)
  BY DEF InStep
<1>2. ASSUME Ahead(S, L, W, M, u)
      PROVE  u = 0 /\ M = L /\ \A q \in 1..L : Matches(S[q], W[q])
  <2>1. PICK k \in Nat : /\ M = L + k
                         /\ \A q \in 1..L : Matches(S[q], W[q + k])
                         /\ \A i \in 1..k : W[i].op = "get" /\ W[i].n > 0
                         /\ Spans(W, k, u)
    BY <1>2 DEF Ahead
  <2>2. k = 0
    <3>1. k # 0 => 1 \in 1..k
      OBVIOUS
    <3> QED
      BY <2>1, <3>1
  <2>3. L \in Nat
    BY DEF Script
  <2> QED
    BY <2>1, <2>2, <2>3, SpansNone
<1>3. PICK k \in 0..L : /\ L = M + k
                        /\ \A q \in 1..M : Matches(S[q + k], W[q])
                        /\ Came(S, L, k, c, n, d)
  <2>1. CASE Ahead(S, L, W, M, u) /\ d = <<>>
    <3>1. L = M + 0 /\ (\A q \in 1..M : Matches(S[q + 0], W[q])) /\ Came(S, L, 0, c, n, d)
      BY <1>2, <2>1, CameNone
    <3>2. 0 \in 0..L
      BY DEF Script
    <3> QED
      BY <3>1, <3>2
  <2>2. CASE Behind(S, L, W, M, c, n, d)
    <3>1. PICK k \in 1..L : /\ L = M + k
                            /\ \A q \in 1..M : Matches(S[q + k], W[q])
                            /\ Came(S, L, k, c, n, d)
      BY <2>2 DEF Behind
    <3> QED
      BY <3>1
  <2> QED
    BY <1>1, <2>1, <2>2
<1>4. L \in Nat /\ k \in Nat /\ k \in 0..(L - 1) /\ k + 1 \in 1..L /\ L = (M - 1) + (k + 1)
  BY <1>3 DEF Script
<1>5. Matches(S[k + 1], W[1])
  <2>1. Matches(S[1 + k], W[1]) /\ 1 + k = k + 1
    BY <1>3, <1>4
  <2> QED
    BY <2>1
<1>6. ASSUME NEW units, Gift(W[1], c, n, units) PROVE Came(S, L, k + 1, c, n, More(d, units))
  BY <1>3, <1>4, <1>5, <1>6, CameMore
<1>7. ASSUME NEW q \in 1..(M - 1) PROVE Matches(S[q + (k + 1)], Shift(W, M)[q])
  <2>1. q + 1 \in 1..M /\ Shift(W, M)[q] = W[q + 1] /\ (q + 1) + k = q + (k + 1)
    BY <1>4 DEF Shift
  <2> QED
    BY <1>3, <2>1
<1>8. ASSUME NEW units, Gift(W[1], c, n, units)
      PROVE  Behind(S, L, Shift(W, M), M - 1, c, n, More(d, units))
  BY <1>4, <1>6, <1>7, <1>8 DEF Behind
<1> QED
  BY <1>2, <1>1, <1>8 DEF InStep

(* What is left of a queue.                                                *)
LEMMA LaterPart ==
  ASSUME NEW T, NEW d \in Seq(T), NEW size \in Nat, size <= Len(d)
  PROVE  \E rest \in Seq(T) :
           /\ rest = Later(d, size)
           /\ Len(rest) = Len(d) - size /\ Len(rest) \in Nat
           /\ \A u \in 1..Len(rest) : u + size \in 1..Len(d) /\ rest[u] = d[u + size]
<1>1. Len(d) \in Nat
  OBVIOUS
<1>2. \A i \in (size + 1)..Len(d) : d[i] \in T
  BY <1>1
<1>3. /\ SubSeq(d, size + 1, Len(d)) \in Seq(T)
      /\ Len(SubSeq(d, size + 1, Len(d))) =
           IF size + 1 <= Len(d) THEN Len(d) - (size + 1) + 1 ELSE 0
      /\ \A i \in 1..(Len(d) - (size + 1) + 1) : SubSeq(d, size + 1, Len(d))[i] = d[(size + 1) + i - 1]
  BY <1>1, <1>2, SubSeqProperties
<1> DEFINE rest == SubSeq(d, size + 1, Len(d))
<1> HIDE DEF rest
<1>4. rest \in Seq(T) /\ Len(rest) = Len(d) - size /\ Len(rest) \in Nat
  BY <1>1, <1>3 DEF rest
<1>5. ASSUME NEW u \in 1..Len(rest) PROVE u + size \in 1..Len(d) /\ rest[u] = d[u + size]
  <2>1. u \in 1..(Len(d) - (size + 1) + 1) /\ (size + 1) + u - 1 = u + size /\ u + size \in 1..Len(d)
    BY <1>1, <1>4
  <2> QED
    BY <1>3, <2>1 DEF rest
<1>6. rest = Later(d, size)
  BY DEF rest, Later
<1> QED
  BY <1>4, <1>5, <1>6

(* The program takes what has come of its next step.                       *)
LEMMA BehindTake ==
  ASSUME NEW L, NEW S, Script(S, L), NEW M \in Nat, NEW W \in [1..M -> AStep], NEW c, NEW n,
         NEW d \in Seq(AUnit), Behind(S, L, W, M, c, n, d), S[1].op # "put"
  PROVE  /\ Size(S[1]) \in Nat \ {0} /\ Len(d) >= Size(S[1])
         /\ S[1].op \in {"get", "count"} => d[1].kind = "piece"
         /\ S[1].op = "count" => d[1].n = n
         /\ S[1].op \in Endings =>
              Len(d) = 2 /\ M = 0 /\ L = 1 /\ d[1].kind = "status" /\ d[1].cmd = c /\ d[1].n \in {0, 1}
         /\ L > 1 =>
              \/ Behind(Shift(S, L), L - 1, W, M, c, n, Later(d, Size(S[1])))
              \/ Ahead(Shift(S, L), L - 1, W, M, 0) /\ Later(d, Size(S[1])) = <<>>
<1>1. PICK k \in 1..L : /\ L = M + k
                        /\ \A q \in 1..M : Matches(S[q + k], W[q])
                        /\ Came(S, L, k, c, n, d)
  BY DEF Behind
<1> DEFINE size == Size(S[1])
           rest == Later(d, size)
<1>2. /\ L \in Nat \ {0} /\ k \in Nat \ {0} /\ k <= L /\ S \in [1..L -> AStep]
      /\ 1 \in 1..L /\ 1 \in 1..k /\ S[1] \in AStep /\ Len(d) \in Nat
  BY <1>1 DEF Script
<1>3. S[1].op \in {"get", "count"} \/ (L = 1 /\ S[1].op \in Endings)
  <2>1. CASE L = 1
    BY <2>1 DEF Script
  <2>2. CASE L # 1
    <3>1. 1 \in 1..(L - 1)
      BY <1>2, <2>2
    <3>2. S[1].op \in {"put", "get", "count"}
      BY <3>1 DEF Script
    <3> QED
      BY <3>2
  <2> QED
    BY <2>1, <2>2
<1>4. size \in Nat \ {0} /\ (S[1].op \in Endings => size = 2) /\ (S[1].op = "count" => size = 1)
  <2>1. S[1].op = "get" => S[1].n > 0 /\ S[1].n \in Nat
    BY <1>2 DEF Script, AStep
  <2> QED
    BY <1>3, <2>1 DEF Size, Endings
<1>5. \A i \in 1..L : Size(S[i]) \in Nat
  BY <1>2, SizeNat
<1>6. Len(d) >= size /\ Spans(Shift(S, L), k - 1, Len(d) - size)
  <2>1. Spans(S, k, Len(d))
    BY <1>1 DEF Came
  <2> QED
    BY <1>2, <1>5, <2>1, SpansLess
<1>7. 1 \in 1..Len(d)
  BY <1>2, <1>4, <1>6
<1>8. S[1].op \in Endings =>
        Len(d) = 2 /\ M = 0 /\ L = 1 /\ d[1].kind = "status" /\ d[1].cmd = c /\ d[1].n \in {0, 1}
  <2>1. SUFFICES ASSUME S[1].op \in Endings
                 PROVE  Len(d) = 2 /\ M = 0 /\ L = 1
                          /\ d[1].kind = "status" /\ d[1].cmd = c /\ d[1].n \in {0, 1}
    OBVIOUS
  <2>2. L = 1 /\ k = 1 /\ M = 0 /\ size = 2
    BY <1>1, <1>2, <1>3, <1>4, <2>1 DEF Endings
  <2>3. Len(d) - size = 0
    <3>1. k - 1 = 0
      BY <2>2
    <3>2. Spans(Shift(S, L), 0, Len(d) - size)
      BY <1>6, <3>1
    <3> QED
      BY <3>2, SpansNone
  <2>4. Len(d) = 2
    BY <1>2, <2>2, <2>3
  <2>5. IsHalf(d[1], 2 - 1, c) /\ d[1].n \in {0, 1}
    BY <1>1, <1>7, <2>2, <2>4 DEF Came
  <2> QED
    BY <2>2, <2>4, <2>5 DEF IsHalf, Half
<1>9. S[1].op \in {"get", "count"} => L > 1
  BY <1>2 DEF Script, Endings
<1>10. ASSUME k = 1 PROVE Len(d) = size
  <2>1. k - 1 = 0
    BY <1>10
  <2>2. Spans(Shift(S, L), 0, Len(d) - size)
    BY <1>6, <2>1
  <2>3. Len(d) - size = 0
    BY <2>2, SpansNone
  <2> QED
    BY <1>2, <1>4, <2>3
<1>11. S[1].op \in {"get", "count"} => d[1].kind = "piece"
  <2>1. SUFFICES ASSUME S[1].op \in {"get", "count"} PROVE ~(k = L /\ 1 > Len(d) - 2)
    BY <1>1, <1>7 DEF Came
  <2>2. SUFFICES ASSUME k = L PROVE Len(d) > 2
    BY <1>2
  <2>3. L > 1 /\ k - 1 \in 1..(L - 1)
    BY <1>2, <1>9, <2>1, <2>2
  <2>4. /\ Spans(Shift(S, L), k - 1, Len(d) - size)
        /\ Shift(S, L)[L - 1] = S[L] /\ S[L].op \in Endings
    <3>1. L - 1 \in 1..(L - 1) /\ (L - 1) + 1 = L
      BY <1>2, <2>3
    <3> QED
      BY <1>6, <3>1 DEF Shift, Script
  <2>5. Len(d) - size >= 2
    <3>1. PICK f \in [0..(k - 1) -> Nat] :
            /\ f[0] = 0 /\ f[k - 1] = Len(d) - size
            /\ \A i \in 1..(k - 1) : f[i] = f[i - 1] + Size(Shift(S, L)[i])
      BY <2>4 DEF Spans
    <3>2. Size(Shift(S, L)[k - 1]) = 2
      BY <2>2, <2>4 DEF Size, Endings
    <3>3. f[k - 1] = f[(k - 1) - 1] + 2
      BY <2>3, <3>1, <3>2
    <3>4. f[(k - 1) - 1] \in Nat
      BY <2>3, <3>1
    <3> QED
      BY <3>1, <3>3, <3>4
  <2> QED
    BY <1>2, <1>4, <2>5
<1>12. S[1].op = "count" => d[1].n = n
  <2>1. SUFFICES ASSUME S[1].op = "count" PROVE d[1].n = n
    OBVIOUS
  <2>2. PICK u \in 1..Len(d) : Spans(S, 1 - 1, u - 1) /\ d[u].n = n
    BY <1>1, <1>2, <2>1 DEF Came
  <2>3. u = 1
    <3>1. Spans(S, 0, u - 1)
      BY <2>2
    <3> QED
      BY <3>1, SpansNone
  <2> QED
    BY <2>2, <2>3
<1>13. ASSUME L > 1
       PROVE  \/ Behind(Shift(S, L), L - 1, W, M, c, n, rest)
              \/ Ahead(Shift(S, L), L - 1, W, M, 0) /\ rest = <<>>
  <2>1. \A q \in 1..(L - 1) : q + 1 \in 1..L /\ Shift(S, L)[q] = S[q + 1]
    BY <1>2 DEF Shift
  <2>2. CASE k = 1
    <3>1. rest = <<>>
      BY <1>4, <1>10, <2>2, SubSeqEmpty DEF Later
    <3>2. M = (L - 1) + 0
      BY <1>1, <1>2, <2>2
    <3>3. ASSUME NEW q \in 1..(L - 1) PROVE Matches(Shift(S, L)[q], W[q + 0])
      <4>1. q \in 1..M /\ q + 0 = q /\ Shift(S, L)[q] = S[q + k]
        BY <1>1, <1>2, <2>1, <2>2
      <4> QED
        BY <1>1, <4>1
    <3> QED
      BY <3>1, <3>2, <3>3, SpansZero DEF Ahead
  <2>3. CASE k # 1
    <3>1. k - 1 \in 1..(L - 1) /\ L - 1 = M + (k - 1) /\ k - 1 \in Nat
      BY <1>1, <1>2, <2>3
    <3>2. ASSUME NEW q \in 1..M PROVE Matches(Shift(S, L)[q + (k - 1)], W[q])
      <4>1. q + (k - 1) \in 1..(L - 1) /\ (q + (k - 1)) + 1 = q + k
        BY <1>1, <1>2, <2>3
      <4>2. Shift(S, L)[q + (k - 1)] = S[q + k]
        BY <2>1, <4>1
      <4> QED
        BY <1>1, <4>2
    <3> HIDE DEF rest, size
    <3>3. size \in Nat /\ size <= Len(d)
      BY <1>2, <1>4, <1>6
    <3>4. /\ rest \in Seq(AUnit) /\ Len(rest) = Len(d) - size /\ Len(rest) \in Nat
          /\ \A u \in 1..Len(rest) : u + size \in 1..Len(d) /\ rest[u] = d[u + size]
      <4>1. PICK r \in Seq(AUnit) :
              /\ r = Later(d, size)
              /\ Len(r) = Len(d) - size /\ Len(r) \in Nat
              /\ \A u \in 1..Len(r) : u + size \in 1..Len(d) /\ r[u] = d[u + size]
        BY <3>3, LaterPart
      <4>2. rest = r
        BY <4>1 DEF rest
      <4> QED
        BY <4>1, <4>2
    <3>5. \A i \in 1..(k - 1) : Shift(S, L)[i].op # "put"
      <4>1. \A i \in 1..(k - 1) : i \in 1..(L - 1) /\ i + 1 \in 1..k
        BY <1>2
      <4> QED
        BY <1>1, <2>1, <4>1 DEF Came
    <3>6. Spans(Shift(S, L), k - 1, Len(rest))
      BY <1>6, <3>4
    <3>7. ASSUME NEW u \in 1..Len(rest)
          PROVE  IF k - 1 = L - 1 /\ u > Len(rest) - 2
                 THEN IsHalf(rest[u], Len(rest) - u, c) /\ rest[u].n \in {0, 1}
                 ELSE rest[u].kind = "piece"
      <4>1. /\ u + size \in 1..Len(d) /\ rest[u] = d[u + size] /\ u \in Nat
            /\ Len(rest) - u = Len(d) - (u + size)
        BY <1>2, <1>4, <3>4
      <4>2. (k - 1 = L - 1 /\ u > Len(rest) - 2) <=> (k = L /\ u + size > Len(d) - 2)
        BY <1>2, <1>4, <3>4, <4>1
      <4> QED
        BY <1>1, <4>1, <4>2 DEF Came
    <3>8. ASSUME NEW p \in 1..(k - 1), Shift(S, L)[p].op = "count"
          PROVE  \E u \in 1..Len(rest) : Spans(Shift(S, L), p - 1, u - 1) /\ rest[u].n = n
      <4>1. p + 1 \in 1..k /\ p \in 1..(L - 1) /\ p \in Nat \ {0} /\ p <= L /\ (p + 1) - 1 = p
        BY <1>2
      <4>2. S[p + 1].op = "count"
        BY <2>1, <3>8, <4>1
      <4>3. PICK u \in 1..Len(d) : Spans(S, p, u - 1) /\ d[u].n = n
        BY <1>1, <4>1, <4>2 DEF Came
      <4>4. u - 1 >= size /\ Spans(Shift(S, L), p - 1, (u - 1) - size)
        <5>1. /\ u - 1 >= Size(S[1])
              /\ Spans(Shift(S, L), p - 1, (u - 1) - Size(S[1]))
          BY <1>2, <1>5, <4>1, <4>3, SpansLess
        <5> QED
          BY <5>1 DEF size
      <4>5. u - size \in 1..Len(rest) /\ (u - size) - 1 = (u - 1) - size /\ (u - size) + size = u
        BY <1>2, <1>4, <3>4, <4>4
      <4>6. rest[u - size] = d[u]
        BY <3>4, <4>5
      <4> QED
        BY <4>3, <4>4, <4>5, <4>6
    <3>9. Came(Shift(S, L), L - 1, k - 1, c, n, rest)
      BY <3>5, <3>6, <3>7, <3>8 DEF Came
    <3> QED
      BY <3>1, <3>2, <3>9 DEF Behind
  <2> QED
    BY <2>2, <2>3
<1> QED
  BY <1>4, <1>6, <1>8, <1>11, <1>12, <1>13

(***************************************************************************)
(* Loops.                                                                  *)
(***************************************************************************)
LEMMA TailStep ==
  ASSUME NEW T, NEW t \in Seq(T), t # <<>>
  PROVE  /\ Tail(t) \in Seq(T) /\ Len(t) \in Nat \ {0} /\ Len(Tail(t)) = Len(t) - 1
         /\ Head(t) = t[1] /\ 1 \in 1..Len(t) /\ t[1] \in T
         /\ \A q \in 1..(Len(t) - 1) : Tail(t)[q] = t[q + 1] /\ q + 1 \in 1..Len(t)
  OBVIOUS

(* A step that is not a loop.                                              *)
LEMMA UnrollTail ==
  ASSUME NEW t \in Seq(AStep), NEW a \in 1..Len(t), NEW turn, NEW n \in Nat, NEW S, NEW L \in Nat,
         Unrolled(t, a, turn, n, S, L), t[1].op # "loop"
  PROVE  L > 0 /\ S[1] = t[1] /\ Unrolled(Tail(t), a - 1, turn, n, Shift(S, L), L - 1)
<1>1. /\ Len(t) \in Nat /\ t # <<>> /\ a \in Nat \ {0} /\ 1 \in 1..a
      /\ \A q \in 1..(a - 1) : Tail(t)[q] = t[q + 1] /\ q + 1 \in 1..a
  <2>1. Len(t) \in Nat /\ t # <<>> /\ a \in Nat \ {0} /\ 1 \in 1..a /\ a <= Len(t)
    OBVIOUS
  <2>2. \A q \in 1..(Len(t) - 1) : Tail(t)[q] = t[q + 1]
    BY <2>1, TailStep
  <2>3. \A q \in 1..(a - 1) : q \in 1..(Len(t) - 1) /\ q + 1 \in 1..a
    BY <2>1
  <2> QED
    BY <2>1, <2>2, <2>3
<1>2. \A q \in 1..(L - 1) : Shift(S, L)[q] = S[q + 1]
  BY DEF Shift
<1>3. CASE /\ \A q \in 1..a : t[q].op # "loop" /\ S[q] = t[q]
           /\ L = a
  <2>1. \A q \in 1..(a - 1) : Tail(t)[q].op # "loop" /\ Shift(S, L)[q] = Tail(t)[q]
    BY <1>1, <1>2, <1>3
  <2>2. L > 0 /\ S[1] = t[1] /\ L - 1 = a - 1
    BY <1>1, <1>3
  <2> QED
    BY <2>1, <2>2 DEF Unrolled
<1>4. CASE \E p \in 1..a :
             /\ \A q \in 1..a : t[q].op = "loop" <=> q = p
             /\ L = a - 1 + 5 * n
             /\ \A q \in 1..(p - 1) : S[q] = t[q]
             /\ \A r \in 0..(n - 1), i \in 1..5 : S[p - 1 + 5 * r + i] = turn[i]
             /\ \A q \in (p + 1)..a : S[q - 1 + 5 * n] = t[q]
  <2>1. PICK p \in 1..a :
          /\ \A q \in 1..a : t[q].op = "loop" <=> q = p
          /\ L = a - 1 + 5 * n
          /\ \A q \in 1..(p - 1) : S[q] = t[q]
          /\ \A r \in 0..(n - 1), i \in 1..5 : S[p - 1 + 5 * r + i] = turn[i]
          /\ \A q \in (p + 1)..a : S[q - 1 + 5 * n] = t[q]
    BY <1>4
  <2>2. p # 1 /\ p - 1 \in 1..(a - 1) /\ 1 \in 1..(p - 1) /\ p \in Nat
    BY <1>1, <2>1
  <2>3. L > 0 /\ S[1] = t[1] /\ L - 1 = (a - 1) - 1 + 5 * n
    BY <1>1, <2>1, <2>2
  <2>4. ASSUME NEW q \in 1..(a - 1) PROVE Tail(t)[q].op = "loop" <=> q = p - 1
    BY <1>1, <2>1, <2>2
  <2>5. ASSUME NEW q \in 1..((p - 1) - 1) PROVE Shift(S, L)[q] = Tail(t)[q]
    <3>1. q \in 1..(L - 1) /\ q + 1 \in 1..(p - 1) /\ q \in 1..(a - 1)
      BY <1>1, <2>1, <2>2
    <3> QED
      BY <1>1, <1>2, <2>1, <3>1
  <2>6. ASSUME NEW r \in 0..(n - 1), NEW i \in 1..5
        PROVE  Shift(S, L)[(p - 1) - 1 + 5 * r + i] = turn[i]
    <3>1. /\ (p - 1) - 1 + 5 * r + i \in 1..(L - 1)
          /\ ((p - 1) - 1 + 5 * r + i) + 1 = p - 1 + 5 * r + i
      BY <1>1, <2>1, <2>2
    <3>2. Shift(S, L)[(p - 1) - 1 + 5 * r + i] = S[p - 1 + 5 * r + i]
      BY <1>2, <3>1
    <3> QED
      BY <2>1, <3>2
  <2>7. ASSUME NEW q \in ((p - 1) + 1)..(a - 1) PROVE Shift(S, L)[q - 1 + 5 * n] = Tail(t)[q]
    <3>1. /\ q - 1 + 5 * n \in 1..(L - 1) /\ q \in 1..(a - 1) /\ q + 1 \in (p + 1)..a
          /\ (q - 1 + 5 * n) + 1 = (q + 1) - 1 + 5 * n
      BY <1>1, <2>1, <2>2
    <3>2. Shift(S, L)[q - 1 + 5 * n] = S[(q + 1) - 1 + 5 * n]
      BY <1>2, <3>1
    <3>3. S[(q + 1) - 1 + 5 * n] = t[q + 1]
      BY <2>1, <3>1
    <3> QED
      BY <1>1, <3>1, <3>2, <3>3
  <2> QED
    BY <2>2, <2>3, <2>4, <2>5, <2>6, <2>7 DEF Unrolled
<1> QED
  BY <1>3, <1>4 DEF Unrolled

(* A loop: one more turn of it, or the end.                                *)
LEMMA UnrollTurn ==
  ASSUME NEW t \in Seq(AStep), NEW a \in 1..Len(t), NEW turn \in Seq(AStep), Len(turn) = 5,
         \A i \in 1..5 : turn[i].op # "loop",
         NEW n \in Nat \ {0}, NEW S, NEW L \in Nat,
         Unrolled(t, a, turn, n, S, L), t[1].op = "loop"
  PROVE  Unrolled(turn \o t, a + 5, turn, n - 1, S, L)
<1> DEFINE both == turn \o t
<1>1. Len(t) \in Nat /\ a \in Nat \ {0} /\ 1 \in 1..a /\ a <= Len(t)
  OBVIOUS
<1>2. /\ \A q \in 1..a : t[q].op = "loop" <=> q = 1
      /\ L = a - 1 + 5 * n
      /\ \A r \in 0..(n - 1), i \in 1..5 : S[5 * r + i] = turn[i]
      /\ \A q \in 2..a : S[q - 1 + 5 * n] = t[q]
  <2>1. PICK p \in 1..a :
          /\ \A q \in 1..a : t[q].op = "loop" <=> q = p
          /\ L = a - 1 + 5 * n
          /\ \A r \in 0..(n - 1), i \in 1..5 : S[p - 1 + 5 * r + i] = turn[i]
          /\ \A q \in (p + 1)..a : S[q - 1 + 5 * n] = t[q]
    BY <1>1 DEF Unrolled
  <2>2. p = 1
    BY <1>1, <2>1
  <2>3. ASSUME NEW r \in 0..(n - 1), NEW i \in 1..5 PROVE S[5 * r + i] = turn[i]
    <3>1. S[p - 1 + 5 * r + i] = turn[i]
      BY <2>1
    <3>2. p - 1 + 5 * r + i = 5 * r + i
      BY <2>2
    <3> QED
      BY <3>1, <3>2
  <2>4. \A q \in 1..a : t[q].op = "loop" <=> q = 1
    BY <2>1, <2>2
  <2>5. \A q \in 2..a : S[q - 1 + 5 * n] = t[q]
    BY <2>1, <2>2
  <2> QED
    BY <2>1, <2>3, <2>4, <2>5
<1>3. \A q \in 1..(5 + Len(t)) : both[q] = IF q <= 5 THEN turn[q] ELSE t[q - 5]
  <2>1. \A q \in 1..(Len(turn) + Len(t)) :
          both[q] = IF q <= Len(turn) THEN turn[q] ELSE t[q - Len(turn)]
    BY Joined
  <2> QED
    BY <2>1 DEF both
<1> HIDE DEF both
<1>4. ASSUME NEW q \in 1..(a + 5) PROVE both[q].op = "loop" <=> q = 6
  <2>1. q \in 1..(5 + Len(t)) /\ q \in Nat
    BY <1>1
  <2>2. CASE q <= 5
    <3>1. both[q] = turn[q] /\ q \in 1..5 /\ q # 6
      BY <1>3, <2>1, <2>2
    <3> QED
      BY <3>1
  <2>3. CASE q > 5
    <3>1. both[q] = t[q - 5] /\ q - 5 \in 1..a
      BY <1>1, <1>3, <2>1, <2>3
    <3>2. q - 5 = 1 <=> q = 6
      BY <1>1
    <3> QED
      BY <1>2, <3>1, <3>2
  <2> QED
    BY <2>1, <2>2, <2>3
<1>5. L = (a + 5) - 1 + 5 * (n - 1)
  BY <1>1, <1>2
<1>6. ASSUME NEW q \in 1..(6 - 1) PROVE S[q] = both[q]
  <2>1. q \in 1..5 /\ 0 \in 0..(n - 1) /\ 5 * 0 + q = q
    OBVIOUS
  <2>2. S[q] = turn[q]
    <3>1. S[5 * 0 + q] = turn[q]
      BY <1>2, <2>1
    <3> QED
      BY <2>1, <3>1
  <2>3. q \in 1..(5 + Len(t)) /\ q <= 5
    BY <1>1
  <2> QED
    BY <1>3, <2>2, <2>3
<1>7. ASSUME NEW r \in 0..((n - 1) - 1), NEW i \in 1..5 PROVE S[6 - 1 + 5 * r + i] = turn[i]
  <2>1. r + 1 \in 0..(n - 1) /\ 5 * (r + 1) + i = 6 - 1 + 5 * r + i
    OBVIOUS
  <2>2. S[5 * (r + 1) + i] = turn[i]
    BY <1>2, <2>1
  <2> QED
    BY <2>1, <2>2
<1>8. ASSUME NEW q \in (6 + 1)..(a + 5) PROVE S[q - 1 + 5 * (n - 1)] = both[q]
  <2>1. /\ q - 5 \in 2..a /\ (q - 5) - 1 + 5 * n = q - 1 + 5 * (n - 1)
        /\ q \in 1..(5 + Len(t)) /\ ~(q <= 5)
    BY <1>1
  <2>2. S[(q - 5) - 1 + 5 * n] = t[q - 5]
    BY <1>2, <2>1
  <2>3. both[q] = t[q - 5]
    BY <1>3, <2>1
  <2> QED
    BY <2>1, <2>2, <2>3
<1>9. 6 \in 1..(a + 5)
  BY <1>1
<1>10. Unrolled(both, a + 5, turn, n - 1, S, L)
  BY <1>4, <1>5, <1>6, <1>7, <1>8, <1>9 DEF Unrolled
<1> QED
  BY <1>10 DEF both

LEMMA UnrollSkip ==
  ASSUME NEW t \in Seq(AStep), NEW a \in 1..Len(t), NEW turn, NEW n, NEW S, NEW L \in Nat,
         Unrolled(t, a, turn, 0, S, L), t[1].op = "loop"
  PROVE  Unrolled(Tail(t), a - 1, turn, n, S, L)
<1>1. Len(t) \in Nat /\ t # <<>> /\ a \in Nat \ {0} /\ 1 \in 1..a /\ a <= Len(t)
  OBVIOUS
<1>2. PICK p \in 1..a :
        /\ \A q \in 1..a : t[q].op = "loop" <=> q = p
        /\ L = a - 1 + 5 * 0
        /\ \A q \in (p + 1)..a : S[q - 1 + 5 * 0] = t[q]
  BY <1>1 DEF Unrolled
<1>3. p = 1
  BY <1>1, <1>2
<1>4. ASSUME NEW q \in 1..(a - 1) PROVE Tail(t)[q].op # "loop" /\ S[q] = Tail(t)[q]
  <2>1. /\ q + 1 \in (p + 1)..a /\ q + 1 \in 1..a /\ q + 1 # 1 /\ (q + 1) - 1 + 5 * 0 = q
        /\ q \in 1..(Len(t) - 1)
    BY <1>1, <1>3
  <2>2. S[(q + 1) - 1 + 5 * 0] = t[q + 1]
    BY <1>2, <2>1
  <2>3. t[q + 1].op # "loop"
    BY <1>2, <1>3, <2>1
  <2>4. Tail(t)[q] = t[q + 1]
    BY <1>1, <2>1, TailStep
  <2> QED
    BY <2>1, <2>2, <2>3, <2>4
<1>5. L = a - 1
  BY <1>1, <1>2
<1> QED
  BY <1>4, <1>5 DEF Unrolled

(***************************************************************************)
(* What the program sends the radar receives, and the other way round.     *)
(***************************************************************************)
Moves == {"put", "get", "count", "loop"}
RStep == [op : Moves \cup {"answer"}, cmd : {"none"}, n : Nat]

Mirrors(d, w) ==
  /\ d \in Seq(AStep) /\ w \in Seq(RStep) /\ Len(d) = Len(w)
  /\ \A i \in 1..Len(d) : /\ d[i].op \in Moves /\ Matches(d[i], w[i])
                          /\ d[i].op \in {"put", "get"} => d[i].n > 0

(* u is a steps, those of s, and b, those of t.                            *)
Joint(u, s, a, t, b) ==
  /\ u \in Seq(AStep) /\ a \in Nat /\ b \in Nat /\ Len(u) = a + b
  /\ \A i \in 1..(a + b) : \/ i \in 1..a /\ u[i] = s[i]
                           \/ i - a \in 1..b /\ u[i] = t[i - a]

LEMMA JoinedSteps ==
  ASSUME NEW s \in Seq(AStep), NEW t \in Seq(AStep)
  PROVE  Joint(s \o t, s, Len(s), t, Len(t))
  BY DEF Joint

LEMMA RadarStep == ASSUME NEW w \in Seq(RStep) PROVE w \in Seq(AStep)
<1>1. RStep \subseteq AStep
  BY DEF RStep, AStep, Moves, Ops
<1> QED
  BY <1>1

LEMMA TimesStep ==
  ASSUME NEW T, NEW x \in T, NEW k \in Nat
  PROVE  /\ Times(k, <<x>>) \in Seq(T) /\ Len(Times(k, <<x>>)) = k
         /\ \A i \in 1..k : Times(k, <<x>>)[i] = x
<1> DEFINE t == [i \in 1..k |-> x]
<1>1. Times(k, <<x>>) = t
  BY DEF Times
<1>2. t \in [1..k -> T]
  OBVIOUS
<1>3. t \in Seq(T) /\ Len(t) = k
  BY <1>2, SeqDef, LenProperties
<1> QED
  BY <1>1, <1>3

LEMMA SomeSteps ==
  \A op \in Moves \cup {"answer"}, n \in Nat : Step(op, "none", n) \in RStep /\ Step(op, "none", n) \in AStep
  BY DEF Step, RStep, AStep, Moves, Ops

LEMMA MirrorsTimes ==
  ASSUME NEW k \in Nat, NEW x \in AStep, NEW y \in RStep, x.op \in Moves, Matches(x, y),
         x.op \in {"put", "get"} => x.n > 0
  PROVE  Mirrors(Times(k, <<x>>), Times(k, <<y>>))
<1> DEFINE d == Times(k, <<x>>)
           w == Times(k, <<y>>)
<1>1. d \in Seq(AStep) /\ Len(d) = k /\ \A i \in 1..k : d[i] = x
  BY TimesStep
<1>2. w \in Seq(RStep) /\ Len(w) = k /\ \A i \in 1..k : w[i] = y
  BY TimesStep
<1> HIDE DEF d, w
<1>3. Mirrors(d, w)
  BY <1>1, <1>2 DEF Mirrors
<1> QED
  BY <1>3 DEF d, w

LEMMA MirrorsData ==
  ASSUME NEW k \in Nat, NEW size \in Nat \ {0}
  PROVE  Mirrors(Times(k, Put(size)), Times(k, Get(size))) /\ Mirrors(Times(k, Get(size)), Times(k, Put(size)))
<1> DEFINE p == Step("put", "none", size)
           g == Step("get", "none", size)
<1>1. p \in AStep /\ p \in RStep /\ g \in AStep /\ g \in RStep
  BY SomeSteps DEF Moves
<1>2. /\ p.op = "put" /\ g.op = "get" /\ p.n = size /\ g.n = size
      /\ p.op \in Moves /\ g.op \in Moves /\ p.n > 0 /\ g.n > 0
  BY DEF Step, Moves
<1>3. Put(size) = <<p>> /\ Get(size) = <<g>>
  BY DEF Put, Get
<1> HIDE DEF p, g
<1>4. Matches(p, g) /\ Matches(g, p)
  BY <1>2 DEF Matches
<1> QED
  BY <1>1, <1>2, <1>3, <1>4, MirrorsTimes

LEMMA MirrorsStep ==
  ASSUME NEW x \in AStep, NEW y \in RStep, x.op \in Moves, Matches(x, y),
         x.op \in {"put", "get"} => x.n > 0
  PROVE  Mirrors(<<x>>, <<y>>)
<1>1. <<x>> \in Seq(AStep) /\ <<y>> \in Seq(RStep) /\ Len(<<x>>) = 1 /\ Len(<<y>>) = 1
      /\ <<x>>[1] = x /\ <<y>>[1] = y
  OBVIOUS
<1> QED
  BY <1>1 DEF Mirrors

LEMMA MirrorsOne ==
  /\ \A size \in Nat \ {0} : Mirrors(Put(size), Get(size)) /\ Mirrors(Get(size), Put(size))
  /\ Mirrors(Do("count"), Do("count")) /\ Mirrors(Do("loop"), Do("loop"))
  /\ Mirrors(<<>>, <<>>)
<1>1. ASSUME NEW size \in Nat \ {0} PROVE Mirrors(Put(size), Get(size)) /\ Mirrors(Get(size), Put(size))
  <2> DEFINE p == Step("put", "none", size)
             g == Step("get", "none", size)
  <2>1. p \in AStep /\ p \in RStep /\ g \in AStep /\ g \in RStep
    BY SomeSteps DEF Moves
  <2>2. /\ p.op = "put" /\ g.op = "get" /\ p.n = size /\ g.n = size
        /\ p.op \in Moves /\ g.op \in Moves /\ p.n > 0 /\ g.n > 0
    BY DEF Step, Moves
  <2>3. Put(size) = <<p>> /\ Get(size) = <<g>>
    BY DEF Put, Get
  <2> HIDE DEF p, g
  <2>4. Matches(p, g) /\ Matches(g, p)
    BY <2>2 DEF Matches
  <2> QED
    BY <2>1, <2>2, <2>3, <2>4, MirrorsStep
<1>2. ASSUME NEW op \in {"count", "loop"} PROVE Mirrors(Do(op), Do(op))
  <2> DEFINE x == Step(op, "none", 0)
  <2>1. x \in AStep /\ x \in RStep
    BY SomeSteps DEF Moves
  <2>2. x.op = op /\ x.op \in Moves
    BY DEF Step, Moves
  <2>3. Do(op) = <<x>>
    BY DEF Do
  <2> HIDE DEF x
  <2>4. Matches(x, x)
    BY <2>2 DEF Matches
  <2> QED
    BY <2>1, <2>2, <2>3, <2>4, MirrorsStep
<1>3. Mirrors(<<>>, <<>>)
  BY DEF Mirrors
<1> QED
  BY <1>1, <1>2, <1>3

LEMMA MirrorsJoin ==
  ASSUME NEW d, NEW w, NEW e, NEW x, Mirrors(d, w), Mirrors(e, x)
  PROVE  Mirrors(d \o e, w \o x)
<1> DEFINE de == d \o e
           wx == w \o x
<1>1. /\ d \in Seq(AStep) /\ w \in Seq(RStep) /\ e \in Seq(AStep) /\ x \in Seq(RStep)
      /\ Len(d) = Len(w) /\ Len(e) = Len(x)
  BY DEF Mirrors
<1>2. /\ de \in Seq(AStep) /\ Len(d) \in Nat /\ Len(e) \in Nat /\ Len(de) = Len(d) + Len(e)
      /\ \A i \in 1..(Len(d) + Len(e)) : de[i] = IF i <= Len(d) THEN d[i] ELSE e[i - Len(d)]
  BY <1>1, Joined
<1>3. /\ wx \in Seq(RStep) /\ Len(wx) = Len(w) + Len(x)
      /\ \A i \in 1..(Len(w) + Len(x)) : wx[i] = IF i <= Len(w) THEN w[i] ELSE x[i - Len(w)]
  BY <1>1, Joined
<1> HIDE DEF de, wx
<1>4. ASSUME NEW i \in 1..Len(de)
      PROVE  /\ de[i].op \in Moves /\ Matches(de[i], wx[i])
             /\ de[i].op \in {"put", "get"} => de[i].n > 0
  <2>1. i \in 1..(Len(d) + Len(e)) /\ i \in Nat
    BY <1>2
  <2>2. CASE i <= Len(d)
    <3>1. i \in 1..Len(d) /\ de[i] = d[i] /\ wx[i] = w[i]
      BY <1>1, <1>2, <1>3, <2>1, <2>2
    <3> QED
      BY <3>1 DEF Mirrors
  <2>3. CASE i > Len(d)
    <3>1. i - Len(d) \in 1..Len(e) /\ de[i] = e[i - Len(d)] /\ wx[i] = x[i - Len(d)]
      BY <1>1, <1>2, <1>3, <2>1, <2>3
    <3> QED
      BY <3>1 DEF Mirrors
  <2> QED
    BY <1>2, <2>1, <2>2, <2>3
<1>5. Mirrors(de, wx)
  BY <1>1, <1>2, <1>3, <1>4 DEF Mirrors
<1> QED
  BY <1>5 DEF de, wx

(* The rounds of the loop.                                                 *)
LEMMA TurnMirrors == Mirrors(Sequence, Round)
<1>1. Mirrors(Times(2, Get(1)), Times(2, Put(1)))
  BY MirrorsData
<1>2. Mirrors(Times(2, Get(Large)), Times(2, Put(Large)))
  BY MirrorsData, LinkAssumption
<1>3. Mirrors(Put(1), Get(1))
  BY MirrorsOne
<1>4. Mirrors(Times(2, Get(1)) \o Times(2, Get(Large)), Times(2, Put(1)) \o Times(2, Put(Large)))
  BY <1>1, <1>2, MirrorsJoin
<1> QED
  BY <1>3, <1>4, MirrorsJoin DEF Sequence, Round

LEMMA TurnSteps ==
  /\ Sequence \in Seq(AStep) /\ Len(Sequence) = 5 /\ Round \in Seq(RStep) /\ Len(Round) = 5
  /\ \A i \in 1..5 : /\ Sequence[i].op \in {"put", "get"} /\ Round[i].op \in {"put", "get"}
                     /\ Matches(Sequence[i], Round[i])
  /\ \A i \in 1..5 : Sequence[i].n > 0
<1> DEFINE g == <<Step("get", "none", 1)>>
           h == <<Step("get", "none", Large)>>
           p == <<Step("put", "none", 1)>>
<1>1. /\ Times(2, g) \in Seq(AStep) /\ Len(Times(2, g)) = 2
      /\ \A i \in 1..2 : Times(2, g)[i] = Step("get", "none", 1)
  BY TimesStep, SomeSteps DEF Moves
<1>2. /\ Times(2, h) \in Seq(AStep) /\ Len(Times(2, h)) = 2
      /\ \A i \in 1..2 : Times(2, h)[i] = Step("get", "none", Large)
  BY TimesStep, SomeSteps, LinkAssumption DEF Moves
<1> DEFINE four == Times(2, g) \o Times(2, h)
<1>3. four \in Seq(AStep) /\ Len(four) = 4 /\ \A i \in 1..4 : four[i].op = "get"
  <2>1. Joint(four, Times(2, g), 2, Times(2, h), 2)
    BY <1>1, <1>2, JoinedSteps
  <2> HIDE DEF four, g, h
  <2>2. \A i \in 1..4 : four[i] = Step("get", "none", 1) \/ four[i] = Step("get", "none", Large)
    BY <1>1, <1>2, <2>1 DEF Joint, g, h
  <2> QED
    BY <2>1, <2>2 DEF Step, Joint
<1>4. Sequence = four \o p
  BY DEF Sequence, Get, Put
<1>5. p \in Seq(AStep) /\ Len(p) = 1 /\ p[1].op = "put"
  BY SomeSteps DEF Moves, Step
<1> HIDE DEF four, p
<1>6. Joint(Sequence, four, 4, p, 1)
  BY <1>3, <1>4, <1>5, JoinedSteps
<1>7. ASSUME NEW i \in 1..5 PROVE Sequence[i].op \in {"put", "get"}
  BY <1>3, <1>5, <1>6 DEF Joint
<1>8. \A i \in 1..5 : Matches(Sequence[i], Round[i]) /\ Sequence[i].n > 0
  BY <1>6, <1>7, TurnMirrors DEF Mirrors, Joint
<1>9. \A i \in 1..5 : Round[i].op \in {"put", "get"}
  BY <1>7, <1>8 DEF Matches, Endings
<1>10. Len(Sequence) = 5 /\ Len(Round) = 5 /\ Sequence \in Seq(AStep) /\ Round \in Seq(RStep)
  <2>1. Len(Sequence) = 5
    BY <1>6 DEF Joint
  <2>2. Sequence \in Seq(AStep) /\ Round \in Seq(RStep) /\ Len(Sequence) = Len(Round)
    BY TurnMirrors DEF Mirrors
  <2> QED
    BY <2>1, <2>2
<1> QED
  BY <1>7, <1>8, <1>9, <1>10

(***************************************************************************)
(* The number of sequences in a script.                                    *)
(***************************************************************************)
LEMMA Fives ==
  ASSUME NEW p \in Nat, NEW n \in Nat, NEW x \in Nat, p <= x, x < p + 5 * n
  PROVE  \E r \in 0..(n - 1), i \in 1..5 : x = p - 1 + 5 * r + i
<1> DEFINE y == x - p
           r == y \div 5
           i == (y % 5) + 1
<1>1. y \in Nat /\ y < 5 * n
  OBVIOUS
<1> HIDE DEF y
<1>2. r \in Int /\ i \in 1..5 /\ y = 5 * r + (i - 1)
  BY <1>1
<1> HIDE DEF r, i
<1>3. r \in 0..(n - 1)
  BY <1>1, <1>2
<1>4. x = p - 1 + 5 * r + i
  BY <1>2 DEF y
<1> QED
  BY <1>2, <1>3, <1>4

(* Where a step of the script comes from, when it is not one of a turn.    *)
CountsFrom(t, a, S, L) ==
  \A x \in 1..L : S[x].op = "count" => \E y \in 1..a : t[y].op = "count" /\ (y = 1 => x = 1)

LEMMA ComesFrom ==
  ASSUME NEW t, NEW a \in Nat, NEW turn, NEW n \in Nat, NEW S, NEW L \in Nat,
         Unrolled(t, a, turn, n, S, L), \A i \in 1..5 : turn[i].op \in {"put", "get"}
  PROVE  CountsFrom(t, a, S, L)
<1> SUFFICES ASSUME NEW x \in 1..L, S[x].op = "count"
             PROVE  \E y \in 1..a : t[y].op = "count" /\ (y = 1 => x = 1)
  BY DEF CountsFrom
<1>1. CASE /\ \A q \in 1..a : t[q].op # "loop" /\ S[q] = t[q]
           /\ L = a
  BY <1>1
<1>2. CASE \E p \in 1..a :
             /\ \A q \in 1..a : t[q].op = "loop" <=> q = p
             /\ L = a - 1 + 5 * n
             /\ \A q \in 1..(p - 1) : S[q] = t[q]
             /\ \A r \in 0..(n - 1), i \in 1..5 : S[p - 1 + 5 * r + i] = turn[i]
             /\ \A q \in (p + 1)..a : S[q - 1 + 5 * n] = t[q]
  <2>1. PICK p \in 1..a :
          /\ L = a - 1 + 5 * n
          /\ \A q \in 1..(p - 1) : S[q] = t[q]
          /\ \A r \in 0..(n - 1), i \in 1..5 : S[p - 1 + 5 * r + i] = turn[i]
          /\ \A q \in (p + 1)..a : S[q - 1 + 5 * n] = t[q]
    BY <1>2
  <2>2. CASE x < p
    <3>1. x \in 1..(p - 1) /\ x \in 1..a
      BY <2>2
    <3>2. t[x].op = "count"
      BY <2>1, <3>1
    <3> QED
      BY <3>1, <3>2
  <2>3. CASE p <= x /\ x < p + 5 * n
    <3>1. PICK r \in 0..(n - 1), i \in 1..5 : x = p - 1 + 5 * r + i
      <4>1. p \in Nat /\ x \in Nat /\ n \in Nat /\ p <= x /\ x < p + 5 * n
        BY <2>3
      <4> QED
        BY <4>1, Fives, ZenonT(30)
    <3>2. S[x] = turn[i]
      BY <2>1, <3>1
    <3> QED
      BY <3>2
  <2>4. CASE x >= p + 5 * n
    <3>1. x + 1 - 5 * n \in (p + 1)..a /\ x + 1 - 5 * n \in 1..a
          /\ (x + 1 - 5 * n) - 1 + 5 * n = x /\ x + 1 - 5 * n # 1
      BY <2>1, <2>4
    <3>2. S[(x + 1 - 5 * n) - 1 + 5 * n] = t[x + 1 - 5 * n]
      BY <2>1, <3>1
    <3>3. t[x + 1 - 5 * n].op = "count"
      BY <3>1, <3>2
    <3> QED
      BY <3>1, <3>3
  <2>5. x \in Nat /\ p \in Nat
    OBVIOUS
  <2> QED
    BY <2>2, <2>3, <2>4, <2>5
<1> QED
  BY <1>1, <1>2 DEF Unrolled

LEMMA GoesTo ==
  ASSUME NEW t, NEW a \in Nat, NEW turn, NEW n \in Nat, NEW S, NEW L \in Nat,
         Unrolled(t, a, turn, n, S, L), Counts(t, a)
  PROVE  \E x \in 1..L : S[x].op = "count"
<1>1. PICK i \in 1..a : t[i].op = "count"
  BY DEF Counts
<1>2. CASE /\ \A q \in 1..a : t[q].op # "loop" /\ S[q] = t[q]
           /\ L = a
  BY <1>1, <1>2
<1>3. CASE \E p \in 1..a :
             /\ \A q \in 1..a : t[q].op = "loop" <=> q = p
             /\ L = a - 1 + 5 * n
             /\ \A q \in 1..(p - 1) : S[q] = t[q]
             /\ \A r \in 0..(n - 1), j \in 1..5 : S[p - 1 + 5 * r + j] = turn[j]
             /\ \A q \in (p + 1)..a : S[q - 1 + 5 * n] = t[q]
  <2>1. PICK p \in 1..a :
          /\ \A q \in 1..a : t[q].op = "loop" <=> q = p
          /\ L = a - 1 + 5 * n
          /\ \A q \in 1..(p - 1) : S[q] = t[q]
          /\ \A q \in (p + 1)..a : S[q - 1 + 5 * n] = t[q]
    BY <1>3
  <2>2. i # p
    BY <1>1, <2>1
  <2>3. CASE i < p
    <3>1. i \in 1..(p - 1) /\ i \in 1..L
      BY <2>1, <2>3
    <3>2. S[i].op = "count"
      BY <1>1, <2>1, <3>1
    <3> QED
      BY <3>1, <3>2
  <2>4. CASE i > p
    <3>1. i \in (p + 1)..a /\ i - 1 + 5 * n \in 1..L
      BY <2>1, <2>4
    <3>2. S[i - 1 + 5 * n].op = "count"
      BY <1>1, <2>1, <3>1
    <3> QED
      BY <3>1, <3>2
  <2>5. i \in Nat /\ p \in Nat
    OBVIOUS
  <2> QED
    BY <2>2, <2>3, <2>4, <2>5
<1> QED
  BY <1>2, <1>3 DEF Unrolled

(* The radar sends the number only to a program that waits for it.         *)
LEMMA TalkCounts ==
  ASSUME NEW t, NEW a \in Nat, NEW n \in Nat, NEW w \in Seq(AStep), NEW m \in Nat, NEW c, NEW u,
         NEW d, Talk(t, a, n, w, m, c, u, d), Counts(w, Len(w))
  PROVE  \E y \in 1..a : t[y].op = "count" /\ (y = 1 => d = <<>>)
<1>1. PICK S, L, W, M :
        /\ L \in Nat /\ M \in Nat /\ W \in [1..M -> AStep] /\ Script(S, L)
        /\ Unrolled(t, a, Sequence, n, S, L)
        /\ Unrolled(w, Len(w), Round, m, W, M)
        /\ InStep(S, L, W, M, c, n, u, d)
  BY DEF Talk, Linked
<1>2. PICK q \in 1..M : W[q].op = "count"
  <2>1. Len(w) \in Nat
    OBVIOUS
  <2> QED
    BY <1>1, <2>1, GoesTo
<1>3. \E x \in 1..L : S[x].op = "count" /\ (x = 1 => d = <<>>)
  <2>1. CASE Ahead(S, L, W, M, u) /\ d = <<>>
    <3>1. PICK k \in Nat : /\ M = L + k
                           /\ \A x \in 1..L : Matches(S[x], W[x + k])
                           /\ \A i \in 1..k : W[i].op = "get"
      BY <2>1 DEF Ahead
    <3>2. q > k /\ q - k \in 1..L /\ (q - k) + k = q
      <4>1. ~(q \in 1..k)
        BY <1>2, <3>1
      <4> QED
        BY <1>1, <3>1, <4>1
    <3>3. Matches(S[q - k], W[q])
      BY <3>1, <3>2
    <3>4. S[q - k].op = "count"
      BY <1>2, <3>3 DEF Matches
    <3> QED
      BY <2>1, <3>2, <3>4
  <2>2. CASE Behind(S, L, W, M, c, n, d)
    <3>1. PICK k \in 1..L : /\ L = M + k
                            /\ \A x \in 1..M : Matches(S[x + k], W[x])
      BY <2>2 DEF Behind
    <3>2. q + k \in 1..L /\ q + k # 1
      BY <1>1, <3>1
    <3>3. S[q + k].op = "count"
      BY <1>2, <3>1 DEF Matches
    <3> QED
      BY <3>2, <3>3
  <2> QED
    BY <1>1, <2>1, <2>2 DEF InStep
<1>4. PICK x \in 1..L : S[x].op = "count" /\ (x = 1 => d = <<>>)
  BY <1>3
<1>5. \E y \in 1..a : t[y].op = "count" /\ (y = 1 => x = 1)
  <2>1. \A i \in 1..5 : Sequence[i].op \in {"put", "get"}
    BY TurnSteps
  <2>2. Unrolled(t, a, Sequence, n, S, L) /\ L \in Nat
    BY <1>1
  <2>3. CountsFrom(t, a, S, L)
    BY <2>1, <2>2, ComesFrom
  <2> QED
    BY <1>4, <2>3 DEF CountsFrom
<1> QED
  BY <1>4, <1>5

(***************************************************************************)
(* What a step of either end does to the scripts.                          *)
(***************************************************************************)
LEMMA StepPut ==
  ASSUME NEW S, NEW L, Script(S, L), NEW M \in Nat, NEW W \in [1..M -> AStep], NEW c, NEW n, NEW u,
         NEW d, InStep(S, L, W, M, c, n, u, d), S[1].op = "put"
  PROVE  /\ d = <<>> /\ L > 1 /\ u \in Nat
         /\ InStep(Shift(S, L), L - 1, W, M, c, n, u + S[1].n, d)
<1>1. Ahead(S, L, W, M, u) /\ d = <<>>
  <2>1. SUFFICES ASSUME Behind(S, L, W, M, c, n, d) PROVE FALSE
    BY DEF InStep
  <2>2. PICK k \in 1..L : Came(S, L, k, c, n, d)
    BY <2>1 DEF Behind
  <2>3. 1 \in 1..k
    BY DEF Script
  <2>4. S[1].op # "put"
    BY <2>2, <2>3 DEF Came
  <2> QED
    BY <2>4
<1>2. L > 1 /\ u \in Nat /\ Ahead(Shift(S, L), L - 1, W, M, u + S[1].n)
  BY <1>1, AheadPut
<1> QED
  BY <1>1, <1>2 DEF InStep

LEMMA StepGet ==
  ASSUME NEW S, NEW L, Script(S, L), NEW M \in Nat, NEW W \in [1..M -> AStep], NEW c, NEW n, NEW u,
         NEW d \in Seq(AUnit), InStep(S, L, W, M, c, n, u, d), S[1].op # "put", d # <<>>
  PROVE  /\ u = 0 /\ Size(S[1]) \in Nat /\ Len(d) >= Size(S[1])
         /\ S[1].op \in {"get", "count"} =>
              /\ d[1].kind = "piece" /\ L > 1
              /\ InStep(Shift(S, L), L - 1, W, M, c, n, 0, Later(d, Size(S[1])))
         /\ S[1].op = "count" => d[1].n = n
         /\ S[1].op \in Endings =>
              Len(d) = 2 /\ M = 0 /\ d[1].kind = "status" /\ d[1].cmd = c /\ d[1].n \in {0, 1}
<1>1. Behind(S, L, W, M, c, n, d) /\ u = 0
  BY DEF InStep
<1>2. S[1].op \in {"get", "count"} => L > 1
  <2>1. L \in Nat \ {0} /\ (L = 1 => S[1].op \in Endings)
    BY DEF Script
  <2> QED
    BY <2>1 DEF Endings
<1>3. /\ Size(S[1]) \in Nat \ {0} /\ Len(d) >= Size(S[1])
      /\ S[1].op \in {"get", "count"} => d[1].kind = "piece"
      /\ S[1].op = "count" => d[1].n = n
      /\ S[1].op \in Endings =>
           Len(d) = 2 /\ M = 0 /\ L = 1 /\ d[1].kind = "status" /\ d[1].cmd = c /\ d[1].n \in {0, 1}
      /\ L > 1 =>
           \/ Behind(Shift(S, L), L - 1, W, M, c, n, Later(d, Size(S[1])))
           \/ Ahead(Shift(S, L), L - 1, W, M, 0) /\ Later(d, Size(S[1])) = <<>>
  BY <1>1, BehindTake
<1> QED
  BY <1>1, <1>2, <1>3 DEF InStep

LEMMA StepTake ==
  ASSUME NEW S, NEW L, Script(S, L), NEW M \in Nat, NEW W \in [1..M -> AStep], NEW c, NEW n, NEW u,
         NEW d, InStep(S, L, W, M, c, n, u, d), M > 0, W[1].op = "get", u >= W[1].n
  PROVE  d = <<>> /\ u \in Nat /\ InStep(S, L, Shift(W, M), M - 1, c, n, u - W[1].n, d)
<1>1. Ahead(S, L, W, M, u) /\ d = <<>>
  <2>1. SUFFICES ASSUME Behind(S, L, W, M, c, n, d), u = 0 PROVE FALSE
    BY DEF InStep
  <2>2. PICK k \in 1..L : L = M + k /\ \A q \in 1..M : Matches(S[q + k], W[q])
    BY <2>1 DEF Behind
  <2>3. Matches(S[1 + k], W[1]) /\ 1 + k \in 1..L
    BY <2>2
  <2>4. S[1 + k].op = "put" /\ S[1 + k].n = W[1].n
    BY <2>3 DEF Matches
  <2>5. W[1].n > 0 /\ W[1].n \in Nat
    BY <2>3, <2>4 DEF Script, AStep
  <2> QED
    BY <2>1, <2>5
<1>2. u \in Nat /\ Ahead(S, L, Shift(W, M), M - 1, u - W[1].n)
  BY <1>1, AheadTake
<1> QED
  BY <1>1, <1>2 DEF InStep

LEMMA ShiftSteps ==
  ASSUME NEW M \in Nat \ {0}, NEW W \in [1..M -> AStep]
  PROVE  M - 1 \in Nat /\ Shift(W, M) \in [1..(M - 1) -> AStep]
  BY DEF Shift

(* The same for the steps that the loops are part of.                      *)
LEMMA TalkPut ==
  ASSUME NEW t \in Seq(AStep), NEW a \in 1..Len(t), NEW n \in Nat, NEW w, NEW m, NEW c, NEW u, NEW d,
         Talk(t, a, n, w, m, c, u, d), t[1].op = "put"
  PROVE  d = <<>> /\ u \in Nat /\ Talk(Tail(t), a - 1, n, w, m, c, u + t[1].n, d)
<1>1. PICK S, L, W, M :
        /\ L \in Nat /\ M \in Nat /\ W \in [1..M -> AStep] /\ Script(S, L)
        /\ Unrolled(t, a, Sequence, n, S, L)
        /\ Unrolled(w, Len(w), Round, m, W, M)
        /\ InStep(S, L, W, M, c, n, u, d)
  BY DEF Talk, Linked
<1>2. S[1] = t[1] /\ Unrolled(Tail(t), a - 1, Sequence, n, Shift(S, L), L - 1)
  BY <1>1, UnrollTail
<1>3. d = <<>> /\ L > 1 /\ u \in Nat /\ InStep(Shift(S, L), L - 1, W, M, c, n, u + t[1].n, d)
  BY <1>1, <1>2, StepPut
<1>4. Script(Shift(S, L), L - 1) /\ L - 1 \in Nat
  BY <1>1, <1>3, ScriptShift
<1> QED
  BY <1>1, <1>2, <1>3, <1>4 DEF Talk, Linked

LEMMA TalkGet ==
  ASSUME NEW t \in Seq(AStep), NEW a \in 1..Len(t), NEW n \in Nat, NEW w, NEW m, NEW c, NEW u,
         NEW d \in Seq(AUnit), Talk(t, a, n, w, m, c, u, d), t[1].op \in {"get", "count"}, d # <<>>
  PROVE  /\ u = 0 /\ Size(t[1]) \in Nat /\ Len(d) >= Size(t[1])
         /\ d[1].kind = "piece" /\ (t[1].op = "count" => d[1].n = n)
         /\ Talk(Tail(t), a - 1, n, w, m, c, 0, Later(d, Size(t[1])))
<1>1. PICK S, L, W, M :
        /\ L \in Nat /\ M \in Nat /\ W \in [1..M -> AStep] /\ Script(S, L)
        /\ Unrolled(t, a, Sequence, n, S, L)
        /\ Unrolled(w, Len(w), Round, m, W, M)
        /\ InStep(S, L, W, M, c, n, u, d)
  BY DEF Talk, Linked
<1>2. S[1] = t[1] /\ Unrolled(Tail(t), a - 1, Sequence, n, Shift(S, L), L - 1)
  BY <1>1, UnrollTail
<1>3. /\ u = 0 /\ Size(t[1]) \in Nat /\ Len(d) >= Size(t[1])
      /\ d[1].kind = "piece" /\ (t[1].op = "count" => d[1].n = n) /\ L > 1
      /\ InStep(Shift(S, L), L - 1, W, M, c, n, 0, Later(d, Size(t[1])))
  BY <1>1, <1>2, StepGet
<1>4. Script(Shift(S, L), L - 1) /\ L - 1 \in Nat
  BY <1>1, <1>3, ScriptShift
<1> QED
  BY <1>1, <1>2, <1>3, <1>4 DEF Talk, Linked

LEMMA TalkEnd ==
  ASSUME NEW t \in Seq(AStep), NEW a \in 1..Len(t), NEW n \in Nat, NEW w \in Seq(AStep), NEW m \in Nat,
         NEW c, NEW u, NEW d \in Seq(AUnit), Talk(t, a, n, w, m, c, u, d), t[1].op \in Endings, d # <<>>
  PROVE  /\ u = 0 /\ Len(d) = 2 /\ d[1].kind = "status" /\ d[1].cmd = c /\ d[1].n \in {0, 1}
         /\ w # <<>> => w[Len(w)].op = "loop"
<1>1. PICK S, L, W, M :
        /\ L \in Nat /\ M \in Nat /\ W \in [1..M -> AStep] /\ Script(S, L)
        /\ Unrolled(t, a, Sequence, n, S, L)
        /\ Unrolled(w, Len(w), Round, m, W, M)
        /\ InStep(S, L, W, M, c, n, u, d)
  BY DEF Talk, Linked
<1>2. S[1] = t[1] /\ S[1].op # "put"
  <2>1. t[1].op # "loop" /\ t[1].op # "put"
    BY DEF Endings
  <2>2. S[1] = t[1]
    BY <1>1, <2>1, UnrollTail
  <2> QED
    BY <2>1, <2>2
<1>3. u = 0 /\ Len(d) = 2 /\ M = 0 /\ d[1].kind = "status" /\ d[1].cmd = c /\ d[1].n \in {0, 1}
  BY <1>1, <1>2, StepGet
<1>4. w # <<>> => w[Len(w)].op = "loop"
  <2>1. Len(w) \in Nat /\ (w # <<>> => Len(w) # 0)
    OBVIOUS
  <2>2. Unrolled(w, Len(w), Round, m, W, 0)
    BY <1>1, <1>3
  <2> QED
    BY <2>1, <2>2 DEF Unrolled
<1> QED
  BY <1>3, <1>4

LEMMA TalkTake ==
  ASSUME NEW t, NEW a, NEW n, NEW w \in Seq(AStep), w # <<>>, NEW m \in Nat, NEW c, NEW u, NEW d,
         Talk(t, a, n, w, m, c, u, d), w[1].op = "get", u >= w[1].n
  PROVE  d = <<>> /\ u \in Nat /\ Talk(t, a, n, Tail(w), m, c, u - w[1].n, d)
<1>1. PICK S, L, W, M :
        /\ L \in Nat /\ M \in Nat /\ W \in [1..M -> AStep] /\ Script(S, L)
        /\ Unrolled(t, a, Sequence, n, S, L)
        /\ Unrolled(w, Len(w), Round, m, W, M)
        /\ InStep(S, L, W, M, c, n, u, d)
  BY DEF Talk, Linked
<1>2. /\ Len(w) \in 1..Len(w) /\ Len(Tail(w)) = Len(w) - 1 /\ M > 0 /\ W[1] = w[1]
      /\ Unrolled(Tail(w), Len(w) - 1, Round, m, Shift(W, M), M - 1)
  <2>1. Len(w) \in 1..Len(w) /\ Len(Tail(w)) = Len(w) - 1
    BY TailStep
  <2> QED
    BY <1>1, <2>1, UnrollTail
<1>3. d = <<>> /\ u \in Nat /\ InStep(S, L, Shift(W, M), M - 1, c, n, u - w[1].n, d)
  BY <1>1, <1>2, StepTake
<1>4. M - 1 \in Nat /\ Shift(W, M) \in [1..(M - 1) -> AStep]
  <2>1. M \in Nat \ {0} /\ W \in [1..M -> AStep]
    BY <1>1, <1>2
  <2> QED
    BY <2>1, ShiftSteps
<1> QED
  BY <1>1, <1>2, <1>3, <1>4 DEF Talk, Linked

LEMMA TalkGive ==
  ASSUME NEW t, NEW a, NEW n, NEW w \in Seq(AStep), w # <<>>, NEW m \in Nat, NEW c, NEW u,
         NEW d \in Seq(AUnit), Talk(t, a, n, w, m, c, u, d), w[1].op \in {"put", "count", "answer"}
  PROVE  /\ u = 0
         /\ \A units : Gift(w[1], c, n, units) => Talk(t, a, n, Tail(w), m, c, 0, More(d, units))
<1>1. PICK S, L, W, M :
        /\ L \in Nat /\ M \in Nat /\ W \in [1..M -> AStep] /\ Script(S, L)
        /\ Unrolled(t, a, Sequence, n, S, L)
        /\ Unrolled(w, Len(w), Round, m, W, M)
        /\ InStep(S, L, W, M, c, n, u, d)
  BY DEF Talk, Linked
<1>2. /\ Len(w) \in 1..Len(w) /\ Len(Tail(w)) = Len(w) - 1 /\ M > 0 /\ W[1] = w[1]
      /\ Unrolled(Tail(w), Len(w) - 1, Round, m, Shift(W, M), M - 1)
  <2>1. Len(w) \in 1..Len(w) /\ Len(Tail(w)) = Len(w) - 1
    BY TailStep
  <2> QED
    BY <1>1, <2>1, UnrollTail
<1>3. /\ u = 0
      /\ \A units : Gift(w[1], c, n, units) =>
           InStep(S, L, Shift(W, M), M - 1, c, n, 0, More(d, units))
  BY <1>1, <1>2, StepGive
<1>4. M - 1 \in Nat /\ Shift(W, M) \in [1..(M - 1) -> AStep]
  <2>1. M \in Nat \ {0} /\ W \in [1..M -> AStep]
    BY <1>1, <1>2
  <2> QED
    BY <2>1, ShiftSteps
<1> QED
  BY <1>1, <1>2, <1>3, <1>4 DEF Talk, Linked

(* The number is of no account when it has been received.                  *)
LEMMA StepAny ==
  ASSUME NEW S, NEW L, NEW M, NEW W, NEW c, NEW n, NEW u, NEW d, InStep(S, L, W, M, c, n, u, d),
         Script(S, L), \A x \in 1..L : S[x].op # "count"
  PROVE  \A i : InStep(S, L, W, M, c, i, u, d)
<1> SUFFICES ASSUME NEW i PROVE InStep(S, L, W, M, c, i, u, d)
  OBVIOUS
<1>1. ASSUME Behind(S, L, W, M, c, n, d) PROVE Behind(S, L, W, M, c, i, d)
  <2>1. PICK k \in 1..L : /\ L = M + k
                          /\ \A q \in 1..M : Matches(S[q + k], W[q])
                          /\ Came(S, L, k, c, n, d)
    BY <1>1 DEF Behind
  <2>2. \A p \in 1..k : S[p].op # "count"
    BY DEF Script
  <2>3. Came(S, L, k, c, i, d)
    BY <2>1, <2>2 DEF Came
  <2> QED
    BY <2>1, <2>3 DEF Behind
<1> QED
  BY <1>1 DEF InStep

LEMMA TalkTurn ==
  ASSUME NEW t \in Seq(AStep), NEW a \in 1..Len(t), NEW n \in Nat, NEW w, NEW m, NEW c, NEW u, NEW d,
         Talk(t, a, n, w, m, c, u, d), t[1].op = "loop", ~Counts(t, a)
  PROVE  /\ n > 0 => Talk(Sequence \o t, a + 5, n - 1, w, m, c, u, d)
         /\ n = 0 => Talk(Tail(t), a - 1, n, w, m, c, u, d)
<1>1. PICK S, L, W, M :
        /\ L \in Nat /\ M \in Nat /\ W \in [1..M -> AStep] /\ Script(S, L)
        /\ Unrolled(t, a, Sequence, n, S, L)
        /\ Unrolled(w, Len(w), Round, m, W, M)
        /\ InStep(S, L, W, M, c, n, u, d)
  BY DEF Talk, Linked
<1>2. \A i : InStep(S, L, W, M, c, i, u, d)
  <2>1. \A i \in 1..5 : Sequence[i].op \in {"put", "get"}
    BY TurnSteps
  <2>2. Unrolled(t, a, Sequence, n, S, L) /\ L \in Nat /\ a \in Nat
    BY <1>1
  <2>3. CountsFrom(t, a, S, L)
    BY <2>1, <2>2, ComesFrom
  <2>4. \A x \in 1..L : S[x].op # "count"
    BY <2>3 DEF CountsFrom, Counts
  <2> QED
    BY <1>1, <2>4, StepAny
<1>3. ASSUME n > 0 PROVE Unrolled(Sequence \o t, a + 5, Sequence, n - 1, S, L)
  <2>1. Sequence \in Seq(AStep) /\ Len(Sequence) = 5 /\ \A i \in 1..5 : Sequence[i].op # "loop"
    BY TurnSteps
  <2>2. Unrolled(t, a, Sequence, n, S, L) /\ L \in Nat /\ n \in Nat \ {0}
    BY <1>1, <1>3
  <2> QED
    BY <2>1, <2>2, UnrollTurn
<1>4. ASSUME n = 0 PROVE Unrolled(Tail(t), a - 1, Sequence, n, S, L)
  BY <1>1, <1>4, UnrollSkip
<1>5. ASSUME n > 0 PROVE Talk(Sequence \o t, a + 5, n - 1, w, m, c, u, d)
  <2> DEFINE both == Sequence \o t
  <2>1. Unrolled(both, a + 5, Sequence, n - 1, S, L)
    BY <1>3, <1>5
  <2> DEFINE b == a + 5
             k == n - 1
  <2>2. Unrolled(both, b, Sequence, k, S, L)
    BY <2>1
  <2> HIDE DEF both, b, k
  <2>3. Linked(both, b, k, w, m, c, u, d, S, L, W, M)
    BY <1>1, <1>2, <2>2 DEF Linked
  <2>4. Talk(both, b, k, w, m, c, u, d)
    BY <2>3 DEF Talk
  <2> QED
    BY <2>4 DEF both, b, k
<1>6. ASSUME n = 0 PROVE Talk(Tail(t), a - 1, n, w, m, c, u, d)
  BY <1>1, <1>4, <1>6 DEF Talk, Linked
<1> QED
  BY <1>5, <1>6

LEMMA TalkRound ==
  ASSUME NEW t, NEW a, NEW n, NEW w \in Seq(AStep), w # <<>>, NEW m \in Nat, NEW c, NEW u, NEW d,
         Talk(t, a, n, w, m, c, u, d), w[1].op = "loop"
  PROVE  /\ m > 0 => Talk(t, a, n, Round \o w, m - 1, c, u, d)
         /\ m = 0 => Talk(t, a, n, Tail(w), m, c, u, d)
<1>1. PICK S, L, W, M :
        /\ L \in Nat /\ M \in Nat /\ W \in [1..M -> AStep] /\ Script(S, L)
        /\ Unrolled(t, a, Sequence, n, S, L)
        /\ Unrolled(w, Len(w), Round, m, W, M)
        /\ InStep(S, L, W, M, c, n, u, d)
  BY DEF Talk, Linked
<1>2. Len(w) \in 1..Len(w) /\ Len(Tail(w)) = Len(w) - 1
  BY TailStep
<1>3. Unrolled(w, Len(w), Round, m, W, M) /\ M \in Nat
  BY <1>1
<1>4. ASSUME m > 0 PROVE Talk(t, a, n, Round \o w, m - 1, c, u, d)
  <2> DEFINE both == Round \o w
  <2>1. Round \in Seq(AStep) /\ Len(Round) = 5 /\ \A i \in 1..5 : Round[i].op # "loop"
    BY TurnSteps, RadarStep
  <2>2. Unrolled(both, Len(w) + 5, Round, m - 1, W, M)
    <3>1. m \in Nat \ {0} /\ M \in Nat /\ Unrolled(w, Len(w), Round, m, W, M)
      BY <1>3, <1>4
    <3> QED
      BY <1>2, <2>1, <3>1, UnrollTurn
  <2>3. Len(both) = Len(w) + 5
    <3>1. Len(both) = Len(Round) + Len(w)
      BY <2>1, Joined
    <3> QED
      BY <2>1, <3>1, <1>2
  <2> HIDE DEF both
  <2>4. Talk(t, a, n, both, m - 1, c, u, d)
    BY <1>1, <2>2, <2>3 DEF Talk, Linked
  <2> QED
    BY <2>4 DEF both
<1>5. ASSUME m = 0 PROVE Talk(t, a, n, Tail(w), m, c, u, d)
  <2>1. Unrolled(Tail(w), Len(w) - 1, Round, m, W, M)
    BY <1>2, <1>3, <1>5, UnrollSkip
  <2> QED
    BY <1>1, <1>2, <2>1 DEF Talk, Linked
<1> QED
  BY <1>4, <1>5

(***************************************************************************)
(* What a step does to what is left of the command.                        *)
(***************************************************************************)
LEMMA TailUpTo ==
  ASSUME NEW t \in Seq(AStep), NEW a \in 1..Len(t)
  PROVE  /\ Tail(t) \in Seq(AStep) /\ Len(Tail(t)) = Len(t) - 1 /\ a \in Nat /\ a - 1 \in 0..Len(Tail(t))
         /\ Len(t) \in Nat /\ 1 \in 1..a
         /\ \A q \in 1..(a - 1) : Tail(t)[q] = t[q + 1] /\ q + 1 \in 1..a /\ q + 1 # 1
         /\ \A q \in 1..a : q # 1 => q - 1 \in 1..(a - 1) /\ Tail(t)[q - 1] = t[q]
<1>1. t # <<>> /\ Len(t) \in Nat /\ a \in Nat /\ a <= Len(t) /\ 1 \in 1..a
  OBVIOUS
<1>2. /\ Tail(t) \in Seq(AStep) /\ Len(Tail(t)) = Len(t) - 1
      /\ \A q \in 1..(Len(t) - 1) : Tail(t)[q] = t[q + 1]
  BY <1>1, TailStep
<1>3. ASSUME NEW q \in 1..(a - 1) PROVE Tail(t)[q] = t[q + 1] /\ q + 1 \in 1..a /\ q + 1 # 1
  <2>1. q \in 1..(Len(t) - 1) /\ q + 1 \in 1..a /\ q + 1 # 1
    BY <1>1
  <2> QED
    BY <1>2, <2>1
<1>4. ASSUME NEW q \in 1..a, q # 1 PROVE q - 1 \in 1..(a - 1) /\ Tail(t)[q - 1] = t[q]
  <2>1. q - 1 \in 1..(a - 1) /\ (q - 1) + 1 = q
    BY <1>1, <1>4
  <2>2. Tail(t)[q - 1] = t[(q - 1) + 1]
    BY <1>3, <2>1
  <2> QED
    BY <2>1, <2>2
<1>5. a - 1 \in 0..Len(Tail(t))
  BY <1>1, <1>2
<1> QED
  BY <1>1, <1>2, <1>3, <1>4, <1>5

LEMMA OrderedTail ==
  ASSUME NEW t \in Seq(AStep), NEW a \in 1..Len(t), Ordered(t, a)
  PROVE  /\ Ordered(Tail(t), a - 1)
         /\ t[1].op # "count" => (Counts(Tail(t), a - 1) <=> Counts(t, a))
         /\ t[1].op = "count" => Counts(t, a) /\ ~Counts(Tail(t), a - 1)
         /\ t[1].op = "loop" => ~Counts(t, a)
<1>1. /\ a \in Nat /\ 1 \in 1..a
      /\ \A q \in 1..(a - 1) : Tail(t)[q] = t[q + 1] /\ q + 1 \in 1..a /\ q + 1 # 1
      /\ \A q \in 1..a : q # 1 => q - 1 \in 1..(a - 1) /\ Tail(t)[q - 1] = t[q]
  BY TailUpTo
<1>2. Ordered(Tail(t), a - 1)
  <2>1. SUFFICES ASSUME NEW p \in 1..(a - 1), NEW q \in 1..(a - 1), Tail(t)[p].op = "count"
                 PROVE  (Tail(t)[q].op = "count" => p = q) /\ (Tail(t)[q].op = "loop" => p < q)
    BY DEF Ordered
  <2>2. /\ p + 1 \in 1..a /\ q + 1 \in 1..a /\ t[p + 1].op = "count"
        /\ Tail(t)[q] = t[q + 1]
    BY <1>1, <2>1
  <2>3. (t[q + 1].op = "count" => p + 1 = q + 1) /\ (t[q + 1].op = "loop" => p + 1 < q + 1)
    BY <2>2 DEF Ordered
  <2> QED
    BY <1>1, <2>2, <2>3
<1>3. ASSUME t[1].op # "count" PROVE Counts(Tail(t), a - 1) <=> Counts(t, a)
  BY <1>1, <1>3 DEF Counts
<1>4. ASSUME t[1].op = "count" PROVE Counts(t, a) /\ ~Counts(Tail(t), a - 1)
  <2>1. Counts(t, a)
    BY <1>1, <1>4 DEF Counts
  <2>2. ASSUME NEW q \in 1..(a - 1) PROVE Tail(t)[q].op # "count"
    <3>1. q + 1 \in 1..a /\ q + 1 # 1 /\ Tail(t)[q] = t[q + 1]
      BY <1>1
    <3> QED
      BY <1>1, <1>4, <3>1 DEF Ordered
  <2> QED
    BY <2>1, <2>2 DEF Counts
<1>5. ASSUME t[1].op = "loop" PROVE ~Counts(t, a)
  <2>1. SUFFICES ASSUME NEW q \in 1..a, t[q].op = "count" PROVE FALSE
    BY DEF Counts
  <2>2. q < 1
    BY <1>1, <1>5, <2>1 DEF Ordered
  <2> QED
    BY <1>1, <2>2
<1> QED
  BY <1>2, <1>3, <1>4, <1>5

LEMMA TurnUpTo ==
  ASSUME NEW turn \in Seq(AStep), Len(turn) = 5, NEW t \in Seq(AStep), NEW a \in 1..Len(t)
  PROVE  /\ turn \o t \in Seq(AStep) /\ a \in Nat /\ Len(turn \o t) = Len(t) + 5
         /\ a + 5 \in 1..Len(turn \o t)
         /\ \A q \in 1..(a + 5) : \/ q \in 1..5 /\ (turn \o t)[q] = turn[q]
                                  \/ q - 5 \in 1..a /\ (turn \o t)[q] = t[q - 5]
<1> DEFINE both == turn \o t
<1>1. Joint(both, turn, 5, t, Len(t))
  BY JoinedSteps
<1> HIDE DEF both
<1>2. Len(t) \in Nat /\ a \in Nat /\ a <= Len(t) /\ a > 0
  OBVIOUS
<1>3. /\ both \in Seq(AStep) /\ Len(both) = Len(t) + 5 /\ a + 5 \in 1..Len(both)
  BY <1>1, <1>2 DEF Joint
<1>4. ASSUME NEW q \in 1..(a + 5)
      PROVE  \/ q \in 1..5 /\ both[q] = turn[q]
             \/ q - 5 \in 1..a /\ both[q] = t[q - 5]
  <2>1. q \in 1..(5 + Len(t))
    BY <1>2
  <2>2. \/ q \in 1..5 /\ both[q] = turn[q]
        \/ q - 5 \in 1..Len(t) /\ both[q] = t[q - 5]
    BY <1>1, <2>1 DEF Joint
  <2>3. q - 5 \in 1..Len(t) => q - 5 \in 1..a
    BY <1>2
  <2> QED
    BY <2>2, <2>3
<1> QED
  BY <1>2, <1>3, <1>4 DEF both

LEMMA OrderedTurn ==
  ASSUME NEW turn \in Seq(AStep), Len(turn) = 5, \A i \in 1..5 : turn[i].op \in {"put", "get"},
         NEW t \in Seq(AStep), NEW a \in 1..Len(t), Ordered(t, a), t[1].op = "loop"
  PROVE  Ordered(turn \o t, a + 5) /\ ~Counts(turn \o t, a + 5)
<1> DEFINE both == turn \o t
<1>1. \A q \in 1..(a + 5) : \/ q \in 1..5 /\ both[q] = turn[q]
                            \/ q - 5 \in 1..a /\ both[q] = t[q - 5]
  BY TurnUpTo
<1> HIDE DEF both
<1>2. ~Counts(t, a)
  BY OrderedTail
<1>3. \A q \in 1..(a + 5) : both[q].op # "count"
  BY <1>1, <1>2 DEF Counts
<1>4. Ordered(both, a + 5) /\ ~Counts(both, a + 5)
  BY <1>3 DEF Ordered, Counts
<1> QED
  BY <1>4 DEF both

LEMMA CurrentTail ==
  ASSUME NEW t \in Seq(AStep), NEW a \in 1..Len(t), Current(t, a), t[1].op \notin Endings
  PROVE  a - 1 \in 1..Len(Tail(t)) /\ Current(Tail(t), a - 1)
<1>1. /\ Len(Tail(t)) = Len(t) - 1 /\ a \in Nat /\ 1 \in 1..a /\ Len(t) \in Nat /\ a <= Len(t)
      /\ \A q \in 1..(a - 1) : Tail(t)[q] = t[q + 1] /\ q + 1 \in 1..a
  BY TailUpTo
<1>2. a # 1
  BY DEF Current
<1>3. a - 1 \in 1..Len(Tail(t)) /\ a - 1 \in 1..(a - 1)
  BY <1>1, <1>2
<1>4. Tail(t)[a - 1].op \in Endings
  <2>1. Tail(t)[a - 1] = t[(a - 1) + 1] /\ (a - 1) + 1 = a
    BY <1>1, <1>3
  <2> QED
    BY <2>1 DEF Current
<1>5. ASSUME NEW q \in 1..((a - 1) - 1) PROVE Tail(t)[q].op \in {"put", "get", "count", "loop"}
  <2>1. q \in 1..(a - 1) /\ q + 1 \in 1..(a - 1)
    BY <1>1
  <2> QED
    BY <1>1, <2>1 DEF Current
<1>6. Ordered(Tail(t), a - 1)
  BY OrderedTail DEF Current
<1> QED
  BY <1>3, <1>4, <1>5, <1>6 DEF Current

LEMMA CurrentTurn ==
  ASSUME NEW t \in Seq(AStep), NEW a \in 1..Len(t), Current(t, a), t[1].op = "loop"
  PROVE  /\ a + 5 \in 1..Len(Sequence \o t) /\ Current(Sequence \o t, a + 5)
         /\ ~Counts(Sequence \o t, a + 5)
<1> DEFINE both == Sequence \o t
<1>1. /\ Sequence \in Seq(AStep) /\ Len(Sequence) = 5
      /\ \A i \in 1..5 : Sequence[i].op \in {"put", "get"}
  BY TurnSteps
<1>2. /\ a \in Nat /\ a + 5 \in 1..Len(both)
      /\ \A q \in 1..(a + 5) : \/ q \in 1..5 /\ both[q] = Sequence[q]
                               \/ q - 5 \in 1..a /\ both[q] = t[q - 5]
  BY <1>1, TurnUpTo
<1>3. Ordered(both, a + 5) /\ ~Counts(both, a + 5)
  BY <1>1, OrderedTurn DEF Current
<1> HIDE DEF both
<1>4. both[a + 5].op \in Endings
  <2>1. a + 5 \in 1..(a + 5) /\ (a + 5) - 5 = a /\ ~(a + 5 \in 1..5)
    BY <1>2
  <2>2. both[a + 5] = t[a]
    BY <1>2, <2>1
  <2> QED
    BY <2>2 DEF Current
<1>5. ASSUME NEW q \in 1..((a + 5) - 1) PROVE both[q].op \in {"put", "get", "count", "loop"}
  <2>1. q \in 1..(a + 5) /\ q - 5 # a
    BY <1>2
  <2>2. CASE q \in 1..5 /\ both[q] = Sequence[q]
    BY <1>1, <2>2
  <2>3. CASE q - 5 \in 1..a /\ both[q] = t[q - 5]
    <3>1. q - 5 \in 1..(a - 1)
      BY <1>2, <2>1, <2>3
    <3> QED
      BY <2>3, <3>1 DEF Current
  <2> QED
    BY <1>2, <2>1, <2>2, <2>3
<1> QED
  BY <1>2, <1>3, <1>4, <1>5 DEF Current, both

(***************************************************************************)
(* What a step of either end does to a command.                            *)
(***************************************************************************)
LEMMA SomeNumber ==
  ASSUME NEW t, NEW a, NEW x \in Nat
  PROVE  Numbers(t, a, x) \subseteq Nat /\ \E n \in Nat : n \in Numbers(t, a, x)
<1>1. MaxSeqs \in Nat
  BY LinkAssumption
<1>2. CASE Counts(t, a)
  <2>1. Numbers(t, a, x) = 0..MaxSeqs /\ 0 \in 0..MaxSeqs
    BY <1>1, <1>2 DEF Numbers
  <2> QED
    BY <1>1, <2>1
<1>3. CASE ~Counts(t, a)
  BY <1>3 DEF Numbers
<1> QED
  BY <1>2, <1>3

(* The program: a piece sent, a piece received, the number, a turn of the  *)
(* loop, and the answer.                                                   *)
LEMMA ConversePut ==
  ASSUME NEW t \in Seq(AStep), NEW s \in Nat, NEW w, NEW v \in Nat, NEW c, NEW u, NEW d,
         Converse(t, s, w, v, c, u, d), t[1].op = "put"
  PROVE  d = <<>> /\ u \in Nat /\ Converse(Tail(t), s, w, v, c, u + t[1].n, d)
<1>1. PICK a \in 1..Len(t) :
        /\ Current(t, a) /\ Ordered(w, Len(w))
        /\ \A m \in Numbers(w, Len(w), v) : \E n \in Numbers(t, a, s) :
             (Counts(w, Len(w)) => n = m) /\ Talk(t, a, n, w, m, c, u, d)
  BY DEF Converse
<1>2. /\ a - 1 \in 1..Len(Tail(t)) /\ Current(Tail(t), a - 1)
      /\ Numbers(Tail(t), a - 1, s) = Numbers(t, a, s)
  <2>1. t[1].op \notin Endings
    BY DEF Endings
  <2>2. a - 1 \in 1..Len(Tail(t)) /\ Current(Tail(t), a - 1)
    BY <1>1, <2>1, CurrentTail
  <2>3. Counts(Tail(t), a - 1) <=> Counts(t, a)
    BY <1>1, OrderedTail DEF Current
  <2> QED
    BY <2>2, <2>3 DEF Numbers
<1>3. ASSUME NEW n \in Nat, NEW m, Talk(t, a, n, w, m, c, u, d)
      PROVE  d = <<>> /\ u \in Nat /\ Talk(Tail(t), a - 1, n, w, m, c, u + t[1].n, d)
  BY <1>3, TalkPut
<1>4. d = <<>> /\ u \in Nat
  BY <1>1, <1>3, SomeNumber
<1>5. ASSUME NEW m \in Numbers(w, Len(w), v)
      PROVE  \E n \in Numbers(Tail(t), a - 1, s) :
               (Counts(w, Len(w)) => n = m) /\ Talk(Tail(t), a - 1, n, w, m, c, u + t[1].n, d)
  <2>1. PICK n \in Numbers(t, a, s) : (Counts(w, Len(w)) => n = m) /\ Talk(t, a, n, w, m, c, u, d)
    BY <1>1
  <2>2. n \in Nat
    BY SomeNumber
  <2> QED
    BY <1>2, <1>3, <2>1, <2>2
<1> QED
  BY <1>1, <1>2, <1>4, <1>5 DEF Converse

LEMMA ConverseGet ==
  ASSUME NEW t \in Seq(AStep), NEW s \in Nat, NEW w, NEW v \in Nat, NEW c, NEW u,
         NEW d \in Seq(AUnit), Converse(t, s, w, v, c, u, d), t[1].op = "get", d # <<>>
  PROVE  /\ u = 0 /\ Size(t[1]) \in Nat /\ Len(d) >= Size(t[1]) /\ d[1].kind = "piece"
         /\ Converse(Tail(t), s, w, v, c, 0, Later(d, Size(t[1])))
<1>1. PICK a \in 1..Len(t) :
        /\ Current(t, a) /\ Ordered(w, Len(w))
        /\ \A m \in Numbers(w, Len(w), v) : \E n \in Numbers(t, a, s) :
             (Counts(w, Len(w)) => n = m) /\ Talk(t, a, n, w, m, c, u, d)
  BY DEF Converse
<1>2. /\ a - 1 \in 1..Len(Tail(t)) /\ Current(Tail(t), a - 1)
      /\ Numbers(Tail(t), a - 1, s) = Numbers(t, a, s)
  <2>1. t[1].op \notin Endings
    BY DEF Endings
  <2>2. a - 1 \in 1..Len(Tail(t)) /\ Current(Tail(t), a - 1)
    BY <1>1, <2>1, CurrentTail
  <2>3. Counts(Tail(t), a - 1) <=> Counts(t, a)
    BY <1>1, OrderedTail DEF Current
  <2> QED
    BY <2>2, <2>3 DEF Numbers
<1>3. ASSUME NEW n \in Nat, NEW m, Talk(t, a, n, w, m, c, u, d)
      PROVE  /\ u = 0 /\ Size(t[1]) \in Nat /\ Len(d) >= Size(t[1]) /\ d[1].kind = "piece"
             /\ Talk(Tail(t), a - 1, n, w, m, c, 0, Later(d, Size(t[1])))
  BY <1>3, TalkGet
<1>4. u = 0 /\ Size(t[1]) \in Nat /\ Len(d) >= Size(t[1]) /\ d[1].kind = "piece"
  BY <1>1, <1>3, SomeNumber
<1>5. ASSUME NEW m \in Numbers(w, Len(w), v)
      PROVE  \E n \in Numbers(Tail(t), a - 1, s) :
               /\ Counts(w, Len(w)) => n = m
               /\ Talk(Tail(t), a - 1, n, w, m, c, 0, Later(d, Size(t[1])))
  <2>1. PICK n \in Numbers(t, a, s) : (Counts(w, Len(w)) => n = m) /\ Talk(t, a, n, w, m, c, u, d)
    BY <1>1
  <2>2. n \in Nat
    BY SomeNumber
  <2> QED
    BY <1>2, <1>3, <2>1, <2>2
<1> QED
  BY <1>1, <1>2, <1>4, <1>5 DEF Converse

LEMMA ConverseCount ==
  ASSUME NEW t \in Seq(AStep), NEW s \in Nat, NEW w \in Seq(AStep), NEW v \in Nat, NEW c, NEW u,
         NEW d \in Seq(AUnit), Converse(t, s, w, v, c, u, d), t[1].op = "count", d # <<>>
  PROVE  /\ u = 0 /\ d[1].kind = "piece" /\ d[1].n \in 0..MaxSeqs
         /\ Converse(Tail(t), d[1].n, w, v, c, 0, Later(d, 1))
<1>1. PICK a \in 1..Len(t) :
        /\ Current(t, a) /\ Ordered(w, Len(w))
        /\ \A m \in Numbers(w, Len(w), v) : \E n \in Numbers(t, a, s) :
             (Counts(w, Len(w)) => n = m) /\ Talk(t, a, n, w, m, c, u, d)
  BY DEF Converse
<1>2. /\ a - 1 \in 1..Len(Tail(t)) /\ Current(Tail(t), a - 1)
      /\ Counts(t, a) /\ ~Counts(Tail(t), a - 1)
  <2>1. t[1].op \notin Endings
    BY DEF Endings
  <2>2. a - 1 \in 1..Len(Tail(t)) /\ Current(Tail(t), a - 1)
    BY <1>1, <2>1, CurrentTail
  <2>3. Counts(t, a) /\ ~Counts(Tail(t), a - 1)
    BY <1>1, OrderedTail DEF Current
  <2> QED
    BY <2>2, <2>3
<1>3. PICK m \in Nat : m \in Numbers(w, Len(w), v)
  BY SomeNumber
<1>4. PICK n \in Numbers(t, a, s) : Talk(t, a, n, w, m, c, u, d)
  BY <1>1, <1>3
<1>5. n \in Nat /\ n \in 0..MaxSeqs
  BY <1>2, SomeNumber DEF Numbers
<1>6. ~Counts(w, Len(w))
  <2>1. SUFFICES ASSUME Counts(w, Len(w)) PROVE FALSE
    OBVIOUS
  <2>2. 1 \in 1..a /\ a \in Nat
    OBVIOUS
  <2>3. PICK y \in 1..a : t[y].op = "count" /\ (y = 1 => d = <<>>)
    <3>1. Talk(t, a, n, w, m, c, u, d)
      BY <1>4
    <3>2. \E y \in 1..a : t[y].op = "count" /\ (y = 1 => d = <<>>)
      BY <1>5, <2>1, <2>2, <3>1, TalkCounts
    <3> QED
      BY <3>2
  <2> QED
    BY <1>1, <2>3, <2>2 DEF Current, Ordered
<1>7. m = v
  BY <1>3, <1>6 DEF Numbers
<1>8. /\ u = 0 /\ d[1].kind = "piece" /\ d[1].n = n
      /\ Talk(Tail(t), a - 1, n, w, v, c, 0, Later(d, 1))
  <2>1. Size(t[1]) = 1
    BY DEF Size
  <2> QED
    BY <1>4, <1>5, <1>7, <2>1, TalkGet
<1>9. Numbers(w, Len(w), v) = {v} /\ Numbers(Tail(t), a - 1, n) = {n}
  BY <1>2, <1>6 DEF Numbers
<1> QED
  BY <1>1, <1>2, <1>5, <1>6, <1>8, <1>9 DEF Converse

LEMMA ConverseTurn ==
  ASSUME NEW t \in Seq(AStep), NEW s \in Nat, NEW w \in Seq(AStep), NEW v \in Nat, NEW c, NEW u,
         NEW d, Converse(t, s, w, v, c, u, d), t[1].op = "loop"
  PROVE  /\ s > 0 => Converse(Sequence \o t, s - 1, w, v, c, u, d)
         /\ s = 0 => Converse(Tail(t), s, w, v, c, u, d)
<1>1. PICK a \in 1..Len(t) :
        /\ Current(t, a) /\ Ordered(w, Len(w))
        /\ \A m \in Numbers(w, Len(w), v) : \E n \in Numbers(t, a, s) :
             (Counts(w, Len(w)) => n = m) /\ Talk(t, a, n, w, m, c, u, d)
  BY DEF Converse
<1>2. ~Counts(t, a) /\ Ordered(t, a)
  BY <1>1, OrderedTail DEF Current
<1>3. PICK m \in Nat : m \in Numbers(w, Len(w), v)
  BY SomeNumber
<1>4. Talk(t, a, s, w, m, c, u, d)
  <2>1. Numbers(t, a, s) = {s}
    BY <1>2 DEF Numbers
  <2> QED
    BY <1>1, <1>3, <2>1
<1>5. ~Counts(w, Len(w))
  <2>1. SUFFICES ASSUME Counts(w, Len(w)) PROVE FALSE
    OBVIOUS
  <2>2. a \in Nat
    OBVIOUS
  <2>3. \E y \in 1..a : t[y].op = "count" /\ (y = 1 => d = <<>>)
    BY <1>4, <2>1, <2>2, TalkCounts
  <2> QED
    BY <1>2, <2>3 DEF Counts
<1>6. m = v
  BY <1>3, <1>5 DEF Numbers
<1>7. Numbers(w, Len(w), v) = {v}
  BY <1>5 DEF Numbers
<1>8. /\ s > 0 => Talk(Sequence \o t, a + 5, s - 1, w, v, c, u, d)
      /\ s = 0 => Talk(Tail(t), a - 1, s, w, v, c, u, d)
  BY <1>2, <1>4, <1>6, TalkTurn
<1>9. ASSUME s > 0 PROVE Converse(Sequence \o t, s - 1, w, v, c, u, d)
  <2> DEFINE both == Sequence \o t
             b == a + 5
             r == s - 1
  <2>1. b \in 1..Len(both) /\ Current(both, b) /\ ~Counts(both, b)
    BY <1>1, CurrentTurn
  <2>2. Talk(both, b, r, w, v, c, u, d)
    BY <1>8, <1>9
  <2> HIDE DEF both, b, r
  <2>3. Numbers(both, b, r) = {r}
    BY <2>1 DEF Numbers
  <2>4. Converse(both, r, w, v, c, u, d)
    BY <1>1, <1>5, <1>7, <2>1, <2>2, <2>3 DEF Converse
  <2> QED
    BY <2>4 DEF both, r
<1>10. ASSUME s = 0 PROVE Converse(Tail(t), s, w, v, c, u, d)
  <2>1. a - 1 \in 1..Len(Tail(t)) /\ Current(Tail(t), a - 1)
    <3>1. t[1].op \notin Endings
      BY DEF Endings
    <3> QED
      BY <1>1, <3>1, CurrentTail
  <2>2. Numbers(Tail(t), a - 1, s) = {s}
    <3>1. ~Counts(Tail(t), a - 1)
      BY <1>2, OrderedTail
    <3> QED
      BY <3>1 DEF Numbers
  <2> QED
    BY <1>1, <1>5, <1>7, <1>8, <1>10, <2>1, <2>2 DEF Converse
<1> QED
  BY <1>9, <1>10

LEMMA ConverseEnd ==
  ASSUME NEW t \in Seq(AStep), NEW s \in Nat, NEW w \in Seq(AStep), NEW v \in Nat, NEW c, NEW u,
         NEW d \in Seq(AUnit), Converse(t, s, w, v, c, u, d), t[1].op \in Endings, d # <<>>
  PROVE  /\ u = 0 /\ Len(d) = 2 /\ d[1].kind = "status" /\ d[1].cmd = c /\ d[1].n \in {0, 1}
         /\ w # <<>> => w[Len(w)].op = "loop"
<1>1. PICK a \in 1..Len(t) :
        /\ Current(t, a) /\ Ordered(w, Len(w))
        /\ \A m \in Numbers(w, Len(w), v) : \E n \in Numbers(t, a, s) :
             (Counts(w, Len(w)) => n = m) /\ Talk(t, a, n, w, m, c, u, d)
  BY DEF Converse
<1>2. PICK m \in Nat : m \in Numbers(w, Len(w), v)
  BY SomeNumber
<1>3. PICK n \in Numbers(t, a, s) : Talk(t, a, n, w, m, c, u, d)
  BY <1>1, <1>2
<1>4. n \in Nat
  BY SomeNumber
<1> QED
  BY <1>3, <1>4, TalkEnd

(* The radar: a piece received, a piece or the answer sent, the number, a  *)
(* turn of the loop.                                                       *)
LEMMA ConverseTake ==
  ASSUME NEW t, NEW s \in Nat, NEW w \in Seq(AStep), w # <<>>, NEW v \in Nat, NEW c, NEW u, NEW d,
         Converse(t, s, w, v, c, u, d), w[1].op = "get", u >= w[1].n
  PROVE  d = <<>> /\ u \in Nat /\ Converse(t, s, Tail(w), v, c, u - w[1].n, d)
<1>1. PICK a \in 1..Len(t) :
        /\ Current(t, a) /\ Ordered(w, Len(w))
        /\ \A m \in Numbers(w, Len(w), v) : \E n \in Numbers(t, a, s) :
             (Counts(w, Len(w)) => n = m) /\ Talk(t, a, n, w, m, c, u, d)
  BY DEF Converse
<1>2. /\ Len(w) \in 1..Len(w) /\ Len(Tail(w)) = Len(w) - 1
      /\ Ordered(Tail(w), Len(Tail(w)))
      /\ Counts(Tail(w), Len(Tail(w))) <=> Counts(w, Len(w))
      /\ Numbers(Tail(w), Len(Tail(w)), v) = Numbers(w, Len(w), v)
  <2>1. Len(w) \in 1..Len(w) /\ Len(Tail(w)) = Len(w) - 1
    BY TailStep
  <2>2. Ordered(Tail(w), Len(w) - 1) /\ (Counts(Tail(w), Len(w) - 1) <=> Counts(w, Len(w)))
    BY <1>1, <2>1, OrderedTail
  <2> QED
    BY <2>1, <2>2 DEF Numbers
<1>3. ASSUME NEW n \in Nat, NEW m \in Nat, Talk(t, a, n, w, m, c, u, d)
      PROVE  d = <<>> /\ u \in Nat /\ Talk(t, a, n, Tail(w), m, c, u - w[1].n, d)
  BY <1>3, TalkTake
<1>4. d = <<>> /\ u \in Nat
  BY <1>1, <1>3, SomeNumber
<1>5. ASSUME NEW m \in Numbers(Tail(w), Len(Tail(w)), v)
      PROVE  \E n \in Numbers(t, a, s) :
               /\ Counts(Tail(w), Len(Tail(w))) => n = m
               /\ Talk(t, a, n, Tail(w), m, c, u - w[1].n, d)
  <2>1. PICK n \in Numbers(t, a, s) : (Counts(w, Len(w)) => n = m) /\ Talk(t, a, n, w, m, c, u, d)
    BY <1>1, <1>2
  <2>2. n \in Nat /\ m \in Nat
    BY SomeNumber
  <2> QED
    BY <1>2, <1>3, <2>1, <2>2
<1> QED
  BY <1>1, <1>2, <1>4, <1>5 DEF Converse

LEMMA ConverseGive ==
  ASSUME NEW t, NEW s \in Nat, NEW w \in Seq(AStep), w # <<>>, NEW v \in Nat, NEW c, NEW u,
         NEW d \in Seq(AUnit), Converse(t, s, w, v, c, u, d), w[1].op \in {"put", "answer"}
  PROVE  /\ u = 0
         /\ \A units : Gift(w[1], c, 0, units) => Converse(t, s, Tail(w), v, c, 0, More(d, units))
<1>1. PICK a \in 1..Len(t) :
        /\ Current(t, a) /\ Ordered(w, Len(w))
        /\ \A m \in Numbers(w, Len(w), v) : \E n \in Numbers(t, a, s) :
             (Counts(w, Len(w)) => n = m) /\ Talk(t, a, n, w, m, c, u, d)
  BY DEF Converse
<1>2. /\ Len(w) \in 1..Len(w) /\ Len(Tail(w)) = Len(w) - 1
      /\ Ordered(Tail(w), Len(Tail(w)))
      /\ Counts(Tail(w), Len(Tail(w))) <=> Counts(w, Len(w))
      /\ Numbers(Tail(w), Len(Tail(w)), v) = Numbers(w, Len(w), v)
  <2>1. Len(w) \in 1..Len(w) /\ Len(Tail(w)) = Len(w) - 1
    BY TailStep
  <2>2. Ordered(Tail(w), Len(w) - 1) /\ (Counts(Tail(w), Len(w) - 1) <=> Counts(w, Len(w)))
    BY <1>1, <2>1, OrderedTail
  <2> QED
    BY <2>1, <2>2 DEF Numbers
<1>3. ASSUME NEW n \in Nat, NEW m \in Nat, Talk(t, a, n, w, m, c, u, d)
      PROVE  /\ u = 0
             /\ \A units : Gift(w[1], c, 0, units) => Talk(t, a, n, Tail(w), m, c, 0, More(d, units))
  <2>1. \A units : Gift(w[1], c, 0, units) => Gift(w[1], c, n, units)
    BY DEF Gift
  <2>2. /\ u = 0
        /\ \A units : Gift(w[1], c, n, units) => Talk(t, a, n, Tail(w), m, c, 0, More(d, units))
    BY <1>3, TalkGive
  <2> QED
    BY <2>1, <2>2
<1>4. u = 0
  BY <1>1, <1>3, SomeNumber
<1>5. ASSUME NEW units, Gift(w[1], c, 0, units), NEW m \in Numbers(Tail(w), Len(Tail(w)), v)
      PROVE  \E n \in Numbers(t, a, s) :
               /\ Counts(Tail(w), Len(Tail(w))) => n = m
               /\ Talk(t, a, n, Tail(w), m, c, 0, More(d, units))
  <2>1. PICK n \in Numbers(t, a, s) : (Counts(w, Len(w)) => n = m) /\ Talk(t, a, n, w, m, c, u, d)
    BY <1>1, <1>2
  <2>2. n \in Nat /\ m \in Nat
    BY SomeNumber
  <2> QED
    BY <1>2, <1>3, <1>5, <2>1, <2>2
<1> QED
  BY <1>1, <1>2, <1>4, <1>5 DEF Converse

LEMMA ConverseNumber ==
  ASSUME NEW t, NEW s \in Nat, NEW w \in Seq(AStep), w # <<>>, NEW v \in Nat, NEW c, NEW u,
         NEW d \in Seq(AUnit), Converse(t, s, w, v, c, u, d), w[1].op = "count"
  PROVE  /\ u = 0
         /\ \A m \in 0..MaxSeqs : \A units : Gift(w[1], c, m, units) =>
              Converse(t, s, Tail(w), m, c, 0, More(d, units))
<1>1. PICK a \in 1..Len(t) :
        /\ Current(t, a) /\ Ordered(w, Len(w))
        /\ \A m \in Numbers(w, Len(w), v) : \E n \in Numbers(t, a, s) :
             (Counts(w, Len(w)) => n = m) /\ Talk(t, a, n, w, m, c, u, d)
  BY DEF Converse
<1>2. /\ Len(w) \in 1..Len(w) /\ Len(Tail(w)) = Len(w) - 1
      /\ Ordered(Tail(w), Len(Tail(w)))
      /\ ~Counts(Tail(w), Len(Tail(w))) /\ Counts(w, Len(w))
  <2>1. Len(w) \in 1..Len(w) /\ Len(Tail(w)) = Len(w) - 1
    BY TailStep
  <2>2. Ordered(Tail(w), Len(w) - 1) /\ ~Counts(Tail(w), Len(w) - 1) /\ Counts(w, Len(w))
    BY <1>1, <2>1, OrderedTail
  <2> QED
    BY <2>1, <2>2
<1>3. ASSUME NEW m \in 0..MaxSeqs
      PROVE  /\ m \in Nat /\ m \in Numbers(t, a, s) /\ u = 0
             /\ \A units : Gift(w[1], c, m, units) => Talk(t, a, m, Tail(w), m, c, 0, More(d, units))
  <2>1. m \in Numbers(w, Len(w), v) /\ m \in Nat
    BY <1>2, LinkAssumption DEF Numbers
  <2>2. m \in Numbers(t, a, s) /\ Talk(t, a, m, w, m, c, u, d)
    BY <1>1, <1>2, <2>1
  <2>3. /\ u = 0
        /\ \A units : Gift(w[1], c, m, units) => Talk(t, a, m, Tail(w), m, c, 0, More(d, units))
    BY <2>1, <2>2, TalkGive
  <2> QED
    BY <2>1, <2>2, <2>3
<1>4. u = 0
  <2>1. 0 \in 0..MaxSeqs
    BY LinkAssumption
  <2> QED
    BY <1>3, <2>1
<1>5. ASSUME NEW m \in 0..MaxSeqs, NEW units, Gift(w[1], c, m, units)
      PROVE  Converse(t, s, Tail(w), m, c, 0, More(d, units))
  <2>1. Numbers(Tail(w), Len(Tail(w)), m) = {m}
    BY <1>2 DEF Numbers
  <2>2. m \in Numbers(t, a, s) /\ Talk(t, a, m, Tail(w), m, c, 0, More(d, units))
    BY <1>3, <1>5
  <2> QED
    BY <1>1, <1>2, <2>1, <2>2 DEF Converse
<1> QED
  BY <1>4, <1>5

LEMMA ConverseRound ==
  ASSUME NEW t, NEW s \in Nat, NEW w \in Seq(AStep), w # <<>>, NEW v \in Nat, NEW c, NEW u, NEW d,
         Converse(t, s, w, v, c, u, d), w[1].op = "loop"
  PROVE  /\ v > 0 => Converse(t, s, Round \o w, v - 1, c, u, d)
         /\ v = 0 => Converse(t, s, Tail(w), v, c, u, d)
<1>1. PICK a \in 1..Len(t) :
        /\ Current(t, a) /\ Ordered(w, Len(w))
        /\ \A m \in Numbers(w, Len(w), v) : \E n \in Numbers(t, a, s) :
             (Counts(w, Len(w)) => n = m) /\ Talk(t, a, n, w, m, c, u, d)
  BY DEF Converse
<1>2. Len(w) \in 1..Len(w) /\ Len(Tail(w)) = Len(w) - 1 /\ ~Counts(w, Len(w))
  <2>1. Len(w) \in 1..Len(w) /\ Len(Tail(w)) = Len(w) - 1
    BY TailStep
  <2> QED
    BY <1>1, <2>1, OrderedTail
<1>3. PICK n \in Numbers(t, a, s) : Talk(t, a, n, w, v, c, u, d)
  BY <1>1, <1>2 DEF Numbers
<1>4. /\ v > 0 => Talk(t, a, n, Round \o w, v - 1, c, u, d)
      /\ v = 0 => Talk(t, a, n, Tail(w), v, c, u, d)
  BY <1>3, TalkRound
<1>5. ASSUME v > 0 PROVE Converse(t, s, Round \o w, v - 1, c, u, d)
  <2> DEFINE both == Round \o w
             r == v - 1
  <2>1. Round \in Seq(AStep) /\ Len(Round) = 5 /\ \A i \in 1..5 : Round[i].op \in {"put", "get"}
    BY TurnSteps, RadarStep
  <2>2. Ordered(both, Len(w) + 5) /\ ~Counts(both, Len(w) + 5)
    BY <1>1, <1>2, <2>1, OrderedTurn
  <2>3. Len(both) = Len(w) + 5
    BY <1>2, <2>1, TurnUpTo
  <2>4. Talk(t, a, n, both, r, c, u, d)
    BY <1>4, <1>5
  <2> HIDE DEF both, r
  <2>5. Numbers(both, Len(both), r) = {r} /\ ~Counts(both, Len(both)) /\ Ordered(both, Len(both))
    BY <2>2, <2>3 DEF Numbers
  <2>6. Converse(t, s, both, r, c, u, d)
    BY <1>1, <1>3, <2>4, <2>5 DEF Converse
  <2> QED
    BY <2>6 DEF both, r
<1>6. ASSUME v = 0 PROVE Converse(t, s, Tail(w), v, c, u, d)
  <2>1. Ordered(Tail(w), Len(w) - 1) /\ ~Counts(Tail(w), Len(w) - 1)
    BY <1>1, <1>2, OrderedTail
  <2>2. Ordered(Tail(w), Len(Tail(w))) /\ ~Counts(Tail(w), Len(Tail(w)))
    BY <1>2, <2>1
  <2>3. Numbers(Tail(w), Len(Tail(w)), v) = {v}
    BY <2>2 DEF Numbers
  <2> QED
    BY <1>1, <1>3, <1>4, <1>6, <2>2, <2>3 DEF Converse
<1> QED
  BY <1>5, <1>6

(***************************************************************************)
(* The beginning of a command.                                             *)
(***************************************************************************)
(* t[1..a] with n turns in the place of t[p].                              *)
Unroll(t, a, p, turn, n) ==
  [x \in 1..(a - 1 + 5 * n) |-> IF x < p THEN t[x]
                                ELSE IF x < p + 5 * n THEN turn[((x - p) % 5) + 1] ELSE t[x + 1 - 5 * n]]

LEMMA Modulo ==
  ASSUME NEW r \in Nat, NEW i \in 1..5
  PROVE  (5 * r + (i - 1)) % 5 = i - 1
  OBVIOUS

LEMMA ModuloRange == ASSUME NEW y \in Nat PROVE (y % 5) + 1 \in 1..5
  OBVIOUS

Turning(U, t, a, p, turn, n) ==
  \A x \in 1..(a - 1 + 5 * n) :
    \/ x < p /\ x \in 1..a /\ U[x] = t[x]
    \/ /\ p <= x /\ x < p + 5 * n /\ ((x - p) % 5) + 1 \in 1..5
       /\ U[x] = turn[((x - p) % 5) + 1]
    \/ x >= p + 5 * n /\ x + 1 - 5 * n \in 1..a /\ U[x] = t[x + 1 - 5 * n]

LEMMA EachStep == ASSUME NEW t \in Seq(AStep) PROVE \A j \in 1..Len(t) : t[j] \in AStep
  OBVIOUS

LEMMA UnrollSteps ==
  ASSUME NEW t \in Seq(AStep), NEW a \in 1..Len(t), NEW p \in 1..a, NEW turn \in Seq(AStep), Len(turn) = 5,
         NEW n \in Nat
  PROVE  /\ a - 1 + 5 * n \in Nat
         /\ Unroll(t, a, p, turn, n) \in [1..(a - 1 + 5 * n) -> AStep]
         /\ Turning(Unroll(t, a, p, turn, n), t, a, p, turn, n)
<1> DEFINE U == Unroll(t, a, p, turn, n)
<1>1. a \in Nat /\ p \in Nat /\ Len(t) \in Nat /\ a <= Len(t) /\ 1 <= p /\ p <= a /\ a - 1 + 5 * n \in Nat
  OBVIOUS
<1>2. \A j \in 1..5 : turn[j] \in AStep
  <2>1. \A j \in 1..Len(turn) : turn[j] \in AStep
    BY EachStep
  <2> QED
    BY <2>1
<1>3. ASSUME NEW x \in 1..(a - 1 + 5 * n)
      PROVE  /\ \/ x < p /\ x \in 1..a /\ U[x] = t[x]
                \/ /\ p <= x /\ x < p + 5 * n /\ ((x - p) % 5) + 1 \in 1..5
                   /\ U[x] = turn[((x - p) % 5) + 1]
                \/ /\ x >= p + 5 * n /\ x + 1 - 5 * n \in 1..a
                   /\ U[x] = t[x + 1 - 5 * n]
             /\ U[x] \in AStep
  <2>1. U[x] = IF x < p THEN t[x]
               ELSE IF x < p + 5 * n THEN turn[((x - p) % 5) + 1] ELSE t[x + 1 - 5 * n]
    BY DEF Unroll
  <2>2. x \in Nat
    BY <1>1
  <2> HIDE DEF U
  <2>3. CASE x < p
    <3>1. x \in 1..a /\ x \in 1..Len(t) /\ U[x] = t[x]
      BY <1>1, <2>1, <2>2, <2>3
    <3> QED
      BY <2>3, <3>1
  <2>4. CASE p <= x /\ x < p + 5 * n
    <3>1. x - p \in Nat /\ ~(x < p)
      BY <1>1, <2>2, <2>4
    <3>2. ((x - p) % 5) + 1 \in 1..5
      BY <3>1, ModuloRange
    <3>3. U[x] = turn[((x - p) % 5) + 1]
      BY <2>1, <2>4, <3>1
    <3>4. turn[((x - p) % 5) + 1] \in AStep
      BY <1>2, <3>2
    <3> QED
      BY <2>4, <3>2, <3>3, <3>4
  <2>5. CASE x >= p + 5 * n
    <3>1. x + 1 - 5 * n \in 1..a /\ x + 1 - 5 * n \in 1..Len(t) /\ ~(x < p) /\ ~(x < p + 5 * n)
      BY <1>1, <2>2, <2>5
    <3>2. U[x] = t[x + 1 - 5 * n]
      BY <2>1, <3>1
    <3> QED
      BY <2>5, <3>1, <3>2
  <2> QED
    BY <1>1, <2>2, <2>3, <2>4, <2>5
<1>4. U \in [1..(a - 1 + 5 * n) -> AStep]
  <2>1. U = [x \in 1..(a - 1 + 5 * n) |-> U[x]]
    BY DEF Unroll
  <2> HIDE DEF U
  <2> QED
    BY <1>3, <2>1
<1> QED
  BY <1>1, <1>3, <1>4 DEF Turning

LEMMA UnrollMade ==
  ASSUME NEW t \in Seq(AStep), NEW a \in 1..Len(t), NEW p \in 1..a, NEW turn \in Seq(AStep), Len(turn) = 5,
         NEW n \in Nat, \A q \in 1..a : t[q].op = "loop" <=> q = p
  PROVE  Unrolled(t, a, turn, n, Unroll(t, a, p, turn, n), a - 1 + 5 * n)
<1> DEFINE U == Unroll(t, a, p, turn, n)
           L == a - 1 + 5 * n
<1>1. a \in Nat /\ p \in Nat /\ 1 <= p /\ p <= a
  OBVIOUS
<1>2. \A x \in 1..L : U[x] = IF x < p THEN t[x]
                             ELSE IF x < p + 5 * n THEN turn[((x - p) % 5) + 1] ELSE t[x + 1 - 5 * n]
  BY DEF Unroll
<1> HIDE DEF U
<1>3. ASSUME NEW q \in 1..(p - 1) PROVE U[q] = t[q]
  BY <1>1, <1>2
<1>4. ASSUME NEW r \in 0..(n - 1), NEW i \in 1..5 PROVE U[p - 1 + 5 * r + i] = turn[i]
  <2> DEFINE x == p - 1 + 5 * r + i
  <2>1. x \in 1..L /\ p <= x /\ x < p + 5 * n /\ x - p = 5 * r + (i - 1) /\ r \in Nat /\ ~(x < p)
    BY <1>1
  <2>2. ((x - p) % 5) + 1 = i
    BY <2>1, Modulo
  <2> HIDE DEF x, L
  <2>3. U[x] = turn[((x - p) % 5) + 1]
    BY <1>2, <2>1
  <2>4. U[x] = turn[i]
    BY <2>2, <2>3
  <2> QED
    BY <2>4 DEF x
<1>5. ASSUME NEW q \in (p + 1)..a PROVE U[q - 1 + 5 * n] = t[q]
  <2>1. /\ q - 1 + 5 * n \in 1..L /\ ~(q - 1 + 5 * n < p) /\ ~(q - 1 + 5 * n < p + 5 * n)
        /\ (q - 1 + 5 * n) + 1 - 5 * n = q
    BY <1>1
  <2> QED
    BY <1>2, <2>1
<1> QED
  BY <1>3, <1>4, <1>5 DEF Unrolled, U

(* The radar hears the command first.                                      *)
LEMMA AheadStart ==
  ASSUME NEW L \in Nat, NEW S, NEW W, W[1] = Step("get", "none", 2),
         \A q \in 1..L : Matches(S[q], W[q + 1])
  PROVE  Ahead(S, L, W, L + 1, 2)
<1>1. W[1].op = "get" /\ W[1].n = 2 /\ Size(W[1]) = 2
  BY DEF Step, Size
<1>2. Spans(W, 0, 0)
  BY SpansZero
<1>3. Spans(W, 0 + 1, 0 + Size(W[0 + 1]))
  <2>1. 0 \in Nat /\ Size(W[0 + 1]) \in Nat
    BY <1>1
  <2> QED
    BY <1>2, <2>1, SpansMore
<1>4. Spans(W, 1, 2)
  <2>1. 0 + 1 = 1 /\ 0 + Size(W[0 + 1]) = 2
    BY <1>1
  <2> QED
    BY <1>3, <2>1
<1>5. \A i \in 1..1 : W[i].op = "get" /\ W[i].n > 0
  BY <1>1
<1> QED
  BY <1>4, <1>5 DEF Ahead

LEMMA Heralded ==
  ASSUME NEW w \in Seq(AStep), NEW a \in Nat, a = Len(w)
  PROVE  /\ Get(2) \o w \in Seq(AStep) /\ Len(Get(2) \o w) = a + 1
         /\ (Get(2) \o w)[1] = Step("get", "none", 2) /\ (Get(2) \o w)[1].op = "get"
         /\ \A q \in 1..a : (Get(2) \o w)[q + 1] = w[q] /\ q + 1 \in 1..(a + 1) /\ q + 1 # 1
         /\ \A q \in 1..(a + 1) : q # 1 => q - 1 \in 1..a /\ (Get(2) \o w)[q] = w[q - 1]
<1> DEFINE g == Get(2) \o w
<1>1. Get(2) \in Seq(AStep) /\ Len(Get(2)) = 1 /\ Get(2)[1] = Step("get", "none", 2)
  BY SomeSteps DEF Get, Moves
<1>2. Joint(g, Get(2), 1, w, a)
  BY <1>1, JoinedSteps
<1> HIDE DEF g
<1>3. g \in Seq(AStep) /\ Len(g) = a + 1
  BY <1>2 DEF Joint
<1>4. g[1] = Step("get", "none", 2)
  <2>1. 1 \in 1..(1 + a) /\ ~(1 - 1 \in 1..a)
    OBVIOUS
  <2> QED
    BY <1>1, <1>2, <2>1 DEF Joint
<1>5. ASSUME NEW q \in 1..(a + 1), q # 1 PROVE q - 1 \in 1..a /\ g[q] = w[q - 1]
  <2>1. q - 1 \in 1..a /\ q \in 1..(1 + a) /\ ~(q \in 1..1)
    BY <1>5
  <2> QED
    BY <1>2, <2>1 DEF Joint
<1>6. ASSUME NEW q \in 1..a PROVE g[q + 1] = w[q] /\ q + 1 \in 1..(a + 1) /\ q + 1 # 1
  <2>1. q + 1 \in 1..(a + 1) /\ q + 1 # 1 /\ (q + 1) - 1 = q
    OBVIOUS
  <2> QED
    BY <1>5, <2>1
<1>7. g[1].op = "get"
  BY <1>4 DEF Step
<1> QED
  BY <1>3, <1>4, <1>5, <1>6, <1>7 DEF g

LEMMA TalkStart ==
  ASSUME NEW t \in Seq(AStep), NEW a \in 1..Len(t), NEW w \in Seq(AStep), Len(w) = a,
         \A q \in 1..a : Matches(t[q], w[q]) /\ (w[q].op = "answer" <=> q = a),
         \A q \in 1..a : t[q].op \in {"put", "get"} => t[q].n > 0,
         NEW n \in Nat, NEW m \in Nat, NEW c,
         \/ \A q \in 1..a : w[q].op # "loop"
         \/ n = m /\ \E p \in 1..a : \A q \in 1..a : w[q].op = "loop" <=> q = p
  PROVE  Talk(t, a, n, Get(2) \o w, m, c, 2, <<>>)
<1> DEFINE g == Get(2) \o w
<1>1. /\ a \in Nat \ {0} /\ a \in 1..a /\ Len(t) \in Nat /\ a <= Len(t)
      /\ \A q \in 1..a : t[q] \in AStep
  OBVIOUS
<1>2. /\ g \in Seq(AStep) /\ Len(g) = a + 1 /\ g[1] = Step("get", "none", 2) /\ g[1].op = "get"
      /\ \A q \in 1..a : g[q + 1] = w[q] /\ q + 1 \in 1..(a + 1) /\ q + 1 # 1
      /\ \A q \in 1..(a + 1) : q # 1 => q - 1 \in 1..a /\ g[q] = w[q - 1]
  <2>1. w \in Seq(AStep) /\ a \in Nat /\ a = Len(w)
    BY <1>1
  <2> QED
    BY <2>1, Heralded, SMTT(30)
<1> HIDE DEF g
<1>3. t[a].op \in Endings
  BY <1>1 DEF Matches
<1>4. \A q \in 1..(a - 1) : t[q].op \in {"put", "get", "count", "loop"}
  <2>1. SUFFICES ASSUME NEW q \in 1..(a - 1) PROVE t[q].op \in {"put", "get", "count", "loop"}
    OBVIOUS
  <2>2. q \in 1..a /\ q # a
    BY <1>1
  <2> QED
    BY <2>2 DEF Matches
<1>5. \A q \in 1..a : t[q].op = "loop" <=> w[q].op = "loop"
  BY DEF Matches, Endings
<1>6. \A q \in 1..(a + 1) : g[q] \in AStep
  BY <1>2
<1>7. CASE \A q \in 1..a : w[q].op # "loop"
  <2> DEFINE S == [q \in 1..a |-> t[q]]
             W == [q \in 1..(a + 1) |-> g[q]]
  <2>1. S \in [1..a -> AStep] /\ \A q \in 1..a : S[q] = t[q]
    BY <1>1
  <2>2. W \in [1..(a + 1) -> AStep] /\ \A q \in 1..(a + 1) : W[q] = g[q]
    BY <1>6
  <2> HIDE DEF S, W
  <2>3. Script(S, a)
    <3>1. \A q \in 1..(a - 1) : q \in 1..a /\ S[q].op \in {"put", "get", "count"}
      <4>1. \A q \in 1..(a - 1) : q \in 1..a
        BY <1>1
      <4> QED
        BY <1>4, <1>5, <1>7, <2>1, <4>1
    <3>2. S[a].op \in Endings /\ \A q \in 1..a : S[q].op \in {"put", "get"} => S[q].n > 0
      BY <1>1, <1>3, <2>1
    <3> QED
      BY <1>1, <2>1, <3>1, <3>2 DEF Script
  <2>4. Unrolled(t, a, Sequence, n, S, a)
    BY <1>5, <1>7, <2>1 DEF Unrolled
  <2>5. Unrolled(g, Len(g), Round, m, W, a + 1)
    <3>1. \A q \in 1..(a + 1) : g[q].op # "loop"
      BY <1>2, <1>7
    <3>2. Unrolled(g, a + 1, Round, m, W, a + 1)
      BY <2>2, <3>1 DEF Unrolled
    <3> QED
      BY <1>2, <3>2
  <2>6. Ahead(S, a, W, a + 1, 2)
    <3>1. W[1] = Step("get", "none", 2)
      BY <1>1, <1>2, <2>2
    <3>2. ASSUME NEW q \in 1..a PROVE Matches(S[q], W[q + 1])
      <4>1. S[q] = t[q] /\ W[q + 1] = w[q]
        BY <1>2, <2>1, <2>2
      <4> QED
        BY <4>1
    <3> QED
      BY <1>1, <3>1, <3>2, AheadStart
  <2>7. Linked(t, a, n, g, m, c, 2, <<>>, S, a, W, a + 1)
    BY <1>1, <2>2, <2>3, <2>4, <2>5, <2>6 DEF Linked, InStep
  <2> QED
    BY <2>7 DEF Talk, g
<1>8. CASE n = m /\ \E p \in 1..a : \A q \in 1..a : w[q].op = "loop" <=> q = p
  <2>1. PICK p \in 1..a : \A q \in 1..a : w[q].op = "loop" <=> q = p
    BY <1>8
  <2> DEFINE L == a - 1 + 5 * n
             S == Unroll(t, a, p, Sequence, n)
             W == Unroll(g, a + 1, p + 1, Round, n)
  <2>2. Sequence \in Seq(AStep) /\ Len(Sequence) = 5 /\ Round \in Seq(AStep) /\ Len(Round) = 5
    BY TurnSteps, RadarStep
  <2>3. p \in Nat /\ p # a /\ p < a /\ 1 <= p /\ p + 1 \in 1..(a + 1) /\ a + 1 \in 1..Len(g)
        /\ L \in Nat \ {0} /\ L + 1 = (a + 1) - 1 + 5 * n /\ L \in 1..L
    <3>1. p # a
      BY <1>1, <2>1
    <3> QED
      BY <1>1, <1>2, <3>1
  <2>4. \A q \in 1..a : t[q].op = "loop" <=> q = p
    BY <1>5, <2>1
  <2>5. \A q \in 1..(a + 1) : g[q].op = "loop" <=> q = p + 1
    <3>1. SUFFICES ASSUME NEW q \in 1..(a + 1) PROVE g[q].op = "loop" <=> q = p + 1
      OBVIOUS
    <3>2. CASE q = 1
      BY <1>2, <2>3, <3>2
    <3>3. CASE q # 1
      <4>1. q - 1 \in 1..a /\ g[q] = w[q - 1]
        BY <1>2, <3>3
      <4>2. w[q - 1].op = "loop" <=> q - 1 = p
        BY <2>1, <4>1
      <4>3. q - 1 = p <=> q = p + 1
        BY <2>3
      <4> QED
        BY <4>1, <4>2, <4>3
    <3> QED
      BY <3>2, <3>3
  <2>6. S \in [1..L -> AStep] /\ Unrolled(t, a, Sequence, n, S, L)
    BY <2>2, <2>4, UnrollSteps, UnrollMade
  <2>7. W \in [1..((a + 1) - 1 + 5 * n) -> AStep] /\ Unrolled(g, a + 1, Round, n, W, (a + 1) - 1 + 5 * n)
    BY <1>2, <2>2, <2>3, <2>5, UnrollSteps, UnrollMade
  <2>8. W \in [1..(L + 1) -> AStep] /\ Unrolled(g, Len(g), Round, n, W, L + 1)
    BY <1>2, <2>3, <2>7
  <2>9. Turning(S, t, a, p, Sequence, n)
    BY <2>2, UnrollSteps
  <2>10. \A x \in 1..L :
           W[x + 1] = IF x + 1 < p + 1 THEN g[x + 1]
                      ELSE IF x + 1 < p + 1 + 5 * n THEN Round[((x + 1 - (p + 1)) % 5) + 1]
                      ELSE g[x + 1 + 1 - 5 * n]
    <3>1. \A x \in 1..L : x + 1 \in 1..((a + 1) - 1 + 5 * n)
      BY <2>3
    <3> QED
      BY <3>1 DEF Unroll
  <2> HIDE DEF S, W, L
  <2>11. ASSUME NEW x \in 1..L
         PROVE  /\ Matches(S[x], W[x + 1])
                /\ IF x = L THEN S[x].op \in Endings ELSE S[x].op \in {"put", "get", "count"}
                /\ S[x].op \in {"put", "get"} => S[x].n > 0
    <3>1. x \in Nat /\ L \in Nat
      BY <2>3
    <3>2. CASE x < p /\ x \in 1..a /\ S[x] = t[x]
      <4>1. x + 1 < p + 1 /\ x # p /\ x \in 1..(a - 1) /\ x # L
        <5>1. x < p /\ x \in 1..a
          BY <3>2
        <5> QED
          BY <1>1, <2>3, <3>1, <5>1 DEF L
      <4>2. W[x + 1] = g[x + 1] /\ g[x + 1] = w[x]
        BY <1>2, <2>10, <3>2, <4>1
      <4>3. W[x + 1] = w[x] /\ x # p /\ x \in 1..(a - 1) /\ x # L
        BY <4>1, <4>2
      <4>4. t[x].op \in {"put", "get", "count"}
        BY <1>4, <2>4, <3>2, <4>3
      <4> QED
        BY <3>2, <4>3, <4>4
    <3>3. CASE /\ p <= x /\ x < p + 5 * n /\ ((x - p) % 5) + 1 \in 1..5
               /\ S[x] = Sequence[((x - p) % 5) + 1]
      <4> DEFINE i == ((x - p) % 5) + 1
      <4>1. x + 1 - (p + 1) = x - p /\ ~(x + 1 < p + 1) /\ x + 1 < p + 1 + 5 * n /\ x # L
        <5>1. p <= x /\ x < p + 5 * n
          BY <3>3
        <5> QED
          BY <1>1, <2>3, <3>1, <5>1 DEF L
      <4>2. W[x + 1] = Round[i] /\ S[x] = Sequence[i] /\ i \in 1..5
        BY <2>10, <3>3, <4>1
      <4> HIDE DEF i
      <4> QED
        BY <4>1, <4>2, TurnSteps
    <3>4. CASE x >= p + 5 * n /\ x + 1 - 5 * n \in 1..a /\ S[x] = t[x + 1 - 5 * n]
      <4> DEFINE y == x + 1 - 5 * n
      <4>1. /\ ~(x + 1 < p + 1) /\ ~(x + 1 < p + 1 + 5 * n) /\ x + 1 + 1 - 5 * n = y + 1
            /\ y # p /\ (x = L <=> y = a) /\ y \in 1..a /\ (y # a => y \in 1..(a - 1))
        BY <1>1, <2>3, <3>1, <3>4 DEF L
      <4>2. W[x + 1] = g[y + 1]
        BY <2>10, <4>1
      <4>3. S[x] = t[y]
        BY <3>4
      <4> HIDE DEF y
      <4>4. W[x + 1] = w[y]
        BY <1>2, <4>1, <4>2
      <4>5. y # a => t[y].op \in {"put", "get", "count"}
        BY <1>4, <2>4, <4>1
      <4> QED
        BY <1>3, <4>1, <4>3, <4>4, <4>5
    <3> QED
      BY <2>9, <3>2, <3>3, <3>4 DEF L, Turning
  <2>12. Script(S, L)
    <3>1. \A q \in 1..(L - 1) : q \in 1..L /\ q # L
      BY <2>3
    <3> QED
      BY <2>3, <2>6, <2>11, <3>1 DEF Script
  <2>13. Ahead(S, L, W, L + 1, 2)
    <3>1. W[1] = g[1]
      <4>1. 1 \in 1..((a + 1) - 1 + 5 * n) /\ 1 < p + 1
        BY <1>1, <2>3
      <4> QED
        BY <4>1 DEF W, Unroll
    <3>2. W[1] = Step("get", "none", 2)
      BY <1>2, <3>1
    <3> QED
      BY <2>3, <2>11, <3>2, AheadStart
  <2>14. Linked(t, a, n, g, m, c, 2, <<>>, S, L, W, L + 1)
    BY <1>8, <2>3, <2>6, <2>8, <2>12, <2>13 DEF Linked, InStep
  <2> QED
    BY <2>14 DEF Talk, g
<1> QED
  BY <1>7, <1>8

(***************************************************************************)
(* The work of the radar.                                                  *)
(***************************************************************************)
Plain(w) == w \in Seq(RStep) /\ \A i \in 1..Len(w) : w[i].op \in {"put", "get"}

(* Nothing but pieces, and the number of sequences after the first.        *)
Counted(w) ==
  /\ w \in Seq(RStep) /\ Len(w) >= 2
  /\ \A i \in 1..Len(w) : IF i = 2 THEN w[i].op = "count" ELSE w[i].op \in {"put", "get"}

(* A command ends with an answer, and its loop, if it has one, knows how   *)
(* many turns it has.                                                      *)
Task(w) ==
  /\ w \in Seq(RStep) /\ Len(w) \in Nat \ {0}
  /\ \A i \in 1..Len(w) : w[i].op = "answer" <=> i = Len(w)
  /\ Ordered(w, Len(w))
  /\ \/ \A i \in 1..Len(w) : w[i].op \notin {"count", "loop"}
     \/ Counts(w, Len(w)) /\ \E p \in 1..Len(w) : \A i \in 1..Len(w) : w[i].op = "loop" <=> i = p

LEMMA PlainJoin == ASSUME NEW w, NEW x, Plain(w), Plain(x) PROVE Plain(w \o x)
<1> DEFINE wx == w \o x
<1>1. /\ wx \in Seq(RStep) /\ Len(w) \in Nat /\ Len(x) \in Nat /\ Len(wx) = Len(w) + Len(x)
      /\ \A i \in 1..(Len(w) + Len(x)) : wx[i] = IF i <= Len(w) THEN w[i] ELSE x[i - Len(w)]
  BY Joined DEF Plain
<1> HIDE DEF wx
<1>2. ASSUME NEW i \in 1..Len(wx) PROVE wx[i].op \in {"put", "get"}
  <2>1. i \in 1..(Len(w) + Len(x)) /\ i \in Nat
    BY <1>1
  <2>2. \/ i \in 1..Len(w) /\ wx[i] = w[i]
        \/ i - Len(w) \in 1..Len(x) /\ wx[i] = x[i - Len(w)]
    BY <1>1, <2>1
  <2> QED
    BY <2>2 DEF Plain
<1>3. Plain(wx)
  BY <1>1, <1>2 DEF Plain
<1> QED
  BY <1>3 DEF wx

LEMMA CountedJoin == ASSUME NEW w, NEW x, Counted(w), Plain(x) PROVE Counted(w \o x)
<1> DEFINE wx == w \o x
<1>1. /\ wx \in Seq(RStep) /\ Len(w) \in Nat /\ Len(x) \in Nat /\ Len(wx) = Len(w) + Len(x)
      /\ \A i \in 1..(Len(w) + Len(x)) : wx[i] = IF i <= Len(w) THEN w[i] ELSE x[i - Len(w)]
  BY Joined DEF Plain, Counted
<1> HIDE DEF wx
<1>2. ASSUME NEW i \in 1..Len(wx)
      PROVE  IF i = 2 THEN wx[i].op = "count" ELSE wx[i].op \in {"put", "get"}
  <2>1. i \in 1..(Len(w) + Len(x)) /\ i \in Nat /\ Len(w) >= 2
    BY <1>1 DEF Counted
  <2>2. \/ i \in 1..Len(w) /\ wx[i] = w[i]
        \/ i - Len(w) \in 1..Len(x) /\ wx[i] = x[i - Len(w)] /\ i # 2
    BY <1>1, <2>1
  <2> QED
    BY <2>2 DEF Plain, Counted
<1>3. Counted(wx)
  <2>1. Len(wx) >= 2
    BY <1>1 DEF Counted
  <2> QED
    BY <1>1, <1>2, <2>1 DEF Counted
<1> QED
  BY <1>3 DEF wx

LEMMA PlainTimes ==
  ASSUME NEW k \in Nat, NEW size \in Nat
  PROVE  Plain(Times(k, Put(size))) /\ Plain(Times(k, Get(size)))
<1>1. ASSUME NEW op \in {"put", "get"} PROVE Plain(Times(k, <<Step(op, "none", size)>>))
  <2>1. Step(op, "none", size) \in RStep /\ Step(op, "none", size).op = op
    BY SomeSteps DEF Moves, Step
  <2> QED
    BY <2>1, TimesStep DEF Plain
<1> QED
  BY <1>1 DEF Put, Get

LEMMA PlainOne ==
  /\ \A size \in Nat : Plain(Put(size)) /\ Plain(Get(size))
  /\ Plain(<<>>)
<1>1. ASSUME NEW size \in Nat, NEW op \in {"put", "get"} PROVE Plain(<<Step(op, "none", size)>>)
  <2>1. Step(op, "none", size) \in RStep /\ Step(op, "none", size).op = op
    BY SomeSteps DEF Moves, Step
  <2> QED
    BY <2>1 DEF Plain
<1>2. Plain(<<>>)
  BY DEF Plain
<1> QED
  BY <1>1, <1>2 DEF Put, Get

(* The answer after pieces.                                                *)
LEMMA PlainTask == ASSUME NEW w, Plain(w) PROVE Task(w \o Do("answer"))
<1> DEFINE x == Do("answer")
           wx == w \o x
<1>1. x \in Seq(RStep) /\ Len(x) = 1 /\ x[1].op = "answer"
  BY SomeSteps DEF Do, Step
<1> HIDE DEF x
<1>2. /\ wx \in Seq(RStep) /\ Len(w) \in Nat /\ Len(wx) = Len(w) + 1
      /\ \A i \in 1..(Len(w) + 1) : wx[i] = IF i <= Len(w) THEN w[i] ELSE x[i - Len(w)]
  <2>1. w \in Seq(RStep)
    BY DEF Plain
  <2> QED
    BY <1>1, <2>1, JoinedOne
<1> HIDE DEF wx
<1>3. ASSUME NEW i \in 1..Len(wx)
      PROVE  (wx[i].op = "answer" <=> i = Len(wx)) /\ wx[i].op \notin {"count", "loop"}
  <2>1. \/ i \in 1..Len(w) /\ wx[i] = w[i] /\ i # Len(wx)
        \/ i - Len(w) = 1 /\ wx[i] = x[1] /\ i = Len(wx)
    BY <1>2
  <2> QED
    BY <1>1, <2>1 DEF Plain
<1>4. Task(wx)
  <2>1. Len(wx) \in Nat \ {0}
    BY <1>2
  <2> QED
    BY <1>2, <1>3, <2>1 DEF Task, Ordered
<1> QED
  BY <1>4 DEF wx, x

(* The loop and the answer after pieces and a number.                      *)
LEMMA CountedTask == ASSUME NEW w, Counted(w) PROVE Task(w \o Do("loop") \o Do("answer"))
<1> DEFINE y == Do("loop")
           wy == w \o y
           x == Do("answer")
           wx == wy \o x
<1>1. /\ y \in Seq(RStep) /\ Len(y) = 1 /\ y[1].op = "loop"
      /\ x \in Seq(RStep) /\ Len(x) = 1 /\ x[1].op = "answer"
  BY SomeSteps DEF Do, Step, Moves
<1> HIDE DEF x, y
<1>2. /\ wy \in Seq(RStep) /\ Len(w) \in Nat /\ Len(wy) = Len(w) + 1
      /\ \A i \in 1..(Len(w) + 1) : wy[i] = IF i <= Len(w) THEN w[i] ELSE y[i - Len(w)]
  BY <1>1, JoinedOne DEF Counted
<1> HIDE DEF wy
<1>3. /\ wx \in Seq(RStep) /\ Len(wy) \in Nat /\ Len(wx) = Len(wy) + 1
      /\ \A i \in 1..(Len(wy) + 1) : wx[i] = IF i <= Len(wy) THEN wy[i] ELSE x[i - Len(wy)]
  BY <1>1, <1>2, JoinedOne
<1> HIDE DEF wx
<1>4. ASSUME NEW i \in 1..Len(wx)
      PROVE  /\ wx[i].op = "answer" <=> i = Len(wx)
             /\ wx[i].op = "loop" <=> i = Len(w) + 1
             /\ wx[i].op = "count" <=> i = 2
  <2>1. \/ i \in 1..Len(w) /\ wx[i] = w[i] /\ i # Len(wx) /\ i # Len(w) + 1
        \/ i = Len(w) + 1 /\ wx[i] = y[1] /\ i # Len(wx)
        \/ i # Len(w) + 1 /\ wx[i] = x[1] /\ i = Len(wx)
    BY <1>2, <1>3
  <2>2. Len(w) >= 2 /\ \A j \in 1..Len(w) : IF j = 2 THEN w[j].op = "count" ELSE w[j].op \in {"put", "get"}
    BY DEF Counted
  <2>3. Len(w) + 1 # 2 /\ Len(wx) # 2 /\ i \in Nat
    BY <1>2, <1>3, <2>2
  <2> QED
    BY <1>1, <2>1, <2>2, <2>3
<1>5. 2 \in 1..Len(wx) /\ Len(w) + 1 \in 1..Len(wx) /\ 2 < Len(w) + 1 /\ Len(wx) \in Nat \ {0}
  BY <1>2, <1>3 DEF Counted
<1>6. Ordered(wx, Len(wx)) /\ Counts(wx, Len(wx))
  BY <1>4, <1>5 DEF Ordered, Counts
<1>7. Task(wx)
  BY <1>3, <1>4, <1>5, <1>6 DEF Task
<1> QED
  BY <1>7 DEF wx, wy, x, y

LEMMA WorkTask == ASSUME NEW c PROVE Task(Work(c) \o Do("answer"))
<1>1. /\ Large \in Nat /\ Periods \in Nat /\ Pulses \in Nat /\ 7 + Pulses \in Nat /\ 1 + Bauds \in Nat
  BY LinkAssumption
<1>2. Plain(<<>>) /\ Plain(Get(Large)) /\ Plain(Put(Large)) /\ Plain(Get(Periods)) /\ Plain(Put(1)) /\ Plain(Get(1))
  BY <1>1, PlainOne
<1>3. Plain(ScanData)
  <2>1. Plain(Times(2, Get(1)) \o Times(3, Get(Periods)) \o Times(6, Get(1)))
    BY <1>1, PlainTimes, PlainJoin
  <2>2. Plain(IF Sync THEN Get(Periods) ELSE <<>>)
    BY <1>2
  <2> QED
    BY <2>1, <2>2, PlainJoin DEF ScanData
<1>4. Plain(Times(3, Get(Large)) \o Times(7 + Pulses, Get(1)) \o Times(1 + Bauds, Get(1)))
  BY <1>1, PlainTimes, PlainJoin
<1>5. Plain(Times(6, Get(1))) /\ Plain(Times(2, Put(1)))
  BY PlainTimes
<1>6. CASE c # "GET_DATA"
  <2>1. Plain(Work(c))
    BY <1>2, <1>3, <1>4, <1>5, <1>6 DEF Work
  <2> QED
    BY <2>1, PlainTask
<1>7. CASE c = "GET_DATA"
  <2>1. Counted(Put(Large) \o Do("count"))
    <3>1. Put(Large) \in Seq(RStep) /\ Len(Put(Large)) = 1 /\ Put(Large)[1].op = "put"
      BY <1>1, SomeSteps DEF Put, Step, Moves
    <3>2. Do("count") \in Seq(RStep) /\ Len(Do("count")) = 1 /\ Do("count")[1].op = "count"
      BY SomeSteps DEF Do, Step, Moves
    <3> DEFINE x == Put(Large)
               y == Do("count")
               z == x \o y
    <3> HIDE DEF x, y
    <3>3. z \in Seq(RStep) /\ Len(z) = 2 /\ z[1] = x[1] /\ z[2] = y[1]
      <4>1. /\ z \in Seq(RStep) /\ Len(z) = 1 + 1
            /\ \A i \in 1..(1 + 1) : z[i] = IF i <= 1 THEN x[i] ELSE y[i - 1]
        BY <3>1, <3>2, Joined DEF x, y
      <4> QED
        BY <4>1
    <3> HIDE DEF z
    <3>4. Counted(z)
      BY <3>1, <3>2, <3>3 DEF Counted, x, y
    <3> QED
      BY <3>4 DEF z, x, y
  <2>2. /\ Plain(Times(2, Put(Pulses))) /\ Plain(Times(2, Put(Large))) /\ Plain(Times(7, Put(1)))
    BY <1>1, PlainTimes
  <2>3. Counted(Put(Large) \o Do("count") \o Put(1))
    BY <1>2, <2>1, CountedJoin
  <2>4. Counted(Put(Large) \o Do("count") \o Put(1) \o Times(2, Put(Pulses)))
    BY <2>2, <2>3, CountedJoin
  <2>5. Counted(Put(Large) \o Do("count") \o Put(1) \o Times(2, Put(Pulses)) \o Put(1))
    BY <1>2, <2>4, CountedJoin
  <2>6. Counted(Put(Large) \o Do("count") \o Put(1) \o Times(2, Put(Pulses)) \o Put(1)
                  \o Times(2, Put(Large)))
    BY <2>2, <2>5, CountedJoin
  <2>7. Counted(Put(Large) \o Do("count") \o Put(1) \o Times(2, Put(Pulses)) \o Put(1)
                  \o Times(2, Put(Large)) \o Times(7, Put(1)))
    BY <2>2, <2>6, CountedJoin
  <2>8. Counted(Put(Large) \o Do("count") \o Put(1) \o Times(2, Put(Pulses)) \o Put(1)
                  \o Times(2, Put(Large)) \o Times(7, Put(1)) \o Put(Large))
    BY <1>2, <2>7, CountedJoin
  <2> QED
    BY <1>7, <2>8, CountedTask DEF Work
<1> QED
  BY <1>6, <1>7

(***************************************************************************)
(* A command begins: its message is on the way.                            *)
(***************************************************************************)
LEMMA ConverseStart ==
  ASSUME NEW t \in Seq(AStep), NEW w, Task(w), Len(w) <= Len(t),
         \A q \in 1..Len(w) : Matches(t[q], w[q]) /\ (t[q].op \in {"put", "get"} => t[q].n > 0),
         NEW s \in Nat, NEW v \in Nat, NEW c
  PROVE  Converse(t, s, Get(2) \o w, v, c, 2, <<>>)
<1> DEFINE a == Len(w)
           g == Get(2) \o w
<1>1. w \in Seq(RStep) /\ w \in Seq(AStep) /\ a \in Nat \ {0} /\ a \in 1..Len(t)
  <2>1. w \in Seq(RStep) /\ Len(w) \in Nat \ {0}
    BY DEF Task
  <2> QED
    BY <2>1, RadarStep
<1>2. /\ g \in Seq(AStep) /\ Len(g) = a + 1 /\ g[1].op = "get"
      /\ \A q \in 1..a : g[q + 1] = w[q] /\ q + 1 \in 1..(a + 1) /\ q + 1 # 1
      /\ \A q \in 1..(a + 1) : q # 1 => q - 1 \in 1..a /\ g[q] = w[q - 1]
  BY <1>1, Heralded
<1>3. \A q \in 1..a :
        /\ Matches(t[q], w[q]) /\ (w[q].op = "answer" <=> q = a)
        /\ t[q].op \in {"put", "get"} => t[q].n > 0
        /\ w[q].op \in Moves \cup {"answer"}
  <2>1. \A q \in 1..Len(w) : w[q] \in RStep
    BY <1>1
  <2> QED
    BY <2>1 DEF Task, RStep
<1>4. Ordered(w, a)
  BY DEF Task
<1> HIDE DEF g, a
<1>5. \A q \in 1..a : /\ t[q].op = "count" <=> w[q].op = "count"
                      /\ t[q].op = "loop" <=> w[q].op = "loop"
                      /\ t[q].op \in Endings <=> q = a
                      /\ q # a => t[q].op \in {"put", "get", "count", "loop"}
  BY <1>3 DEF Matches, Endings, Moves
<1>6. Current(t, a)
  <2>1. Ordered(t, a)
    BY <1>4, <1>5 DEF Ordered
  <2>2. a \in 1..a /\ \A q \in 1..(a - 1) : q \in 1..a /\ q # a
    BY <1>1
  <2> QED
    BY <1>1, <1>5, <2>1, <2>2 DEF Current
<1>7. Ordered(g, a + 1)
  <2>1. ASSUME NEW p \in 1..(a + 1), NEW q \in 1..(a + 1), g[p].op = "count"
        PROVE  (g[q].op = "count" => p = q) /\ (g[q].op = "loop" => p < q)
    <3>1. p # 1 /\ p - 1 \in 1..a /\ w[p - 1].op = "count"
      BY <1>2, <2>1
    <3>2. CASE q = 1
      BY <1>2, <3>2
    <3>3. CASE q # 1
      <4>1. q - 1 \in 1..a /\ g[q] = w[q - 1]
        BY <1>2, <3>3
      <4>2. (w[q - 1].op = "count" => p - 1 = q - 1) /\ (w[q - 1].op = "loop" => p - 1 < q - 1)
        BY <1>4, <3>1, <4>1 DEF Ordered
      <4> QED
        BY <1>1, <4>1, <4>2
    <3> QED
      BY <3>2, <3>3
  <2> QED
    BY <2>1 DEF Ordered
<1>8. (Counts(g, a + 1) <=> Counts(w, a)) /\ (Counts(t, a) <=> Counts(w, a))
  BY <1>2, <1>5 DEF Counts
<1>9. \/ \A q \in 1..a : w[q].op \notin {"count", "loop"}
      \/ Counts(w, a) /\ \E p \in 1..a : \A q \in 1..a : w[q].op = "loop" <=> q = p
  BY DEF Task, a
<1>10. ASSUME NEW m \in Numbers(g, a + 1, v)
       PROVE  \E n \in Numbers(t, a, s) : (Counts(g, a + 1) => n = m) /\ Talk(t, a, n, g, m, c, 2, <<>>)
  <2>1. m \in Nat
    BY <1>10, SomeNumber
  <2>2. CASE Counts(w, a) /\ \E p \in 1..a : \A q \in 1..a : w[q].op = "loop" <=> q = p
    <3>1. m \in Numbers(t, a, s)
      BY <1>8, <1>10, <2>2 DEF Numbers
    <3>2. Talk(t, a, m, g, m, c, 2, <<>>)
      BY <1>1, <1>3, <2>1, <2>2, TalkStart DEF g, a
    <3> QED
      BY <3>1, <3>2
  <2>3. CASE \A q \in 1..a : w[q].op \notin {"count", "loop"}
    <3>1. ~Counts(w, a)
      BY <2>3 DEF Counts
    <3>2. s \in Numbers(t, a, s)
      BY <1>8, <3>1 DEF Numbers
    <3>3. Talk(t, a, s, g, m, c, 2, <<>>)
      BY <1>1, <1>3, <2>1, <2>3, TalkStart DEF g, a
    <3> QED
      BY <1>8, <3>1, <3>2, <3>3
  <2> QED
    BY <1>9, <2>2, <2>3
<1>11. Len(g) = a + 1
  BY <1>2
<1> QED
  BY <1>1, <1>6, <1>7, <1>10, <1>11 DEF Converse, g

(***************************************************************************)
(* The steps of the program.                                               *)
(***************************************************************************)
Closes == Endings \cup {"check", "test", "alloc", "exit"}

(* The steps of a function of the site library.                            *)
Good(t) == t \in Seq(AStep) /\ Shape(t) /\ (t # <<>> => t[1].op \in Pauses)

LEMMA WorkLength == ASSUME NEW c PROVE Len(Work(c) \o Do("answer")) \in Nat \ {0}
  BY WorkTask DEF Task

LEMMA ShapeJoin ==
  ASSUME NEW s \in Seq(AStep), NEW t \in Seq(AStep), Shape(s), Shape(t),
         s # <<>> /\ t # <<>> => (s[Len(s)].op \in Closes => t[1].op \in Pauses)
  PROVE  s \o t \in Seq(AStep) /\ Shape(s \o t)
<1> DEFINE x == s \o t
           a == Len(s)
           b == Len(t)
<1>1. /\ x \in Seq(AStep) /\ a \in Nat /\ b \in Nat /\ Len(x) = a + b
      /\ \A i \in 1..(a + b) : x[i] = IF i <= a THEN s[i] ELSE t[i - a]
  BY Joined
<1>2. s # <<>> /\ t # <<>> <=> a > 0 /\ b > 0
  BY <1>1
<1> HIDE DEF x
<1>3. /\ \A i \in 1..a : x[i] = s[i] /\ i \in 1..(a + b)
      /\ \A i \in 1..b : x[a + i] = t[i] /\ a + i \in 1..(a + b)
  <2>1. ASSUME NEW i \in 1..b PROVE x[a + i] = t[i] /\ a + i \in 1..(a + b)
    <3>1. a + i \in 1..(a + b) /\ ~(a + i <= a) /\ (a + i) - a = i
      BY <1>1
    <3> QED
      BY <1>1, <3>1
  <2>2. ASSUME NEW i \in 1..a PROVE x[i] = s[i] /\ i \in 1..(a + b)
    BY <1>1
  <2> QED
    BY <2>1, <2>2
<1> HIDE DEF a, b
<1>4. ASSUME NEW i \in 1..Len(x)
      PROVE  /\ x[i].op \in Closes /\ i < Len(x) => x[i + 1].op \in Pauses
             /\ x[i].op = "send" => x[i].cmd \notin {"QUIT", "none"}
                                      /\ Conforms(x, i, Work(x[i].cmd) \o Do("answer"))
             /\ x[i].op \in {"put", "get"} => x[i].n > 0
  <2>1. CASE i \in 1..a
    <3>1. x[i] = s[i] /\ i \in 1..Len(s)
      BY <1>3, <2>1 DEF a
    <3>2. ASSUME x[i].op \in Closes, i < Len(x) PROVE x[i + 1].op \in Pauses
      <4>1. CASE i < a
        <5>1. i + 1 \in 1..a /\ i < Len(s)
          BY <2>1, <4>1, <1>1 DEF a
        <5>2. s[i + 1].op \in Pauses
          BY <3>1, <3>2, <5>1 DEF Shape, Closes
        <5> QED
          BY <1>3, <5>1, <5>2
      <4>2. CASE ~(i < a)
        <5>1. i = a /\ a > 0 /\ b > 0 /\ 1 \in 1..b
          BY <1>1, <2>1, <3>2, <4>2
        <5>2. x[a + 1] = t[1] /\ s[Len(s)].op \in Closes
          BY <1>3, <3>1, <3>2, <5>1 DEF a
        <5>3. t[1].op \in Pauses
          BY <1>2, <5>1, <5>2
        <5> QED
          BY <5>1, <5>2, <5>3
      <4> QED
        BY <4>1, <4>2
    <3>3. ASSUME x[i].op = "send"
          PROVE  x[i].cmd \notin {"QUIT", "none"} /\ Conforms(x, i, Work(x[i].cmd) \o Do("answer"))
      <4> DEFINE w == Work(x[i].cmd) \o Do("answer")
      <4>1. Len(w) \in Nat
        BY WorkLength
      <4>2. x[i].cmd \notin {"QUIT", "none"} /\ Conforms(s, i, w)
        BY <3>1, <3>3 DEF Shape
      <4> HIDE DEF w
      <4>3. i + Len(w) <= a /\ i + Len(w) <= Len(x)
        BY <1>1, <4>1, <4>2 DEF Conforms, a
      <4>4. ASSUME NEW j \in 1..Len(w) PROVE Matches(x[i + j], w[j])
        <5>1. i + j \in 1..a
          BY <1>1, <2>1, <4>1, <4>3
        <5> QED
          BY <1>3, <4>2, <5>1 DEF Conforms
      <4>5. Conforms(x, i, w)
        BY <4>3, <4>4 DEF Conforms
      <4> QED
        BY <4>2, <4>5 DEF w
    <3>4. x[i].op \in {"put", "get"} => x[i].n > 0
      BY <3>1 DEF Shape
    <3> QED
      BY <3>2, <3>3, <3>4
  <2>2. CASE i \notin 1..a
    <3> DEFINE k == i - a
    <3>1. k \in 1..b /\ i = a + k /\ k \in 1..Len(t) /\ k \in Nat
      BY <1>1, <2>2 DEF b
    <3> HIDE DEF k
    <3>2. x[i] = t[k]
      BY <1>3, <3>1
    <3>3. ASSUME x[i].op \in Closes, i < Len(x) PROVE x[i + 1].op \in Pauses
      <4>1. k + 1 \in 1..b /\ k < Len(t) /\ a + (k + 1) = i + 1
        BY <1>1, <3>1, <3>3 DEF b
      <4>2. t[k + 1].op \in Pauses
        BY <3>1, <3>2, <3>3, <4>1 DEF Shape, Closes
      <4> QED
        BY <1>3, <4>1, <4>2
    <3>4. ASSUME x[i].op = "send"
          PROVE  x[i].cmd \notin {"QUIT", "none"} /\ Conforms(x, i, Work(x[i].cmd) \o Do("answer"))
      <4> DEFINE w == Work(x[i].cmd) \o Do("answer")
      <4>1. Len(w) \in Nat
        BY WorkLength
      <4>2. x[i].cmd \notin {"QUIT", "none"} /\ Conforms(t, k, w)
        BY <3>1, <3>2, <3>4 DEF Shape
      <4> HIDE DEF w
      <4>3. k + Len(w) <= b /\ i + Len(w) <= Len(x)
        <5>1. k + Len(w) <= b
          BY <4>2 DEF Conforms, b
        <5> QED
          BY <1>1, <3>1, <4>1, <5>1
      <4>4. ASSUME NEW j \in 1..Len(w) PROVE Matches(x[i + j], w[j])
        <5>1. k + j \in 1..b /\ i + j = a + (k + j)
          BY <1>1, <3>1, <4>1, <4>3
        <5>2. x[i + j] = t[k + j]
          BY <1>3, <5>1
        <5> QED
          BY <4>2, <5>2 DEF Conforms
      <4>5. Conforms(x, i, w)
        BY <4>3, <4>4 DEF Conforms
      <4> QED
        BY <4>2, <4>5 DEF w
    <3>5. x[i].op \in {"put", "get"} => x[i].n > 0
      BY <3>1, <3>2 DEF Shape
    <3> QED
      BY <3>3, <3>4, <3>5
  <2> QED
    BY <2>1, <2>2
<1>5. Shape(x)
  BY <1>4 DEF Shape, Closes
<1> QED
  BY <1>1, <1>5 DEF x

LEMMA ShapeTail ==
  ASSUME NEW t \in Seq(AStep), t # <<>>, Shape(t)
  PROVE  /\ Tail(t) \in Seq(AStep) /\ Shape(Tail(t))
         /\ t[1].op \in Closes => Tail(t) = <<>> \/ Tail(t)[1].op \in Pauses
<1> DEFINE x == Tail(t)
           b == Len(x)
<1>1. /\ x \in Seq(AStep) /\ b \in Nat /\ Len(t) = b + 1 /\ 1 \in 1..Len(t)
      /\ \A q \in 1..b : x[q] = t[q + 1] /\ q + 1 \in 1..Len(t)
  <2>1. /\ x \in Seq(AStep) /\ Len(t) \in Nat \ {0} /\ Len(x) = Len(t) - 1 /\ 1 \in 1..Len(t)
        /\ \A q \in 1..(Len(t) - 1) : x[q] = t[q + 1] /\ q + 1 \in 1..Len(t)
    BY TailStep
  <2> HIDE DEF x
  <2> QED
    BY <2>1
<1>2. x # <<>> => b > 0
  BY <1>1
<1> HIDE DEF x
<1>3. ASSUME NEW i \in 1..b
      PROVE  /\ x[i].op \in Closes /\ i < b => x[i + 1].op \in Pauses
             /\ x[i].op = "send" => x[i].cmd \notin {"QUIT", "none"}
                                      /\ Conforms(x, i, Work(x[i].cmd) \o Do("answer"))
             /\ x[i].op \in {"put", "get"} => x[i].n > 0
  <2>1. x[i] = t[i + 1] /\ i + 1 \in 1..Len(t) /\ i \in Nat
    BY <1>1
  <2>2. ASSUME x[i].op \in Closes, i < b PROVE x[i + 1].op \in Pauses
    <3>1. i + 1 \in 1..b /\ i + 1 < Len(t)
      BY <1>1, <2>1, <2>2
    <3>2. t[(i + 1) + 1].op \in Pauses
      BY <2>1, <2>2, <3>1 DEF Shape, Closes
    <3> QED
      BY <1>1, <3>1, <3>2
  <2>3. ASSUME x[i].op = "send"
        PROVE  x[i].cmd \notin {"QUIT", "none"} /\ Conforms(x, i, Work(x[i].cmd) \o Do("answer"))
    <3> DEFINE w == Work(x[i].cmd) \o Do("answer")
    <3>1. Len(w) \in Nat
      BY WorkLength
    <3>2. x[i].cmd \notin {"QUIT", "none"} /\ Conforms(t, i + 1, w)
      BY <2>1, <2>3 DEF Shape
    <3> HIDE DEF w
    <3>3. (i + 1) + Len(w) <= Len(t)
      BY <3>2 DEF Conforms
    <3>4. i + Len(w) <= b
      BY <1>1, <2>1, <3>1, <3>3
    <3>5. ASSUME NEW j \in 1..Len(w) PROVE Matches(x[i + j], w[j])
      <4>1. i + j \in 1..b /\ (i + j) + 1 = (i + 1) + j
        BY <1>1, <2>1, <3>1, <3>4
      <4>2. x[i + j] = t[(i + 1) + j]
        BY <1>1, <4>1
      <4> QED
        BY <3>2, <4>2 DEF Conforms
    <3>6. Conforms(x, i, w)
      BY <3>4, <3>5 DEF Conforms
    <3> QED
      BY <3>2, <3>6 DEF w
  <2>4. x[i].op \in {"put", "get"} => x[i].n > 0
    BY <2>1 DEF Shape
  <2> QED
    BY <2>2, <2>3, <2>4
<1>4. Shape(x)
  BY <1>3 DEF Shape, Closes
<1>5. ASSUME t[1].op \in Closes, x # <<>> PROVE x[1].op \in Pauses
  <2>1. 1 \in 1..b /\ 1 < Len(t)
    BY <1>1, <1>2, <1>5
  <2>2. t[1 + 1].op \in Pauses
    BY <1>1, <1>5, <2>1 DEF Shape, Closes
  <2> QED
    BY <1>1, <2>1, <2>2
<1> QED
  BY <1>1, <1>4, <1>5 DEF x

LEMMA GoodJoin ==
  ASSUME NEW s, NEW t, Good(s), Good(t)
  PROVE  Good(s \o t)
<1>1. s \in Seq(AStep) /\ t \in Seq(AStep) /\ s \o t \in Seq(AStep) /\ Shape(s \o t)
  BY ShapeJoin DEF Good
<1>2. s \o t # <<>> => (s \o t)[1].op \in Pauses
  <2>1. CASE s = <<>>
    BY <1>1, <2>1 DEF Good
  <2>2. CASE s # <<>>
    <3>1. (s \o t)[1] = s[1]
      BY <1>1, <2>2
    <3> QED
      BY <2>2, <3>1 DEF Good
  <2> QED
    BY <2>1, <2>2
<1> QED
  BY <1>1, <1>2 DEF Good

LEMMA GoodDo ==
  \A op \in {"check", "test", "alloc", "exit"} : Good(Do(op)) /\ Good(Times(2, Do(op)))
<1> SUFFICES ASSUME NEW op \in {"check", "test", "alloc", "exit"} PROVE Good(Do(op)) /\ Good(Times(2, Do(op)))
  OBVIOUS
<1> DEFINE x == Step(op, "none", 0)
<1>1. x \in AStep /\ x.op = op
  BY DEF Step, AStep, Ops
<1> HIDE DEF x
<1>2. ASSUME NEW t \in Seq(AStep), \A i \in 1..Len(t) : t[i] = x PROVE Good(t)
  <2>1. \A i \in 1..Len(t) : i < Len(t) => i + 1 \in 1..Len(t)
    OBVIOUS
  <2>2. Shape(t)
    BY <1>1, <1>2, <2>1 DEF Shape, Pauses
  <2>3. t # <<>> => t[1].op \in Pauses
    BY <1>1, <1>2 DEF Pauses
  <2> QED
    BY <2>2, <2>3 DEF Good
<1>3. Do(op) \in Seq(AStep) /\ \A i \in 1..Len(Do(op)) : Do(op)[i] = x
  BY <1>1 DEF Do, x
<1>4. Times(2, Do(op)) \in Seq(AStep) /\ \A i \in 1..Len(Times(2, Do(op))) : Times(2, Do(op))[i] = x
  BY <1>1, TimesStep DEF Do, x
<1> QED
  BY <1>2, <1>3, <1>4

LEMMA GoodCommand ==
  ASSUME NEW c \in Commands \ {"QUIT"}, NEW data, Mirrors(data, Work(c)), NEW e \in Endings
  PROVE  Good(<<Step("send", c, 0)>> \o data \o Do(e))
<1> DEFINE p == <<Step("send", c, 0)>>
           pd == p \o data
           x == pd \o Do(e)
           b == Len(data)
           w == Work(c) \o Do("answer")
<1>1. /\ p \in Seq(AStep) /\ Len(p) = 1 /\ p[1].op = "send" /\ p[1].cmd = c
      /\ Do(e) \in Seq(AStep) /\ Len(Do(e)) = 1 /\ Do(e)[1].op = e
      /\ Do("answer") \in Seq(RStep) /\ Len(Do("answer")) = 1 /\ Do("answer")[1].op = "answer"
  BY DEF Do, Step, AStep, RStep, Ops, Endings
<1>2. data \in Seq(AStep) /\ b \in Nat /\ Work(c) \in Seq(RStep) /\ Len(Work(c)) = b
  BY DEF Mirrors
<1> HIDE DEF p
<1>3. Joint(pd, p, 1, data, b)
  BY <1>1, <1>2, JoinedSteps
<1>4. pd \in Seq(AStep) /\ Len(pd) = 1 + b
  BY <1>3 DEF Joint
<1> HIDE DEF pd, b
<1>5. Joint(x, pd, 1 + b, Do(e), 1)
  BY <1>1, <1>4, JoinedSteps
<1>6. /\ Len(w) = b + 1
      /\ \A i \in 1..(b + 1) : w[i] = IF i <= b THEN Work(c)[i] ELSE Do("answer")[i - b]
  BY <1>1, <1>2, JoinedOne
<1> HIDE DEF x, w
<1>7. /\ x \in Seq(AStep) /\ Len(x) = b + 2 /\ x[1] = p[1]
      /\ \A j \in 1..b : x[1 + j] = data[j] /\ w[j] = Work(c)[j]
      /\ x[b + 2].op = e /\ w[b + 1].op = "answer"
  <2>1. x \in Seq(AStep) /\ Len(x) = b + 2
    BY <1>2, <1>5 DEF Joint
  <2>2. x[1] = p[1]
    <3>1. 1 \in 1..(1 + b + 1) /\ 1 \in 1..(1 + b) /\ 1 - (1 + b) \notin 1..1
      BY <1>2
    <3>2. x[1] = pd[1]
      BY <1>5, <3>1 DEF Joint
    <3>3. pd[1] = p[1]
      BY <1>2, <1>3, <3>1 DEF Joint
    <3> QED
      BY <3>2, <3>3
  <2>3. ASSUME NEW j \in 1..b PROVE x[1 + j] = data[j] /\ w[j] = Work(c)[j]
    <3>1. /\ 1 + j \in 1..(1 + b + 1) /\ 1 + j \in 1..(1 + b) /\ (1 + j) - (1 + b) \notin 1..1
          /\ 1 + j \notin 1..1 /\ (1 + j) - 1 = j /\ j \in 1..(b + 1) /\ j <= b
      BY <1>2
    <3>2. x[1 + j] = pd[1 + j]
      BY <1>5, <3>1 DEF Joint
    <3>3. pd[1 + j] = data[j]
      BY <1>3, <3>1 DEF Joint
    <3> QED
      BY <1>6, <3>1, <3>2, <3>3
  <2>4. x[b + 2].op = e /\ w[b + 1].op = "answer"
    <3>1. /\ b + 2 \in 1..(1 + b + 1) /\ b + 2 \notin 1..(1 + b) /\ (b + 2) - (1 + b) = 1
          /\ b + 1 \in 1..(b + 1) /\ ~(b + 1 <= b) /\ (b + 1) - b = 1
      BY <1>2
    <3> QED
      BY <1>1, <1>5, <1>6, <3>1 DEF Joint
  <2> QED
    BY <2>1, <2>2, <2>3, <2>4
<1>8. \A j \in 1..b : /\ data[j].op \in Moves /\ Matches(data[j], Work(c)[j])
                      /\ data[j].op \in {"put", "get"} => data[j].n > 0
  BY DEF Mirrors, b
<1>9. Conforms(x, 1, w)
  <2>1. ASSUME NEW j \in 1..Len(w) PROVE Matches(x[1 + j], w[j])
    <3>1. CASE j \in 1..b
      BY <1>7, <1>8, <3>1
    <3>2. CASE j \notin 1..b
      <4>1. j = b + 1 /\ 1 + j = b + 2
        BY <1>2, <1>6, <3>2
      <4> QED
        BY <1>7, <4>1 DEF Matches
    <3> QED
      BY <3>1, <3>2
  <2>2. 1 + Len(w) <= Len(x)
    BY <1>2, <1>6, <1>7
  <2> QED
    BY <2>1, <2>2 DEF Conforms
<1>10. ASSUME NEW i \in 1..Len(x)
       PROVE  /\ x[i].op \in Closes /\ i < Len(x) => x[i + 1].op \in Pauses
              /\ x[i].op = "send" => x[i].cmd \notin {"QUIT", "none"}
                                       /\ Conforms(x, i, Work(x[i].cmd) \o Do("answer"))
              /\ x[i].op \in {"put", "get"} => x[i].n > 0
  <2>1. CASE i = 1
    <3>1. c \notin {"QUIT", "none"}
      BY DEF Commands
    <3> QED
      BY <1>1, <1>7, <1>9, <2>1, <3>1 DEF Closes, Endings, w
  <2>2. CASE i # 1 /\ i # Len(x)
    <3>1. i - 1 \in 1..b /\ 1 + (i - 1) = i
      BY <1>2, <1>7, <2>2
    <3>2. x[i] = data[i - 1]
      BY <1>7, <3>1
    <3> QED
      BY <1>8, <3>1, <3>2 DEF Closes, Endings, Moves
  <2>3. CASE i = Len(x)
    <3>1. i = b + 2 /\ x[i].op = e
      BY <1>7, <2>3
    <3> QED
      BY <2>3, <3>1, <1>2, <1>7 DEF Closes, Endings
  <2> QED
    BY <2>1, <2>2, <2>3
<1>11. Shape(x)
  BY <1>10 DEF Shape, Closes
<1>12. Good(x)
  BY <1>1, <1>7, <1>11 DEF Good, Pauses
<1> QED
  BY <1>12 DEF x, pd, p

(* Each function of the site library sends what the radar receives.        *)
LEMMA GoodBoth ==
  ASSUME NEW c \in Commands \ {"QUIT"}, NEW data, Mirrors(data, Work(c))
  PROVE  Good(Command(c, data)) /\ Good(Agreed(c, data))
<1>1. Good(<<Step("send", c, 0)>> \o data \o Do("answer"))
  BY GoodCommand DEF Endings
<1>2. Good(<<Step("send", c, 0)>> \o data \o Do("agreed"))
  BY GoodCommand DEF Endings
<1> QED
  BY <1>1, <1>2 DEF Command, Agreed

LEMMA Sizes ==
  /\ Large \in Nat \ {0} /\ Periods \in Nat \ {0} /\ Pulses \in Nat \ {0} /\ 1 \in Nat \ {0}
  /\ 7 + Pulses \in Nat /\ 1 + Bauds \in Nat
  BY LinkAssumption

LEMMA GoodEmpty ==
  ASSUME NEW c \in {"PING", "SET_READY_FLAG", "SET_INACTIVE"}
  PROVE  Good(Command(c, <<>>))
<1>1. Work(c) = <<>>
  BY DEF Work
<1>2. c \in Commands \ {"QUIT"}
  BY DEF Commands
<1> QED
  BY <1>1, <1>2, GoodBoth, MirrorsOne

LEMMA GoodOne ==
  /\ Good(Command("GET_PARAMETERS", Get(Large)))
  /\ Good(Command("SET_PARAMETERS", Put(Large))) /\ Good(Agreed("SET_PARAMETERS", Put(Large)))
  /\ Good(Command("REQUEST_CLEAR_FREQ_SEARCH", Put(Large)))
<1>1. /\ Work("GET_PARAMETERS") = Put(Large) /\ Work("SET_PARAMETERS") = Get(Large)
      /\ Work("REQUEST_CLEAR_FREQ_SEARCH") = Get(Large)
  BY DEF Work
<1>2. /\ "GET_PARAMETERS" \in Commands \ {"QUIT"} /\ "SET_PARAMETERS" \in Commands \ {"QUIT"}
      /\ "REQUEST_CLEAR_FREQ_SEARCH" \in Commands \ {"QUIT"}
  BY DEF Commands
<1>3. Mirrors(Put(Large), Get(Large)) /\ Mirrors(Get(Large), Put(Large))
  BY Sizes, MirrorsOne
<1> QED
  BY <1>1, <1>2, <1>3, GoodBoth

LEMMA GoodTimes ==
  /\ Good(Agreed("SET_RADAR_CHAN", Times(6, Put(1))))
  /\ Good(Command("QUERY_INI_SETTINGS", Times(2, Get(1))))
  /\ Good(Command("REQUEST_ASSIGNED_FREQ", Times(2, Get(1))))
<1>1. /\ Work("SET_RADAR_CHAN") = Times(6, Get(1)) /\ Work("QUERY_INI_SETTINGS") = Times(2, Put(1))
      /\ Work("REQUEST_ASSIGNED_FREQ") = Times(2, Put(1))
  BY DEF Work
<1>2. /\ "SET_RADAR_CHAN" \in Commands \ {"QUIT"} /\ "QUERY_INI_SETTINGS" \in Commands \ {"QUIT"}
      /\ "REQUEST_ASSIGNED_FREQ" \in Commands \ {"QUIT"}
  BY DEF Commands
<1>3. Mirrors(Times(6, Put(1)), Times(6, Get(1))) /\ Mirrors(Times(2, Get(1)), Times(2, Put(1)))
  BY MirrorsData
<1> QED
  BY <1>1, <1>2, <1>3, GoodBoth

LEMMA GoodTimeSeq == Good(TimeSeq)
<1>1. Mirrors(Times(3, Put(Large)), Times(3, Get(Large)))
  BY Sizes, MirrorsData
<1>2. Mirrors(Times(7 + Pulses, Put(1)), Times(7 + Pulses, Get(1)))
  BY Sizes, MirrorsData
<1>3. Mirrors(Times(1 + Bauds, Put(1)), Times(1 + Bauds, Get(1)))
  BY Sizes, MirrorsData
<1>4. Mirrors(Times(3, Put(Large)) \o Times(7 + Pulses, Put(1)), Times(3, Get(Large)) \o Times(7 + Pulses, Get(1)))
  BY <1>1, <1>2, MirrorsJoin
<1>5. Mirrors(Times(3, Put(Large)) \o Times(7 + Pulses, Put(1)) \o Times(1 + Bauds, Put(1)),
              Times(3, Get(Large)) \o Times(7 + Pulses, Get(1)) \o Times(1 + Bauds, Get(1)))
  BY <1>3, <1>4, MirrorsJoin
<1>6. /\ Work("REGISTER_SEQ") = Times(3, Get(Large)) \o Times(7 + Pulses, Get(1)) \o Times(1 + Bauds, Get(1))
      /\ "REGISTER_SEQ" \in Commands \ {"QUIT"}
  BY DEF Work, Commands
<1> DEFINE last == Command("REGISTER_SEQ", Times(3, Put(Large)) \o Times(7 + Pulses, Put(1))
                                             \o Times(1 + Bauds, Put(1)))
<1>7. Good(last)
  BY <1>5, <1>6, GoodBoth
<1>8. TimeSeq = Do("check") \o Do("test") \o last
  BY DEF TimeSeq
<1> HIDE DEF last
<1>9. Good(Do("check")) /\ Good(Do("test"))
  BY GoodDo
<1>10. Good(Do("check") \o Do("test"))
  BY <1>9, GoodJoin
<1> QED
  BY <1>7, <1>8, <1>10, GoodJoin

LEMMA GoodStartScan == Good(StartScan)
<1>1. /\ Mirrors(Times(2, Put(1)), Times(2, Get(1))) /\ Mirrors(Times(6, Put(1)), Times(6, Get(1)))
      /\ Mirrors(Times(3, Put(Periods)), Times(3, Get(Periods)))
  BY Sizes, MirrorsData
<1>2. Mirrors(IF Sync THEN Put(Periods) ELSE <<>>, IF Sync THEN Get(Periods) ELSE <<>>)
  BY Sizes, MirrorsOne
<1>3. Mirrors(Times(2, Put(1)) \o Times(3, Put(Periods)), Times(2, Get(1)) \o Times(3, Get(Periods)))
  BY <1>1, MirrorsJoin
<1>4. Mirrors(Times(2, Put(1)) \o Times(3, Put(Periods)) \o Times(6, Put(1)),
              Times(2, Get(1)) \o Times(3, Get(Periods)) \o Times(6, Get(1)))
  BY <1>1, <1>3, MirrorsJoin
<1>5. Mirrors(Times(2, Put(1)) \o Times(3, Put(Periods)) \o Times(6, Put(1)) \o (IF Sync THEN Put(Periods) ELSE <<>>),
              ScanData)
  BY <1>2, <1>4, MirrorsJoin DEF ScanData
<1>6. Work("SET_ACTIVE") = ScanData /\ "SET_ACTIVE" \in Commands \ {"QUIT"}
  BY DEF Work, Commands
<1> QED
  BY <1>5, <1>6, GoodBoth DEF StartScan

LEMMA GoodIntegrate == Good(Integrate)
<1> DEFINE d1 == Get(Large) \o Do("count")
           w1 == Put(Large) \o Do("count")
           d2 == d1 \o Get(1)
           w2 == w1 \o Put(1)
           d3 == d2 \o Times(2, Get(Pulses))
           w3 == w2 \o Times(2, Put(Pulses))
           d4 == d3 \o Get(1)
           w4 == w3 \o Put(1)
           d5 == d4 \o Times(2, Get(Large))
           w5 == w4 \o Times(2, Put(Large))
           d6 == d5 \o Times(7, Get(1))
           w6 == w5 \o Times(7, Put(1))
           d7 == d6 \o Get(Large)
           w7 == w6 \o Put(Large)
           d8 == d7 \o Do("loop")
           w8 == w7 \o Do("loop")
<1>1. /\ Mirrors(Get(Large), Put(Large)) /\ Mirrors(Get(1), Put(1))
      /\ Mirrors(Do("count"), Do("count")) /\ Mirrors(Do("loop"), Do("loop"))
      /\ Mirrors(Times(2, Get(Pulses)), Times(2, Put(Pulses))) /\ Mirrors(Times(2, Get(Large)), Times(2, Put(Large)))
      /\ Mirrors(Times(7, Get(1)), Times(7, Put(1)))
  BY Sizes, MirrorsData, MirrorsOne
<1>2. Mirrors(d1, w1)
  BY <1>1, MirrorsJoin
<1>3. Mirrors(d2, w2)
  BY <1>1, <1>2, MirrorsJoin
<1>4. Mirrors(d3, w3)
  BY <1>1, <1>3, MirrorsJoin
<1>5. Mirrors(d4, w4)
  BY <1>1, <1>4, MirrorsJoin
<1>6. Mirrors(d5, w5)
  BY <1>1, <1>5, MirrorsJoin
<1>7. Mirrors(d6, w6)
  BY <1>1, <1>6, MirrorsJoin
<1>8. Mirrors(d7, w7)
  BY <1>1, <1>7, MirrorsJoin
<1>9. Mirrors(d8, w8)
  BY <1>1, <1>8, MirrorsJoin
<1>10. Work("GET_DATA") = w8 /\ "GET_DATA" \in Commands \ {"QUIT"}
  BY DEF Work, Commands
<1> HIDE DEF d8, w8
<1>11. Good(Command("GET_DATA", d8))
  BY <1>9, <1>10, GoodBoth
<1> DEFINE first == Do("check") \o Do("test") \o Do("alloc") \o Do("check")
<1>12. Good(Do("check")) /\ Good(Do("test")) /\ Good(Do("alloc"))
  BY GoodDo
<1>13. Good(first)
  <2>1. Good(Do("check") \o Do("test"))
    BY <1>12, GoodJoin
  <2>2. Good(Do("check") \o Do("test") \o Do("alloc"))
    BY <1>12, <2>1, GoodJoin
  <2> QED
    BY <1>12, <2>2, GoodJoin
<1>14. Integrate = first \o Agreed("SET_PARAMETERS", Put(Large)) \o Command("SET_READY_FLAG", <<>>)
                     \o Command("GET_DATA", d8) \o Do("check")
  BY DEF Integrate, d8
<1> HIDE DEF first
<1>15. Good(first \o Agreed("SET_PARAMETERS", Put(Large)) \o Command("SET_READY_FLAG", <<>>))
  BY <1>13, GoodOne, GoodEmpty, GoodJoin
<1>16. Good(first \o Agreed("SET_PARAMETERS", Put(Large)) \o Command("SET_READY_FLAG", <<>>)
              \o Command("GET_DATA", d8))
  BY <1>11, <1>15, GoodJoin
<1> QED
  BY <1>12, <1>14, <1>16, GoodJoin

LEMMA GoodSteps ==
  /\ \A next \in Calls : Good(Steps[next])
  /\ Good(SetupRadar) /\ Good(Ping) /\ Good(Do("exit"))
<1>1. Good(Do("check")) /\ Good(Do("alloc")) /\ Good(Do("exit")) /\ Good(Times(2, Do("check")))
  BY GoodDo
<1>2. Good(SetupRadar)
  BY <1>1, GoodOne, GoodTimes, GoodJoin DEF SetupRadar
<1>3. Good(StartIntt)
  BY <1>1, GoodOne, GoodEmpty, GoodJoin DEF StartIntt
<1>4. Good(FCLR)
  BY <1>1, GoodOne, GoodTimes, GoodJoin DEF FCLR
<1>5. Good(EndScan) /\ Good(Ping)
  BY <1>1, GoodEmpty, GoodJoin DEF EndScan, Ping
<1>6. ASSUME NEW next \in Calls PROVE Good(Steps[next])
  BY <1>2, <1>3, <1>4, <1>5, <1>6, GoodTimeSeq, GoodStartScan, GoodIntegrate DEF Calls, Steps
<1> QED
  BY <1>1, <1>2, <1>5, <1>6

(***************************************************************************)
(* The facts about a state that every step needs.                          *)
(***************************************************************************)
Types ==
  /\ prog \in {"run", "quit", "ended"} /\ call \in Calls /\ todo \in Seq(AStep)
  /\ cmd \in Commands \cup {"none"} /\ status \in {0, 1} /\ seqs \in 0..MaxSeqs
  /\ cancelCount \in 0..MaxSignals /\ exitFlag \in BOOLEAN /\ masked \subseteq Signals
  /\ signals \in 0..MaxSignals /\ torn \in BOOLEAN
  /\ up \in Seq(AUnit) /\ down \in Seq(AUnit)
  /\ radar \in {"hear", "work", "ended"} /\ served \in Commands \cup {"none"} /\ nave \in 0..MaxSeqs
  /\ work \in Seq(RStep)
  /\ reset \in BOOLEAN /\ faults \in 0..MaxFaults

LEMMA TypesSame == (TypeOK <=> Types) /\ (TypeOK' <=> Types')
<1>1. RStep = [op : {"put", "get", "count", "loop", "answer"}, cmd : {"none"}, n : Nat]
  <2>1. Moves \cup {"answer"} = {"put", "get", "count", "loop", "answer"}
    BY DEF Moves
  <2> QED
    BY <2>1 DEF RStep
<1>2. AStep = [op : {"send", "put", "get", "count", "loop", "answer", "agreed", "test", "alloc", "check", "exit"},
               cmd : Commands \cup {"none"}, n : Nat]
  BY DEF AStep, Ops
<1>3. AUnit = [kind : {"status", "type", "piece"}, cmd : Commands \cup {"none"}, n : Nat]
  BY DEF AUnit
<1>4. TypeOK <=> Types
  BY <1>1, <1>2, <1>3 DEF TypeOK, Types
<1>5. TypeOK' <=> Types'
  BY <1>1, <1>2, <1>3 DEF TypeOK, Types
<1> QED
  BY <1>4, <1>5

(* The invariant, a conjunct at a time.                                    *)
LEMMA Parts ==
  /\ Inv <=> Types /\ cancelCount <= signals /\ RadarInv /\ RunInv /\ QuitInv
  /\ Inv' <=> Types' /\ cancelCount' <= signals' /\ RadarInv' /\ RunInv' /\ QuitInv'
  BY TypesSame DEF Inv

LEMMA SeqFacts ==
  ASSUME Types
  PROVE  /\ Len(up) \in Nat /\ Len(down) \in Nat /\ (up = <<>> <=> Len(up) = 0) /\ (down = <<>> <=> Len(down) = 0)
         /\ todo # <<>> => Head(todo) = todo[1] /\ 1 \in 1..Len(todo) /\ Len(todo) \in Nat
                             /\ todo[1] \in AStep /\ Tail(todo) \in Seq(AStep)
         /\ work # <<>> => Head(work) = work[1] /\ 1 \in 1..Len(work) /\ Len(work) \in Nat
                             /\ work[1] \in RStep /\ Tail(work) \in Seq(RStep)
         /\ work \in Seq(AStep) /\ RadarSteps \in Seq(AStep)
         /\ seqs \in Nat /\ nave \in Nat
         /\ down # <<>> => Head(down) = down[1]
<1>1. todo # <<>> => Head(todo) = todo[1] /\ 1 \in 1..Len(todo) /\ Len(todo) \in Nat
                             /\ todo[1] \in AStep /\ Tail(todo) \in Seq(AStep)
  BY TailStep DEF Types
<1>2. work # <<>> => Head(work) = work[1] /\ 1 \in 1..Len(work) /\ Len(work) \in Nat
                             /\ work[1] \in RStep /\ Tail(work) \in Seq(RStep)
  BY TailStep DEF Types
<1>3. work \in Seq(AStep)
  BY RadarStep DEF Types
<1>4. RadarSteps \in Seq(AStep)
  <2> DEFINE w == Work(cmd) \o Do("answer")
  <2>1. w \in Seq(AStep)
    BY WorkTask, RadarStep DEF Task
  <2> HIDE DEF w
  <2>2. Len(w) \in Nat
    BY <2>1
  <2>3. Get(2) \o w \in Seq(AStep)
    BY <2>1, <2>2, Heralded
  <2> QED
    BY <1>3, <2>3 DEF RadarSteps, w
<1>5. /\ Len(up) \in Nat /\ Len(down) \in Nat /\ (up = <<>> <=> Len(up) = 0) /\ (down = <<>> <=> Len(down) = 0)
      /\ down # <<>> => Head(down) = down[1]
  BY DEF Types
<1>6. seqs \in Nat /\ nave \in Nat
  BY LinkAssumption DEF Types
<1> QED
  BY <1>1, <1>2, <1>3, <1>4, <1>5, <1>6

(* In the middle of a command there is a step to do, and when something is *)
(* on the way back nothing is on the way to the radar.                     *)
LEMMA ConverseBusy ==
  ASSUME NEW t \in Seq(AStep), NEW s \in Nat, NEW w \in Seq(AStep), NEW v \in Nat, NEW c, NEW u, NEW d,
         Converse(t, s, w, v, c, u, d)
  PROVE  /\ t # <<>> /\ Head(t).op \notin Pauses
         /\ d # <<>> => u = 0
         /\ Head(t).op = "put" => w # <<>>
<1>1. PICK a \in 1..Len(t) :
        /\ Current(t, a)
        /\ \A m \in Numbers(w, Len(w), v) : \E n \in Numbers(t, a, s) :
             (Counts(w, Len(w)) => n = m) /\ Talk(t, a, n, w, m, c, u, d)
  BY DEF Converse
<1>2. PICK m \in Nat : m \in Numbers(w, Len(w), v)
  BY SomeNumber
<1>3. PICK n \in Numbers(t, a, s) : Talk(t, a, n, w, m, c, u, d)
  BY <1>1, <1>2
<1>4. n \in Nat
  BY SomeNumber
<1>5. /\ t # <<>> /\ Head(t) = t[1] /\ a \in Nat /\ 1 \in 1..a
  BY TailStep
<1>6. t[1].op \in Endings \cup {"put", "get", "count", "loop"}
  <2>1. a = 1 \/ 1 \in 1..(a - 1)
    BY <1>5
  <2> QED
    BY <1>1, <2>1 DEF Current
<1>7. PICK S, L, W, M : Linked(t, a, n, w, m, c, u, d, S, L, W, M)
  BY <1>3 DEF Talk
<1>8. d # <<>> => u = 0
  BY <1>7 DEF Linked, InStep
<1>9. ASSUME t[1].op = "put" PROVE w # <<>>
  <2>1. SUFFICES ASSUME w = <<>> PROVE FALSE
    OBVIOUS
  <2>2. M = 0
    <3>1. Unrolled(w, 0, Round, m, W, M)
      BY <1>7, <2>1 DEF Linked
    <3> QED
      BY <3>1 DEF Unrolled
  <2>3. L \in Nat /\ Unrolled(t, a, Sequence, n, S, L) /\ Script(S, L) /\ InStep(S, L, W, 0, c, n, u, d)
    BY <1>7, <2>2 DEF Linked
  <2>4. S[1] = t[1] /\ L > 0
    BY <1>4, <1>9, <2>3, UnrollTail
  <2>5. ~Ahead(S, L, W, 0, u)
    BY <2>3, <2>4 DEF Ahead
  <2>6. Behind(S, L, W, 0, c, n, d)
    BY <2>3, <2>5 DEF InStep
  <2>7. Came(S, L, L, c, n, d)
    BY <2>3, <2>6 DEF Behind
  <2> QED
    BY <1>9, <2>3, <2>4, <2>7 DEF Came
<1> QED
  BY <1>5, <1>6, <1>8, <1>9 DEF Pauses, Endings

(***************************************************************************)
(* The program ends, or asks to.                                           *)
(***************************************************************************)
LEMMA MessageUnits ==
  ASSUME NEW c \in Commands \cup {"none"}, NEW bad \in {0, 1}
  PROVE  /\ Msg(c, bad) \in Seq(AUnit) /\ Len(Msg(c, bad)) = 2
         /\ \A i \in 1..2 : IsHalf(Msg(c, bad)[i], 2 - i, c) /\ Msg(c, bad)[i].n = bad
<1> DEFINE x == Unit("status", c, bad)
           y == Unit("type", c, bad)
<1>1. x \in AUnit /\ x.kind = "status" /\ x.cmd = c /\ x.n = bad
  BY DEF AUnit, Unit
<1>2. y \in AUnit /\ y.kind = "type" /\ y.cmd = c /\ y.n = bad
  BY DEF AUnit, Unit
<1>3. Msg(c, bad) = <<x, y>>
  BY DEF Msg
<1> HIDE DEF x, y
<1>4. <<x, y>> \in Seq(AUnit) /\ Len(<<x, y>>) = 2 /\ <<x, y>>[1] = x /\ <<x, y>>[2] = y
  BY <1>1, <1>2
<1>5. IsHalf(x, 2 - 1, c) /\ IsHalf(y, 2 - 2, c)
  BY <1>1, <1>2 DEF IsHalf, Half
<1>6. \A i \in 1..2 : i = 1 \/ i = 2
  OBVIOUS
<1> QED
  BY <1>1, <1>2, <1>3, <1>4, <1>5, <1>6

LEMMA PieceUnits ==
  ASSUME NEW size \in Nat, NEW n \in Nat
  PROVE  /\ Piece(size, n) \in Seq(AUnit) /\ Len(Piece(size, n)) = size
         /\ \A i \in 1..size : Piece(size, n)[i].kind = "piece" /\ Piece(size, n)[i].n = n
<1> DEFINE x == Unit("piece", "none", n)
<1>1. x \in AUnit /\ x.kind = "piece" /\ x.n = n
  BY DEF AUnit, Unit
<1> HIDE DEF x
<1>2. [i \in 1..size |-> x] \in Seq(AUnit) /\ Len([i \in 1..size |-> x]) = size
      /\ \A k \in 1..size : [i \in 1..size |-> x][k] = x
  BY <1>1
<1> QED
  BY <1>1, <1>2 DEF Piece, x

(* What is sent is added to what is on the way.                            *)
LEMMA MoreUnits ==
  ASSUME NEW q \in Seq(AUnit), NEW units \in Seq(AUnit)
  PROVE  /\ q \o units \in Seq(AUnit) /\ Len(q \o units) = Len(q) + Len(units)
         /\ q # <<>> => q \o units # <<>> /\ Head(q \o units) = Head(q)
         /\ \A c : Heard(q, c) => Heard(q \o units, c)
         /\ q = <<>> => q \o units = units
         /\ Quits(q) /\ Quits(units) => Quits(q \o units)
<1> DEFINE x == q \o units
<1>1. /\ x \in Seq(AUnit) /\ Len(q) \in Nat /\ Len(units) \in Nat /\ Len(x) = Len(q) + Len(units)
      /\ \A i \in 1..(Len(q) + Len(units)) : x[i] = IF i <= Len(q) THEN q[i] ELSE units[i - Len(q)]
  BY Joined
<1>2. q # <<>> => x # <<>> /\ Head(x) = Head(q)
  OBVIOUS
<1>3. q = <<>> => x = units
  OBVIOUS
<1> HIDE DEF x
<1>4. ASSUME Quits(q), Quits(units) PROVE Quits(x)
  <2>1. PICK k \in Nat :
          /\ Len(q) = 2 * k
          /\ \A i \in 1..k : IsHalf(q[2 * i - 1], 1, "QUIT") /\ IsHalf(q[2 * i], 0, "QUIT")
    BY <1>4 DEF Quits
  <2>2. PICK j \in Nat :
          /\ Len(units) = 2 * j
          /\ \A i \in 1..j : IsHalf(units[2 * i - 1], 1, "QUIT") /\ IsHalf(units[2 * i], 0, "QUIT")
    BY <1>4 DEF Quits
  <2>3. Len(x) = 2 * (k + j) /\ k + j \in Nat
    BY <1>1, <2>1, <2>2
  <2>4. ASSUME NEW i \in 1..(k + j) PROVE IsHalf(x[2 * i - 1], 1, "QUIT") /\ IsHalf(x[2 * i], 0, "QUIT")
    <3>1. CASE i <= k
      <4>1. i \in 1..k /\ x[2 * i - 1] = q[2 * i - 1] /\ x[2 * i] = q[2 * i]
        BY <1>1, <2>1, <2>2, <3>1
      <4> QED
        BY <2>1, <4>1
    <3>2. CASE i > k
      <4>1. /\ i - k \in 1..j
            /\ x[2 * i - 1] = units[2 * (i - k) - 1] /\ x[2 * i] = units[2 * (i - k)]
        <5>1. /\ i - k \in 1..j /\ 2 * i - 1 \in 1..(Len(q) + Len(units)) /\ 2 * i \in 1..(Len(q) + Len(units))
              /\ 2 * i - 1 > Len(q) /\ 2 * i > Len(q)
              /\ (2 * i - 1) - Len(q) = 2 * (i - k) - 1 /\ 2 * i - Len(q) = 2 * (i - k)
          BY <2>1, <2>2, <3>2
        <5>2. ASSUME NEW e \in 1..(Len(q) + Len(units)), e > Len(q) PROVE x[e] = units[e - Len(q)]
          BY <1>1, <5>2
        <5>3. x[2 * i - 1] = units[(2 * i - 1) - Len(q)]
          BY <5>1, <5>2
        <5>4. x[2 * i] = units[2 * i - Len(q)]
          BY <5>1, <5>2
        <5> QED
          BY <5>1, <5>3, <5>4
      <4> QED
        BY <2>2, <4>1
    <3> QED
      BY <3>1, <3>2
  <2> QED
    BY <2>3, <2>4 DEF Quits
<1>5. ASSUME NEW c, Heard(q, c) PROVE Heard(x, c)
  <2>1. Len(q) >= 2 /\ 2 \in 1..(Len(q) + Len(units)) /\ Len(x) >= 2
    BY <1>1, <1>5 DEF Heard
  <2>2. x[2] = q[2]
    BY <1>1, <2>1
  <2> QED
    BY <1>5, <2>1, <2>2 DEF Heard
<1> QED
  BY <1>1, <1>2, <1>3, <1>4, <1>5 DEF x

(* One QUIT.                                                               *)
LEMMA QuitUnits ==
  ASSUME NEW q \in Seq(AUnit), Len(q) = 2, \A i \in 1..2 : IsHalf(q[i], 2 - i, "QUIT")
  PROVE  Quits(q)
<1>1. IsHalf(q[1], 2 - 1, "QUIT") /\ IsHalf(q[2], 2 - 2, "QUIT")
  OBVIOUS
<1>2. \A i \in 1..1 : 2 * i - 1 = 1 /\ 2 * i = 2
  OBVIOUS
<1>3. 2 - 1 = 1 /\ 2 - 2 = 0 /\ 1 \in Nat /\ 2 = 2 * 1
  OBVIOUS
<1>4. \A i \in 1..1 : IsHalf(q[2 * i - 1], 1, "QUIT") /\ IsHalf(q[2 * i], 0, "QUIT")
  BY <1>1, <1>2, <1>3
<1> QED
  BY <1>3, <1>4 DEF Quits

(* The first one, and the others.                                          *)
LEMMA QuitsFirst ==
  ASSUME NEW q \in Seq(AUnit), Quits(q), Len(q) > 0
  PROVE  /\ Len(q) >= 2 /\ q[1].kind = "status" /\ q[1].cmd = "QUIT" /\ q[2].kind = "type" /\ q[2].cmd = "QUIT"
         /\ Quits(Later(q, 2))
<1>1. PICK k \in Nat :
        /\ Len(q) = 2 * k
        /\ \A i \in 1..k : IsHalf(q[2 * i - 1], 1, "QUIT") /\ IsHalf(q[2 * i], 0, "QUIT")
  BY DEF Quits
<1>2. 1 \in 1..k /\ Len(q) >= 2 /\ 2 * 1 - 1 = 1 /\ 2 * 1 = 2
  BY <1>1
<1>3. IsHalf(q[1], 1, "QUIT") /\ IsHalf(q[2], 0, "QUIT")
  BY <1>1, <1>2
<1>4. Quits(Later(q, 2))
  <2>1. PICK rest \in Seq(AUnit) :
          /\ rest = Later(q, 2) /\ Len(rest) = Len(q) - 2
          /\ \A u \in 1..Len(rest) : u + 2 \in 1..Len(q) /\ rest[u] = q[u + 2]
    BY <1>2, LaterPart
  <2>2. k - 1 \in Nat /\ Len(rest) = 2 * (k - 1)
    BY <1>1, <1>2, <2>1
  <2>3. ASSUME NEW i \in 1..(k - 1) PROVE IsHalf(rest[2 * i - 1], 1, "QUIT") /\ IsHalf(rest[2 * i], 0, "QUIT")
    <3>1. /\ i + 1 \in 1..k /\ 2 * i - 1 \in 1..Len(rest) /\ 2 * i \in 1..Len(rest)
          /\ (2 * i - 1) + 2 = 2 * (i + 1) - 1 /\ 2 * i + 2 = 2 * (i + 1)
      BY <2>2
    <3>2. rest[2 * i - 1] = q[2 * (i + 1) - 1] /\ rest[2 * i] = q[2 * (i + 1)]
      BY <2>1, <3>1
    <3> QED
      BY <1>1, <3>1, <3>2
  <2>4. Quits(rest)
    BY <2>2, <2>3 DEF Quits
  <2> QED
    BY <2>1, <2>4
<1> QED
  BY <1>2, <1>3, <1>4 DEF IsHalf, Half

LEMMA QuitKeeps ==
  ASSUME Inv, NEW handler \in SUBSET Signals, prog \in {"run", "quit"}, Quit(handler),
         cancelCount' \in 0..MaxSignals, signals' \in 0..MaxSignals, cancelCount' <= signals',
         UNCHANGED <<down, radarVars, reset, faults>>
  PROVE  Inv'
<1>1. Types /\ RadarInv /\ RunInv /\ QuitInv
  BY Parts
<1>2. /\ Msg("QUIT", 0) \in Seq(AUnit) /\ Msg("none", 0) \in Seq(AUnit) /\ Quits(Msg("QUIT", 0))
  <2>1. "QUIT" \in Commands \cup {"none"} /\ "none" \in Commands \cup {"none"} /\ 0 \in {0, 1}
    BY DEF Commands
  <2>2. /\ Msg("QUIT", 0) \in Seq(AUnit) /\ Msg("none", 0) \in Seq(AUnit) /\ Len(Msg("QUIT", 0)) = 2
        /\ \A i \in 1..2 : IsHalf(Msg("QUIT", 0)[i], 2 - i, "QUIT")
    BY <2>1, MessageUnits
  <2>3. Quits(Msg("QUIT", 0))
    BY <2>2, QuitUnits
  <2> QED
    BY <2>2, <2>3
<1>3. up' \in Seq(AUnit) /\ (radar # "ended" /\ Quits(up) => Quits(up'))
  BY <1>1, <1>2, MoreUnits DEF Quit, Send, Types
<1>4. Types'
  <2>1. masked' \subseteq Signals /\ torn' \in BOOLEAN /\ exitFlag' \in BOOLEAN /\ prog' = "quit"
    BY <1>1 DEF Quit, Types
  <2>2. cmd' \in Commands \cup {"none"}
    BY <1>1 DEF Quit, Types, Commands
  <2> QED
    BY <1>1, <1>3, <2>1, <2>2 DEF Quit, Types, radarVars
<1>5. RadarInv'
  BY <1>1 DEF RadarInv, radarVars
<1>6. RunInv'
  BY DEF RunInv, Quit
<1>7. QuitInv'
  <2>1. SUFFICES ASSUME cmd' = "QUIT"
                 PROVE  /\ Quits(down)
                        /\ radar # "ended" => Quits(up')
                        /\ radar = "work" => served = "QUIT" /\ work = Do("answer")
    BY DEF QuitInv, radarVars
  <2>2. CASE prog = "quit"
    <3>1. cmd = "QUIT"
      BY <2>1, <2>2 DEF Quit
    <3> QED
      BY <1>1, <1>3, <2>2, <3>1 DEF QuitInv
  <2>3. CASE prog = "run"
    <3>1. cmd # "QUIT"
      BY <1>1, <2>3 DEF RunInv
    <3>2. Resting
      BY <2>1, <2>3, <3>1 DEF Quit, Resting, Pauses
    <3>3. down = <<>> /\ (radar # "ended" => radar = "hear" /\ up = <<>>)
      BY <1>1, <2>3, <3>2 DEF RunInv
    <3>4. Quits(<<>>)
      <4>1. Len(<<>>) = 2 * 0 /\ 0 \in Nat /\ 1..0 = {}
        OBVIOUS
      <4> QED
        BY <4>1 DEF Quits
    <3> QED
      BY <1>3, <3>3, <3>4
  <2> QED
    BY <2>2, <2>3
<1> QED
  BY <1>4, <1>5, <1>6, <1>7, Parts

LEMMA EndKeeps == ASSUME Inv, End PROVE Inv'
<1>1. Types /\ RadarInv /\ RunInv /\ QuitInv /\ cancelCount <= signals
  BY Parts
<1>2. Types'
  BY <1>1 DEF Types, End, radarVars
<1>3. RadarInv' /\ RunInv' /\ QuitInv' /\ cancelCount' <= signals'
  BY <1>1 DEF RadarInv, RunInv, QuitInv, End, radarVars
<1> QED
  BY <1>2, <1>3, Parts

LEMMA InterruptKeeps == ASSUME Inv, Interrupt PROVE Inv'
<1>1. Types /\ RadarInv /\ RunInv /\ QuitInv /\ cancelCount <= signals
  BY Parts
<1>2. /\ cancelCount' \in 0..MaxSignals /\ signals' \in 0..MaxSignals /\ cancelCount' <= signals'
      /\ prog \in {"run", "quit"} /\ UNCHANGED <<down, radarVars, reset, faults>>
  BY <1>1, LinkAssumption DEF Interrupt, Types
<1>3. CASE Quit({"SIGINT"})
  BY <1>2, <1>3, QuitKeeps DEF Signals
<1>4. CASE exitFlag' = TRUE /\ UNCHANGED <<prog, call, todo, cmd, status, seqs, masked, torn, up>>
  <2>1. Types'
    BY <1>1, <1>2, <1>4 DEF Types, radarVars
  <2>2. RadarInv' /\ QuitInv'
    BY <1>1, <1>2, <1>4 DEF RadarInv, QuitInv, radarVars
  <2>3. RunInv'
    BY <1>1, <1>2, <1>4 DEF RunInv, Resting, RadarSteps, radarVars
  <2> QED
    BY <1>2, <2>1, <2>2, <2>3, Parts
<1> QED
  BY <1>3, <1>4 DEF Interrupt

LEMMA StopKeeps == ASSUME Inv, NEW signal \in {"SIGUSR1", "SIGPIPE"}, Stop(signal) PROVE Inv'
<1>1. Types /\ cancelCount <= signals
  BY Parts
<1>2. /\ cancelCount' \in 0..MaxSignals /\ signals' \in 0..MaxSignals /\ cancelCount' <= signals'
      /\ prog \in {"run", "quit"} /\ UNCHANGED <<down, radarVars, reset, faults>>
  BY <1>1, LinkAssumption DEF Stop, Types
<1>3. {signal} \in SUBSET Signals /\ Quit({signal})
  BY DEF Stop, Signals
<1> QED
  BY <1>2, <1>3, QuitKeeps

LEMMA ResetKeeps == ASSUME Inv, Reset PROVE Inv'
<1>1. Types /\ RadarInv /\ RunInv /\ QuitInv /\ cancelCount <= signals
  BY Parts
<1>2. Types' /\ cancelCount' <= signals'
  BY <1>1 DEF Types, Reset, radarVars, progVars, handlerVars
<1>3. RadarInv' /\ QuitInv'
  BY <1>1 DEF RadarInv, QuitInv, Reset, radarVars, progVars, handlerVars
<1>4. RunInv'
  BY <1>1 DEF RunInv, Resting, RadarSteps, Reset, radarVars, progVars, handlerVars
<1> QED
  BY <1>2, <1>3, <1>4, Parts

LEMMA StutterKeeps == ASSUME Inv, UNCHANGED vars PROVE Inv'
<1>1. Types /\ RadarInv /\ RunInv /\ QuitInv /\ cancelCount <= signals
  BY Parts
<1>2. Types' /\ cancelCount' <= signals'
  BY <1>1 DEF Types, vars, radarVars, progVars, handlerVars
<1>3. RadarInv' /\ QuitInv'
  BY <1>1 DEF RadarInv, QuitInv, vars, radarVars, progVars, handlerVars
<1>4. RunInv'
  BY <1>1 DEF RunInv, Resting, RadarSteps, vars, radarVars, progVars, handlerVars
<1> QED
  BY <1>2, <1>3, <1>4, Parts

(***************************************************************************)
(* The program's steps in the middle of a command.                         *)
(***************************************************************************)
(* A step that is not the last: what is left of the command, and of what   *)
(* came back, still fits what the radar has left.                          *)
LEMMA MiddleKeeps ==
  ASSUME Inv, prog = "run", ~Resting, prog' = "run", todo' \in Seq(AStep), Shape(todo'), Types',
         down = <<>> /\ radar = "ended" => down' = <<>>,
         \A w \in Seq(AStep), v \in 0..MaxSeqs, u \in Nat :
           Converse(todo, seqs, w, v, cmd, u, down) /\ (radar = "ended" => down' # <<>> /\ u = 0) =>
             Converse(todo', seqs', w, v, cmd, u + Len(up') - Len(up), down'),
         up # <<>> => up' # <<>> /\ (Heard(up, cmd) => Heard(up', cmd)),
         up = <<>> => up' = up \/ Head(todo).op = "put",
         radar = "ended" => Len(up') = Len(up) \/ down' = <<>>,
         UNCHANGED <<cmd, cancelCount, signals, radar, work, served, nave, reset>>
  PROVE  Inv'
<1>1. Types /\ RadarInv /\ RunInv /\ QuitInv /\ cancelCount <= signals
  BY Parts
<1>2. RadarInv' /\ QuitInv'
  BY <1>1 DEF RadarInv, QuitInv
<1>3. /\ Len(up) \in Nat /\ RadarSteps \in Seq(AStep) /\ seqs \in Nat /\ nave \in Nat /\ nave \in 0..MaxSeqs
  BY <1>1, SeqFacts DEF Types
<1>4. seqs' \in Nat /\ Len(up') \in Nat /\ up' \in Seq(AUnit)
  BY LinkAssumption DEF Types
<1>5. CASE radar # "ended"
  <2>1. Converse(todo, seqs, RadarSteps, nave, cmd, Len(up), down)
    BY <1>1, <1>5 DEF RunInv
  <2>2. Converse(todo', seqs', RadarSteps, nave, cmd, Len(up'), down')
    <3>1. Converse(todo', seqs', RadarSteps, nave, cmd, Len(up) + Len(up') - Len(up), down')
      BY <1>3, <1>5, <2>1
    <3>2. Len(up) + Len(up') - Len(up) = Len(up')
      BY <1>3, <1>4
    <3> QED
      BY <3>1, <3>2
  <2>3. RadarSteps' = RadarSteps
    <3>1. CASE up # <<>>
      BY <3>1 DEF RadarSteps
    <3>2. CASE up' = <<>>
      BY <3>2 DEF RadarSteps
    <3>3. CASE up = <<>> /\ Head(todo).op = "put"
      <4>1. RadarSteps # <<>>
        BY <1>1, <1>3, <2>1, <3>3, ConverseBusy DEF Types
      <4>2. radar # "hear"
        BY <1>1, <3>3, <4>1 DEF RadarSteps, RadarInv
      <4> QED
        BY <4>2 DEF RadarSteps
    <3> QED
      BY <3>1, <3>2, <3>3
  <2>4. ~Resting'
    BY <1>3, <1>4, <2>2, ConverseBusy DEF Resting
  <2>5. radar = "hear" /\ up' # <<>> => Heard(up', cmd)
    <3>1. CASE up # <<>>
      BY <1>1, <3>1 DEF RunInv
    <3>2. CASE up = <<>> /\ Head(todo).op = "put"
      <4>1. RadarSteps # <<>>
        BY <1>1, <1>3, <2>1, <3>2, ConverseBusy DEF Types
      <4> QED
        BY <1>1, <3>2, <4>1 DEF RadarSteps, RadarInv
    <3> QED
      BY <3>1, <3>2
  <2>6. RunInv'
    <3>1. cmd # "QUIT" /\ (radar = "work" => served = cmd)
      BY <1>1 DEF RunInv
    <3> QED
      BY <1>5, <2>2, <2>3, <2>4, <2>5, <3>1 DEF RunInv
  <2> QED
    BY <1>1, <1>2, <2>6, Parts
<1>6. CASE radar = "ended"
  <2>1. cmd # "QUIT"
    BY <1>1 DEF RunInv
  <2>2. CASE down' = <<>>
    <3>1. RunInv'
      BY <1>6, <2>1, <2>2 DEF RunInv
    <3> QED
      BY <1>1, <1>2, <3>1, Parts
  <2>3. CASE down' # <<>>
    <3>1. PICK w \in Seq(AStep), v \in 0..MaxSeqs : Converse(todo, seqs, w, v, cmd, 0, down)
      BY <1>1, <1>6, <2>3 DEF RunInv
    <3>2. Converse(todo', seqs', w, v, cmd, 0, down')
      <4>1. Converse(todo', seqs', w, v, cmd, 0 + Len(up') - Len(up), down')
        BY <2>3, <3>1
      <4>2. 0 + Len(up') - Len(up) = 0
        BY <1>3, <1>6, <2>3
      <4> QED
        BY <4>1, <4>2
    <3>3. ~Resting'
      <4>1. v \in Nat
        BY LinkAssumption
      <4> QED
        BY <1>4, <3>2, <4>1, ConverseBusy DEF Resting
    <3>4. RunInv'
      BY <1>6, <2>1, <2>3, <3>2, <3>3 DEF RunInv
    <3> QED
      BY <1>1, <1>2, <3>4, Parts
  <2> QED
    BY <2>2, <2>3
<1> QED
  BY <1>5, <1>6

LEMMA InMiddle ==
  ASSUME Inv, prog = "run", todo # <<>>, Head(todo).op \in {"put", "get", "count", "loop", "answer", "agreed"}
  PROVE  /\ ~Resting /\ Types /\ todo[1] = Head(todo) /\ todo[1] \in AStep
         /\ todo \in Seq(AStep) /\ Tail(todo) \in Seq(AStep) /\ Shape(Tail(todo)) /\ Shape(todo)
         /\ todo[1].op \in {"put", "get"} => todo[1].n > 0
         /\ todo[1].n \in Nat /\ seqs \in Nat /\ Len(up) \in Nat /\ Len(down) \in Nat
         /\ up \in Seq(AUnit) /\ down \in Seq(AUnit)
<1>1. Types /\ RunInv
  BY Parts
<1>2. ~Resting
  BY DEF Resting, Pauses
<1>3. todo[1] = Head(todo) /\ 1 \in 1..Len(todo) /\ todo[1] \in AStep /\ Tail(todo) \in Seq(AStep) /\ seqs \in Nat
  BY <1>1, SeqFacts
<1>4. Shape(todo)
  BY <1>1 DEF RunInv
<1>5. Shape(Tail(todo))
  BY <1>1, <1>4, ShapeTail DEF Types
<1>6. todo[1].op \in {"put", "get"} => todo[1].n > 0
  BY <1>3, <1>4 DEF Shape
<1>7. todo[1].n \in Nat
  BY <1>3 DEF AStep
<1>8. Len(up) \in Nat /\ Len(down) \in Nat
  BY <1>1, SeqFacts
<1> QED
  BY <1>1, <1>2, <1>3, <1>4, <1>5, <1>6, <1>7, <1>8 DEF Types

LEMMA GetKeeps == ASSUME Inv, GetPiece PROVE Inv'
<1>1. /\ prog = "run" /\ todo # <<>> /\ Head(todo).op = "get"
      /\ todo' = Tail(todo)
      /\ UNCHANGED <<prog, call, exitFlag, handlerVars, cmd, status, seqs, up, radarVars, reset, faults>>
      /\ \/ Len(down) >= Head(todo).n /\ down' = Later(down, Head(todo).n)
         \/ radar = "ended" /\ down' = <<>>
  BY DEF GetPiece, At, Goto, Arrives, Lost, Later
<1>2. /\ ~Resting /\ Types /\ todo[1] = Head(todo) /\ todo[1] \in AStep
      /\ todo \in Seq(AStep) /\ Tail(todo) \in Seq(AStep) /\ Shape(Tail(todo))
      /\ todo[1].n > 0 /\ todo[1].n \in Nat /\ seqs \in Nat /\ Len(up) \in Nat /\ Len(down) \in Nat
      /\ down \in Seq(AUnit)
  BY <1>1, InMiddle
<1>3. Len(down) >= Head(todo).n => Later(down, Head(todo).n) \in Seq(AUnit)
  BY <1>2, LaterPart
<1>4. Types'
  <2>1. down' \in Seq(AUnit)
    <3>1. <<>> \in Seq(AUnit)
      OBVIOUS
    <3> QED
      BY <1>1, <1>3, <3>1
  <2> QED
    BY <1>1, <1>2, <2>1 DEF Types, radarVars, handlerVars
<1>5. ASSUME NEW w \in Seq(AStep), NEW v \in 0..MaxSeqs, NEW u \in Nat,
             Converse(todo, seqs, w, v, cmd, u, down), radar = "ended" => down' # <<>> /\ u = 0
      PROVE  Converse(todo', seqs', w, v, cmd, u + Len(up') - Len(up), down')
  <2>1. down' = Later(down, Head(todo).n) /\ Len(down) >= todo[1].n /\ down # <<>>
    BY <1>1, <1>2, <1>5
  <2>2. Size(todo[1]) = todo[1].n
    BY <1>1, <1>2 DEF Size
  <2>3. v \in Nat
    BY LinkAssumption
  <2>4. u = 0 /\ Converse(Tail(todo), seqs, w, v, cmd, 0, Later(down, Size(todo[1])))
    BY <1>1, <1>2, <1>5, <2>1, <2>3, ConverseGet
  <2>5. u + Len(up') - Len(up) = 0
    BY <1>1, <1>2, <2>4
  <2> QED
    BY <1>1, <1>2, <2>1, <2>2, <2>4, <2>5
<1>6. down = <<>> /\ radar = "ended" => down' = <<>>
  BY <1>1, <1>2
<1> QED
  BY <1>1, <1>2, <1>4, <1>5, <1>6, MiddleKeeps DEF handlerVars, radarVars

LEMMA QuitsFrom ==
  ASSUME Inv, prog = "run", NEW handler \in SUBSET Signals, Quit(handler),
         UNCHANGED <<cancelCount, signals>>, UNCHANGED <<down, radarVars, reset, faults>>
  PROVE  Inv'
<1>1. Types /\ cancelCount <= signals
  BY Parts
<1>2. cancelCount' \in 0..MaxSignals /\ signals' \in 0..MaxSignals /\ cancelCount' <= signals'
  BY <1>1 DEF Types
<1> QED
  BY <1>2, QuitKeeps

LEMMA PutKeeps == ASSUME Inv, PutPiece PROVE Inv'
<1>1. /\ prog = "run" /\ todo # <<>> /\ Head(todo).op = "put" /\ Sends(Piece(Head(todo).n, 0))
      /\ UNCHANGED <<down, radarVars, reset, faults>>
  BY DEF PutPiece, At, Sends
<1>2. CASE reset
  <2>1. {"SIGPIPE"} \in SUBSET Signals /\ Quit({"SIGPIPE"}) /\ UNCHANGED <<cancelCount, signals>>
    BY <1>1, <1>2 DEF Sends, Signals
  <2> QED
    BY <1>1, <2>1, QuitsFrom
<1>3. CASE ~reset
  <2>1. /\ todo' = Tail(todo) /\ UNCHANGED <<prog, call, exitFlag, handlerVars, cmd, status, seqs>>
        /\ up' = IF radar = "ended" THEN Msg("none", 0) ELSE up \o Piece(Head(todo).n, 0)
    BY <1>1, <1>3 DEF Sends, Goto, Send, At
  <2>2. /\ ~Resting /\ Types /\ todo[1] = Head(todo) /\ todo[1] \in AStep
        /\ todo \in Seq(AStep) /\ Tail(todo) \in Seq(AStep) /\ Shape(Tail(todo))
        /\ todo[1].n > 0 /\ todo[1].n \in Nat /\ seqs \in Nat /\ Len(up) \in Nat /\ up \in Seq(AUnit)
    BY <1>1, InMiddle
  <2> DEFINE n == Head(todo).n
             units == Piece(n, 0)
  <2>3. units \in Seq(AUnit) /\ Len(units) = n
    BY <2>2, PieceUnits
  <2> HIDE DEF units
  <2>4. /\ up \o units \in Seq(AUnit) /\ Len(up \o units) = Len(up) + n
        /\ up # <<>> => up \o units # <<>> /\ (Heard(up, cmd) => Heard(up \o units, cmd))
    BY <2>2, <2>3, MoreUnits, SMTT(30)
  <2>5. Types'
    <3>1. Msg("none", 0) \in Seq(AUnit)
      BY MessageUnits
    <3>2. up' \in Seq(AUnit)
      BY <2>1, <2>4, <3>1 DEF units
    <3> QED
      BY <1>1, <2>1, <2>2, <3>2 DEF Types, radarVars, handlerVars
  <2>6. CASE radar # "ended"
    <3>1. up' = up \o units
      BY <2>1, <2>6 DEF units
    <3>2. ASSUME NEW w \in Seq(AStep), NEW v \in 0..MaxSeqs, NEW u \in Nat,
                 Converse(todo, seqs, w, v, cmd, u, down)
          PROVE  Converse(todo', seqs', w, v, cmd, u + Len(up') - Len(up), down')
      <4>1. v \in Nat
        BY LinkAssumption
      <4>2. Converse(Tail(todo), seqs, w, v, cmd, u + todo[1].n, down)
        BY <1>1, <2>2, <3>2, <4>1, ConversePut
      <4>3. u + Len(up') - Len(up) = u + todo[1].n
        <5>1. Len(up') = Len(up) + todo[1].n
          BY <2>2, <2>4, <3>1
        <5> QED
          BY <2>2, <5>1
      <4> QED
        BY <1>1, <2>1, <4>2, <4>3
    <3> QED
      BY <1>1, <2>1, <2>2, <2>4, <2>5, <2>6, <3>1, <3>2, MiddleKeeps DEF handlerVars, radarVars
  <2>7. CASE radar = "ended"
    <3>1. Types /\ RadarInv /\ RunInv /\ QuitInv /\ cancelCount <= signals
      BY Parts
    <3>2. down = <<>>
      <4>1. SUFFICES ASSUME down # <<>> PROVE FALSE
        OBVIOUS
      <4>2. PICK w \in Seq(AStep), v \in 0..MaxSeqs : Converse(todo, seqs, w, v, cmd, 0, down)
        BY <1>1, <2>2, <2>7, <3>1, <4>1 DEF RunInv
      <4>3. v \in Nat
        BY LinkAssumption
      <4> QED
        BY <1>1, <2>2, <4>1, <4>2, <4>3, ConversePut
    <3>3. RadarInv' /\ QuitInv' /\ cancelCount' <= signals'
      BY <1>1, <2>1, <2>7, <3>1 DEF RadarInv, QuitInv, radarVars, handlerVars
    <3>4. RunInv'
      BY <1>1, <2>1, <2>2, <2>7, <3>1, <3>2 DEF RunInv, radarVars
    <3> QED
      BY <2>5, <3>3, <3>4, Parts
  <2> QED
    BY <2>6, <2>7
<1> QED
  BY <1>2, <1>3

LEMMA CountKeeps == ASSUME Inv, Count PROVE Inv'
<1>1. /\ prog = "run" /\ todo # <<>> /\ Head(todo).op = "count"
      /\ todo' = Tail(todo)
      /\ UNCHANGED <<prog, call, exitFlag, handlerVars, cmd, status, up, radarVars, reset, faults>>
      /\ \/ Len(down) >= 1 /\ down' = Later(down, 1) /\ seqs' = Head(down).n
         \/ radar = "ended" /\ down' = <<>> /\ seqs' \in 0..MaxSeqs
  BY DEF Count, At, Goto, Arrives, Lost, Later
<1>2. /\ ~Resting /\ Types /\ todo[1] = Head(todo) /\ todo[1] \in AStep
      /\ todo \in Seq(AStep) /\ Tail(todo) \in Seq(AStep) /\ Shape(Tail(todo))
      /\ seqs \in Nat /\ Len(up) \in Nat /\ Len(down) \in Nat /\ down \in Seq(AUnit)
  BY <1>1, InMiddle
<1>3. RunInv /\ nave \in 0..MaxSeqs /\ nave \in Nat /\ RadarSteps \in Seq(AStep)
  BY <1>2, Parts, SeqFacts DEF Types
<1>4. ASSUME NEW w \in Seq(AStep), NEW v \in 0..MaxSeqs, NEW u \in Nat,
             Converse(todo, seqs, w, v, cmd, u, down), Len(down) >= 1, down' = Later(down, 1), seqs' = Head(down).n
      PROVE  seqs' \in 0..MaxSeqs /\ u = 0 /\ Converse(todo', seqs', w, v, cmd, 0, down')
  <2>1. down # <<>> /\ Head(down) = down[1]
    BY <1>2, <1>4
  <2>2. v \in Nat
    BY LinkAssumption
  <2>3. u = 0 /\ down[1].n \in 0..MaxSeqs /\ Converse(Tail(todo), down[1].n, w, v, cmd, 0, Later(down, 1))
    BY <1>1, <1>2, <1>4, <2>1, <2>2, ConverseCount
  <2> QED
    BY <1>1, <1>4, <2>1, <2>3
<1>5. seqs' \in 0..MaxSeqs
  <2>1. CASE radar # "ended"
    <3>1. Converse(todo, seqs, RadarSteps, nave, cmd, Len(up), down)
      BY <1>1, <1>2, <1>3, <2>1 DEF RunInv
    <3> QED
      BY <1>1, <1>2, <1>3, <1>4, <2>1, <3>1
  <2>2. CASE radar = "ended" /\ Len(down) >= 1 /\ down' = Later(down, 1) /\ seqs' = Head(down).n
    <3>1. down # <<>>
      BY <1>2, <2>2
    <3>2. PICK w \in Seq(AStep), v \in 0..MaxSeqs : Converse(todo, seqs, w, v, cmd, 0, down)
      BY <1>1, <1>2, <1>3, <2>2, <3>1 DEF RunInv
    <3> QED
      BY <1>4, <2>2, <3>2
  <2> QED
    BY <1>1, <2>1, <2>2
<1>6. Types'
  <2>1. down' \in Seq(AUnit)
    <3>1. <<>> \in Seq(AUnit)
      OBVIOUS
    <3>2. Len(down) >= 1 => Later(down, 1) \in Seq(AUnit)
      BY <1>2, LaterPart
    <3> QED
      BY <1>1, <3>1, <3>2
  <2> QED
    BY <1>1, <1>2, <1>5, <2>1 DEF Types, radarVars, handlerVars
<1>7. ASSUME NEW w \in Seq(AStep), NEW v \in 0..MaxSeqs, NEW u \in Nat,
             Converse(todo, seqs, w, v, cmd, u, down), radar = "ended" => down' # <<>> /\ u = 0
      PROVE  Converse(todo', seqs', w, v, cmd, u + Len(up') - Len(up), down')
  <2>1. u = 0 /\ Converse(todo', seqs', w, v, cmd, 0, down')
    BY <1>1, <1>4, <1>7
  <2>2. u + Len(up') - Len(up) = 0
    BY <1>1, <1>2, <2>1
  <2> QED
    BY <2>1, <2>2
<1>8. down = <<>> /\ radar = "ended" => down' = <<>>
  <2>1. down = <<>> => ~(Len(down) >= 1)
    OBVIOUS
  <2> QED
    BY <1>1, <2>1
<1> QED
  BY <1>1, <1>2, <1>6, <1>7, <1>8, MiddleKeeps DEF handlerVars, radarVars

LEMMA ShapeTurn == ASSUME NEW t \in Seq(AStep), Shape(t) PROVE Sequence \o t \in Seq(AStep) /\ Shape(Sequence \o t)
<1>1. Sequence \in Seq(AStep) /\ Len(Sequence) = 5 /\ \A i \in 1..5 : Sequence[i].op \in {"put", "get"} /\ Sequence[i].n > 0
  BY TurnSteps
<1>2. Shape(Sequence)
  BY <1>1 DEF Shape, Endings
<1>3. Sequence[Len(Sequence)].op \notin Closes
  BY <1>1 DEF Closes, Endings
<1> QED
  BY <1>1, <1>2, <1>3, ShapeJoin

LEMMA LoopKeeps == ASSUME Inv, Loop PROVE Inv'
<1>1. /\ prog = "run" /\ todo # <<>> /\ Head(todo).op = "loop"
      /\ \/ seqs > 0 /\ seqs' = seqs - 1 /\ todo' = Sequence \o todo
         \/ ~(seqs > 0) /\ seqs' = seqs /\ todo' = Tail(todo)
      /\ UNCHANGED <<prog, call, exitFlag, handlerVars, cmd, status, up, down, radarVars, reset, faults>>
  BY DEF Loop, At, Goto
<1>2. /\ ~Resting /\ Types /\ todo[1] = Head(todo) /\ todo[1] \in AStep /\ Shape(todo)
      /\ todo \in Seq(AStep) /\ Tail(todo) \in Seq(AStep) /\ Shape(Tail(todo))
      /\ seqs \in Nat /\ Len(up) \in Nat
  BY <1>1, InMiddle
<1>3. Sequence \o todo \in Seq(AStep) /\ Shape(Sequence \o todo)
  BY <1>2, ShapeTurn
<1>4. todo' \in Seq(AStep) /\ Shape(todo')
  BY <1>1, <1>2, <1>3
<1>5. Types'
  <2>1. seqs' \in 0..MaxSeqs
    <3>1. seqs \in 0..MaxSeqs
      BY <1>2 DEF Types
    <3> QED
      BY <1>1, <1>2, <3>1, LinkAssumption
  <2> QED
    BY <1>1, <1>2, <1>4, <2>1 DEF Types, radarVars, handlerVars
<1>6. ASSUME NEW w \in Seq(AStep), NEW v \in 0..MaxSeqs, NEW u \in Nat,
             Converse(todo, seqs, w, v, cmd, u, down)
      PROVE  Converse(todo', seqs', w, v, cmd, u + Len(up') - Len(up), down')
  <2>1. v \in Nat
    BY LinkAssumption
  <2>2. /\ seqs > 0 => Converse(Sequence \o todo, seqs - 1, w, v, cmd, u, down)
        /\ seqs = 0 => Converse(Tail(todo), seqs, w, v, cmd, u, down)
    BY <1>1, <1>2, <1>6, <2>1, ConverseTurn
  <2>3. u + Len(up') - Len(up) = u /\ (~(seqs > 0) => seqs = 0)
    BY <1>1, <1>2
  <2> QED
    BY <1>1, <2>2, <2>3
<1> QED
  BY <1>1, <1>2, <1>4, <1>5, <1>6, MiddleKeeps DEF handlerVars, radarVars

(***************************************************************************)
(* The program's steps between two commands.                               *)
(***************************************************************************)
LEMMA PauseKeeps ==
  ASSUME Inv, prog = "run", prog' = "run", Good(todo'), Types', down' = <<>>,
         radar # "ended" => radar = "hear" /\ up = <<>>,
         UNCHANGED <<cmd, up, cancelCount, signals, radar, work, served, nave, reset>>
  PROVE  Inv'
<1>1. Types /\ RadarInv /\ RunInv /\ QuitInv /\ cancelCount <= signals
  BY Parts
<1>2. RadarInv' /\ QuitInv'
  BY <1>1 DEF RadarInv, QuitInv
<1>3. Shape(todo') /\ Resting'
  <2>1. todo' # <<>> => Head(todo') = todo'[1]
    BY TailStep DEF Types
  <2> QED
    BY <2>1 DEF Resting, Good
<1>4. RunInv'
  BY <1>1, <1>3 DEF RunInv
<1> QED
  BY <1>1, <1>2, <1>4, Parts

LEMMA GoodTail ==
  ASSUME NEW t \in Seq(AStep), t # <<>>, Shape(t), Head(t).op \in Closes
  PROVE  Good(Tail(t))
<1>1. Head(t) = t[1]
  BY TailStep
<1> QED
  BY <1>1, ShapeTail DEF Good

LEMMA AtPause ==
  ASSUME Inv, prog = "run", Resting
  PROVE  /\ Types /\ RunInv /\ down = <<>> /\ (radar # "ended" => radar = "hear" /\ up = <<>>)
         /\ todo \in Seq(AStep) /\ Shape(todo) /\ cmd # "QUIT"
<1>1. Types /\ RunInv
  BY Parts
<1> QED
  BY <1>1 DEF RunInv, Types

LEMMA AnswerKeeps == ASSUME Inv, Answer PROVE Inv'
<1>1. /\ prog = "run" /\ todo # <<>> /\ Head(todo).op \in Endings
      /\ todo' = Do("exit") \/ todo' = Tail(todo)
      /\ UNCHANGED <<prog, call, exitFlag, handlerVars, cmd, seqs, up, radarVars, reset, faults>>
      /\ \/ Len(down) >= 2 /\ down' = Later(down, 2) /\ status' = Head(down).n
         \/ radar = "ended" /\ down' = <<>> /\ status' \in {0, 1}
  <2>1. At("answer") \/ At("agreed") => prog = "run" /\ todo # <<>> /\ Head(todo).op \in Endings
    BY DEF At, Endings
  <2> QED
    BY <2>1 DEF Answer, Goto, Arrives, Lost, Later
<1>2. /\ ~Resting /\ Types /\ todo[1] = Head(todo) /\ todo \in Seq(AStep) /\ Shape(todo)
      /\ seqs \in Nat /\ Len(up) \in Nat /\ Len(down) \in Nat /\ down \in Seq(AUnit)
  BY <1>1, InMiddle DEF Endings
<1>3. RunInv /\ RadarInv /\ nave \in Nat /\ RadarSteps \in Seq(AStep) /\ (Len(up) = 0 => up = <<>>)
  BY <1>2, Parts, SeqFacts
<1>4. ASSUME NEW w \in Seq(AStep), NEW v \in Nat, NEW u \in Nat,
             Converse(todo, seqs, w, v, cmd, u, down), Len(down) >= 2
      PROVE  u = 0 /\ Len(down) = 2 /\ Head(down).n \in {0, 1} /\ (w # <<>> => w[Len(w)].op = "loop")
  <2>1. down # <<>> /\ Head(down) = down[1]
    BY <1>2, <1>4
  <2> QED
    BY <1>1, <1>2, <1>4, <2>1, ConverseEnd
<1>5. Len(down) >= 2 => Len(down) = 2 /\ Head(down).n \in {0, 1}
  <2>1. CASE radar # "ended" /\ Len(down) >= 2
    <3>1. Converse(todo, seqs, RadarSteps, nave, cmd, Len(up), down)
      BY <1>1, <1>2, <1>3, <2>1 DEF RunInv
    <3> QED
      BY <1>2, <1>3, <1>4, <2>1, <3>1
  <2>2. CASE radar = "ended" /\ Len(down) >= 2
    <3>1. down # <<>>
      BY <1>2, <2>2
    <3>2. PICK w \in Seq(AStep), v \in 0..MaxSeqs : Converse(todo, seqs, w, v, cmd, 0, down)
      BY <1>1, <1>2, <1>3, <2>2, <3>1 DEF RunInv
    <3>3. v \in Nat
      BY LinkAssumption
    <3> QED
      BY <1>4, <2>2, <3>2, <3>3
  <2> QED
    BY <2>1, <2>2
<1>6. down' = <<>>
  <2>1. CASE Len(down) >= 2 /\ down' = Later(down, 2)
    <3>1. PICK rest \in Seq(AUnit) : rest = Later(down, 2) /\ Len(rest) = Len(down) - 2
      BY <1>2, <2>1, LaterPart
    <3>2. Len(rest) = 0
      <4>1. Len(down) = 2
        BY <1>5, <2>1
      <4> QED
        BY <3>1, <4>1
    <3> QED
      BY <2>1, <3>1, <3>2
  <2> QED
    BY <1>1, <2>1
<1>7. radar # "ended" => radar = "hear" /\ up = <<>>
  <2>1. SUFFICES ASSUME radar # "ended" PROVE radar = "hear" /\ up = <<>>
    OBVIOUS
  <2>2. Len(down) >= 2
    BY <1>1, <2>1
  <2>3. Converse(todo, seqs, RadarSteps, nave, cmd, Len(up), down)
    BY <1>1, <1>2, <1>3, <2>1 DEF RunInv
  <2>4. Len(up) = 0 /\ (RadarSteps # <<>> => RadarSteps[Len(RadarSteps)].op = "loop")
    BY <1>2, <1>3, <1>4, <2>2, <2>3
  <2>5. up = <<>>
    BY <1>3, <2>4
  <2>6. ASSUME radar = "work" PROVE FALSE
    <3>1. RadarSteps = work
      BY <2>6 DEF RadarSteps
    <3>2. work # <<>> /\ Len(work) \in 1..Len(work)
      <4>1. work # <<>> /\ work \in Seq(RStep)
        BY <1>2, <1>3, <2>6 DEF RadarInv, Types
      <4> QED
        BY <4>1
    <3>3. work[Len(work)].op = "answer"
      BY <1>3, <2>6, <3>2 DEF RadarInv
    <3> QED
      BY <2>4, <3>1, <3>2, <3>3
  <2> QED
    BY <1>2, <2>1, <2>5, <2>6 DEF Types
<1>8. Good(todo')
  <2>1. Good(Tail(todo))
    BY <1>1, <1>2, GoodTail DEF Closes
  <2> QED
    BY <1>1, <2>1, GoodSteps
<1>9. Types'
  <2>1. status' \in {0, 1}
    BY <1>1, <1>5
  <2>2. todo' \in Seq(AStep) /\ down' \in Seq(AUnit)
    BY <1>6, <1>8 DEF Good
  <2> QED
    BY <1>1, <1>2, <2>1, <2>2 DEF Types, radarVars, handlerVars
<1> QED
  BY <1>1, <1>6, <1>7, <1>8, <1>9, PauseKeeps DEF handlerVars, radarVars

LEMMA TestKeeps == ASSUME Inv, Test PROVE Inv'
<1>1. /\ prog = "run" /\ todo # <<>> /\ Head(todo).op = "test"
      /\ todo' = <<>> \/ todo' = Tail(todo)
      /\ UNCHANGED <<prog, call, exitFlag, handlerVars, cmd, status, seqs, up, down, radarVars, reset, faults>>
  <2>1. At("test") /\ UNCHANGED <<cmd, status, seqs, up, down, radarVars, reset, faults>>
    BY DEF Test
  <2>2. Goto(Tail(todo)) \/ Goto(<<>>)
    BY DEF Test
  <2>3. \A steps : Goto(steps) => todo' = steps /\ UNCHANGED <<prog, call, exitFlag, handlerVars>>
    BY DEF Goto
  <2> QED
    BY <2>1, <2>2, <2>3 DEF At
<1>2. Resting
  BY <1>1 DEF Resting, Pauses
<1>3. /\ Types /\ down = <<>> /\ (radar # "ended" => radar = "hear" /\ up = <<>>)
      /\ todo \in Seq(AStep) /\ Shape(todo)
  BY <1>1, <1>2, AtPause
<1>4. Good(todo')
  <2>1. Good(Tail(todo))
    BY <1>1, <1>3, GoodTail DEF Closes
  <2>2. Good(<<>>)
    BY DEF Good, Shape
  <2> QED
    BY <1>1, <2>1, <2>2
<1>5. Types'
  <2>1. todo' \in Seq(AStep)
    BY <1>4 DEF Good
  <2> QED
    BY <1>1, <1>3, <2>1 DEF Types, radarVars, handlerVars
<1> QED
  BY <1>1, <1>3, <1>4, <1>5, PauseKeeps DEF handlerVars, radarVars

LEMMA AllocKeeps == ASSUME Inv, Alloc PROVE Inv'
<1>1. /\ prog = "run" /\ todo # <<>> /\ Head(todo).op = "alloc"
      /\ todo' = Do("exit") \/ todo' = Tail(todo)
      /\ \/ faults' = faults
         \/ faults < MaxFaults /\ faults' = faults + 1
      /\ UNCHANGED <<prog, call, exitFlag, handlerVars, cmd, status, seqs, up, down, radarVars, reset>>
  <2>1. At("alloc") /\ UNCHANGED <<cmd, status, seqs, up, down, radarVars, reset>>
    BY DEF Alloc
  <2>2. \/ Goto(Tail(todo)) /\ UNCHANGED faults
        \/ Goto(Do("exit")) /\ faults < MaxFaults /\ faults' = faults + 1
    BY DEF Alloc
  <2>3. \A steps : Goto(steps) => todo' = steps /\ UNCHANGED <<prog, call, exitFlag, handlerVars>>
    BY DEF Goto
  <2> QED
    BY <2>1, <2>2, <2>3 DEF At
<1>2. Resting
  BY <1>1 DEF Resting, Pauses
<1>3. /\ Types /\ down = <<>> /\ (radar # "ended" => radar = "hear" /\ up = <<>>)
      /\ todo \in Seq(AStep) /\ Shape(todo)
  BY <1>1, <1>2, AtPause
<1>4. Good(todo')
  <2>1. Good(Tail(todo))
    BY <1>1, <1>3, GoodTail DEF Closes
  <2> QED
    BY <1>1, <2>1, GoodSteps
<1>5. Types'
  <2>1. todo' \in Seq(AStep)
    BY <1>4 DEF Good
  <2>2. faults' \in 0..MaxFaults
    BY <1>1, <1>3, LinkAssumption DEF Types
  <2> QED
    BY <1>1, <1>3, <2>1, <2>2 DEF Types, radarVars, handlerVars
<1> QED
  BY <1>1, <1>3, <1>4, <1>5, PauseKeeps DEF handlerVars, radarVars

LEMMA CheckKeeps == ASSUME Inv, Check PROVE Inv'
<1>1. /\ prog = "run" /\ todo # <<>> /\ Head(todo).op \in {"check", "exit"}
      /\ UNCHANGED <<down, radarVars, reset, faults>>
      /\ \/ Quit({}) /\ UNCHANGED <<cancelCount, signals>>
         \/ todo' = Tail(todo) /\ UNCHANGED <<prog, call, exitFlag, handlerVars, cmd, status, seqs, up>>
  BY DEF Check, At, Goto
<1>2. CASE Quit({}) /\ UNCHANGED <<cancelCount, signals>>
  BY <1>1, <1>2, QuitsFrom
<1>3. CASE todo' = Tail(todo) /\ UNCHANGED <<prog, call, exitFlag, handlerVars, cmd, status, seqs, up>>
  <2>1. Resting
    BY <1>1 DEF Resting, Pauses
  <2>2. /\ Types /\ down = <<>> /\ (radar # "ended" => radar = "hear" /\ up = <<>>)
        /\ todo \in Seq(AStep) /\ Shape(todo)
    BY <1>1, <2>1, AtPause
  <2>3. Good(todo')
    BY <1>1, <1>3, <2>2, GoodTail DEF Closes
  <2>4. Types'
    BY <1>1, <1>3, <2>2, <2>3 DEF Good, Types, radarVars, handlerVars
  <2> QED
    BY <1>1, <1>3, <2>2, <2>3, <2>4, PauseKeeps DEF handlerVars, radarVars
<1> QED
  BY <1>1, <1>2, <1>3

LEMMA ContinueKeeps == ASSUME Inv, Continue PROVE Inv'
<1>1. /\ prog = "run" /\ todo = <<>>
      /\ \/ \E next \in After[call] : call' = next /\ todo' = Steps[next]
         \/ todo' = Ping /\ UNCHANGED call
      /\ UNCHANGED <<prog, cmd, status, seqs, exitFlag, handlerVars, up, down, radarVars, reset, faults>>
  BY DEF Continue
<1>2. Resting
  BY <1>1 DEF Resting
<1>3. Types /\ down = <<>> /\ (radar # "ended" => radar = "hear" /\ up = <<>>)
  BY <1>1, <1>2, AtPause
<1>4. Good(todo') /\ call' \in Calls
  <2>1. ASSUME NEW next \in After[call] PROVE next \in Calls
    BY <1>3, <2>1 DEF Types, After, Calls
  <2>2. call \in Calls
    BY <1>3 DEF Types
  <2> QED
    BY <1>1, <2>1, <2>2, GoodSteps
<1>5. Types'
  BY <1>1, <1>3, <1>4 DEF Good, Types, radarVars, handlerVars
<1> QED
  BY <1>1, <1>3, <1>4, <1>5, PauseKeeps DEF handlerVars, radarVars

(* A command begins where nothing is under way.                            *)
LEMMA SendKeeps == ASSUME Inv, SendCommand PROVE Inv'
<1>1. /\ prog = "run" /\ todo # <<>> /\ Head(todo).op = "send" /\ At("send") /\ Sends(Msg(Head(todo).cmd, 0))
      /\ UNCHANGED <<down, radarVars, reset, faults>>
  BY DEF SendCommand, At, Sends
<1>2. CASE reset
  <2>1. {"SIGPIPE"} \in SUBSET Signals /\ Quit({"SIGPIPE"}) /\ UNCHANGED <<cancelCount, signals>>
    BY <1>1, <1>2 DEF Sends, Signals
  <2> QED
    BY <1>1, <2>1, QuitsFrom
<1>3. CASE ~reset
  <2> DEFINE c == Head(todo).cmd
             w == Work(c) \o Do("answer")
  <2>1. /\ todo' = Tail(todo) /\ cmd' = c /\ UNCHANGED <<prog, call, exitFlag, handlerVars, status, seqs>>
        /\ up' = IF radar = "ended" THEN Msg("none", 0) ELSE up \o Msg(c, 0)
    BY <1>1, <1>3 DEF Sends, Goto, Send
  <2>2. Resting
    BY <1>1 DEF Resting, Pauses
  <2>3. /\ Types /\ RunInv /\ down = <<>> /\ (radar # "ended" => radar = "hear" /\ up = <<>>)
        /\ todo \in Seq(AStep) /\ Shape(todo)
    BY <1>1, <2>2, AtPause
  <2>4. /\ todo[1] = Head(todo) /\ 1 \in 1..Len(todo) /\ todo[1] \in AStep /\ Tail(todo) \in Seq(AStep)
        /\ Len(todo) \in Nat \ {0} /\ Len(Tail(todo)) = Len(todo) - 1
        /\ \A q \in 1..(Len(todo) - 1) : Tail(todo)[q] = todo[q + 1] /\ q + 1 \in 1..Len(todo)
    BY <1>1, <2>3, TailStep
  <2>5. c \in Commands /\ c \notin {"QUIT", "none"} /\ Conforms(todo, 1, w)
    BY <1>1, <2>3, <2>4 DEF Shape, AStep
  <2>6. Task(w) /\ Len(w) \in Nat
    BY WorkTask DEF Task
  <2> HIDE DEF w, c
  <2>7. /\ Len(w) <= Len(Tail(todo))
        /\ \A q \in 1..Len(w) : /\ Matches(Tail(todo)[q], w[q])
                                /\ Tail(todo)[q].op \in {"put", "get"} => Tail(todo)[q].n > 0
    <3>1. 1 + Len(w) <= Len(todo)
      BY <2>5 DEF Conforms
    <3>2. ASSUME NEW q \in 1..Len(w)
          PROVE  /\ Matches(Tail(todo)[q], w[q])
                 /\ Tail(todo)[q].op \in {"put", "get"} => Tail(todo)[q].n > 0
      <4>1. q \in 1..(Len(todo) - 1) /\ q + 1 = 1 + q
        BY <2>4, <2>6, <3>1
      <4>2. Tail(todo)[q] = todo[1 + q] /\ 1 + q \in 1..Len(todo)
        BY <2>4, <4>1
      <4> QED
        BY <2>3, <2>5, <4>2 DEF Shape, Conforms
    <3> QED
      BY <2>4, <2>6, <3>1, <3>2
  <2>8. seqs \in Nat /\ nave \in Nat
    BY <2>3, SeqFacts
  <2>9. Converse(Tail(todo), seqs, Get(2) \o w, nave, c, 2, <<>>)
    BY <2>4, <2>6, <2>7, <2>8, ConverseStart
  <2>10. /\ Msg(c, 0) \in Seq(AUnit) /\ Len(Msg(c, 0)) = 2 /\ Msg("none", 0) \in Seq(AUnit)
         /\ IsHalf(Msg(c, 0)[2], 0, c)
    <3>1. c \in Commands \cup {"none"} /\ "none" \in Commands \cup {"none"} /\ 0 \in {0, 1} /\ 2 \in 1..2 /\ 2 - 2 = 0
      BY <2>5
    <3>2. /\ Msg(c, 0) \in Seq(AUnit) /\ Len(Msg(c, 0)) = 2
          /\ \A i \in 1..2 : IsHalf(Msg(c, 0)[i], 2 - i, c) /\ Msg(c, 0)[i].n = 0
      BY ONLY <3>1, MessageUnits
    <3>3. Msg("none", 0) \in Seq(AUnit)
      BY MessageUnits
    <3> QED
      BY <3>1, <3>2, <3>3
  <2>11. radar # "ended" => up' = Msg(c, 0) /\ up' # <<>>
    <3>1. radar # "ended" => up' = Msg(c, 0)
      BY <2>1, <2>3, <2>10, MoreUnits
    <3> QED
      BY <2>10, <3>1
  <2>12. Types'
    <3>1. up' \in Seq(AUnit)
      BY <2>1, <2>10, <2>11
    <3> QED
      BY <1>1, <2>1, <2>3, <2>4, <2>5, <3>1 DEF Types, radarVars, handlerVars
  <2>13. RadarInv /\ RadarInv' /\ cancelCount' <= signals'
    <3>1. RadarInv /\ cancelCount <= signals
      BY Parts
    <3> QED
      BY <1>1, <2>1, <3>1 DEF RadarInv, radarVars, handlerVars
  <2>14. QuitInv'
    BY <1>1, <2>1 DEF QuitInv
  <2>15. ~Resting'
    <3>1. Get(2) \o w \in Seq(AStep)
      <4>1. w \in Seq(AStep)
        BY <2>6, RadarStep DEF Task
      <4> QED
        BY <2>6, <4>1, Heralded
    <3>2. Tail(todo) # <<>> /\ Head(Tail(todo)).op \notin Pauses
      BY <2>4, <2>8, <2>9, <3>1, ConverseBusy
    <3> QED
      BY <2>1, <3>2 DEF Resting
  <2>16. RunInv'
    <3>1. Shape(todo')
      BY <1>1, <2>1, <2>3, ShapeTail
    <3>2. cmd' # "QUIT"
      BY <2>1, <2>5
    <3>3. CASE radar = "ended"
      BY <1>1, <2>3, <2>15, <3>1, <3>2, <3>3 DEF RunInv, radarVars
    <3>4. CASE radar # "ended"
      <4>1. RadarSteps' = Get(2) \o w
        BY <1>1, <2>1, <2>3, <2>11, <3>4 DEF RadarSteps, radarVars, w
      <4>2. radar' = "hear" /\ nave' = nave /\ down' = <<>> /\ seqs' = seqs /\ cmd' = c /\ todo' = Tail(todo)
        BY <1>1, <2>1, <2>3, <3>4 DEF radarVars
      <4>3. Len(up') = 2 /\ up' # <<>> /\ Heard(up', c)
        BY <2>10, <2>11, <3>4 DEF Heard, IsHalf, Half
      <4>4. Converse(todo', seqs', RadarSteps', nave', cmd', Len(up'), down')
        BY <2>9, <4>1, <4>2, <4>3
      <4> QED
        BY <2>15, <3>1, <3>2, <4>2, <4>3, <4>4 DEF RunInv
    <3> QED
      BY <3>3, <3>4
  <2> QED
    BY <2>12, <2>13, <2>14, <2>16, Parts
<1> QED
  BY <1>2, <1>3

(***************************************************************************)
(* The radar's steps.                                                      *)
(***************************************************************************)
LEMMA RadarKeeps ==
  ASSUME Inv, Types', RadarInv', QuitInv', UNCHANGED progVars, radar' # "ended",
         prog = "run" => /\ ~Resting /\ Converse(todo, seqs, RadarSteps', nave', cmd, Len(up'), down')
                         /\ radar' = "work" => served' = cmd
                         /\ radar' = "hear" => up' = <<>>
  PROVE  Inv'
<1>1. RunInv /\ cancelCount <= signals
  BY Parts
<1>2. /\ prog' = prog /\ todo' = todo /\ seqs' = seqs /\ cmd' = cmd
      /\ cancelCount' = cancelCount /\ signals' = signals /\ (Resting' <=> Resting)
  BY DEF progVars, handlerVars, Resting
<1>3. RunInv'
  BY <1>1, <1>2 DEF RunInv
<1> QED
  BY <1>1, <1>2, <1>3, Parts

(* While it works, or a command is on the way, the program is in it.       *)
LEMMA AtWork ==
  ASSUME Inv, radar = "work" \/ (radar = "hear" /\ up # <<>>)
  PROVE  /\ Types /\ RadarInv /\ RadarSteps \in Seq(AStep) /\ up \in Seq(AUnit) /\ down \in Seq(AUnit)
         /\ seqs \in Nat /\ nave \in Nat /\ Len(up) \in Nat /\ (Len(up) = 0 => up = <<>>)
         /\ prog = "run" => /\ ~Resting /\ Converse(todo, seqs, RadarSteps, nave, cmd, Len(up), down)
                            /\ radar = "work" => served = cmd
                            /\ radar = "hear" => Heard(up, cmd)
         /\ radar = "work" => /\ RadarSteps = work /\ work # <<>> /\ work[1] = Head(work) /\ work[1] \in RStep
                              /\ work \in Seq(RStep) /\ Tail(work) \in Seq(RStep) /\ 1 \in 1..Len(work)
                              /\ work[1].n \in Nat
<1>1. Types /\ RadarInv /\ RunInv
  BY Parts
<1>2. /\ RadarSteps \in Seq(AStep) /\ up \in Seq(AUnit) /\ down \in Seq(AUnit)
      /\ seqs \in Nat /\ nave \in Nat /\ Len(up) \in Nat /\ (Len(up) = 0 => up = <<>>)
      /\ work # <<>> => work[1] = Head(work) /\ work[1] \in RStep /\ Tail(work) \in Seq(RStep) /\ 1 \in 1..Len(work)
  BY <1>1, SeqFacts DEF Types
<1>3. ASSUME prog = "run" PROVE ~Resting
  BY <1>1, <1>3 DEF RunInv
<1>4. ASSUME prog = "run"
      PROVE  /\ Converse(todo, seqs, RadarSteps, nave, cmd, Len(up), down)
             /\ radar = "work" => served = cmd
             /\ radar = "hear" => Heard(up, cmd)
  BY <1>1, <1>3, <1>4 DEF RunInv
<1>5. radar = "work" => RadarSteps = work /\ work # <<>> /\ work \in Seq(RStep)
  BY <1>1 DEF RadarSteps, RadarInv, Types
<1>6. work # <<>> => work[1].n \in Nat
  BY <1>2 DEF RStep
<1> QED
  BY <1>1, <1>2, <1>3, <1>4, <1>5, <1>6

(* The rest of the work still ends with the answer.                        *)
LEMMA WorkTail ==
  ASSUME NEW w \in Seq(RStep), w # <<>>, \A i \in 1..Len(w) : w[i].op = "answer" <=> i = Len(w),
         w[1].op # "answer"
  PROVE  Tail(w) # <<>> /\ \A i \in 1..Len(Tail(w)) : Tail(w)[i].op = "answer" <=> i = Len(Tail(w))
<1> DEFINE x == Tail(w)
<1>1. /\ x \in Seq(RStep) /\ Len(w) \in Nat \ {0} /\ Len(x) = Len(w) - 1 /\ 1 \in 1..Len(w)
      /\ \A q \in 1..(Len(w) - 1) : x[q] = w[q + 1] /\ q + 1 \in 1..Len(w)
  BY TailStep
<1> HIDE DEF x
<1>2. Len(w) # 1
  BY <1>1
<1>3. x # <<>>
  BY <1>1, <1>2
<1>4. ASSUME NEW i \in 1..Len(x) PROVE x[i].op = "answer" <=> i = Len(x)
  <2>1. i \in 1..(Len(w) - 1) /\ i \in Nat /\ Len(x) \in Nat
    BY <1>1
  <2>2. x[i] = w[i + 1] /\ i + 1 \in 1..Len(w)
    BY <1>1, <2>1
  <2>3. x[i].op = "answer" <=> i + 1 = Len(w)
    BY <2>2
  <2>4. i + 1 = Len(w) <=> i = Len(x)
    BY <1>1, <2>1
  <2> QED
    BY <2>3, <2>4
<1> QED
  BY <1>3, <1>4 DEF x

LEMMA WorkTurn ==
  ASSUME NEW w \in Seq(RStep), w # <<>>, \A i \in 1..Len(w) : w[i].op = "answer" <=> i = Len(w)
  PROVE  /\ Round \o w \in Seq(RStep) /\ Round \o w # <<>>
         /\ \A i \in 1..Len(Round \o w) : (Round \o w)[i].op = "answer" <=> i = Len(Round \o w)
<1> DEFINE x == Round \o w
<1>1. Round \in Seq(RStep) /\ Len(Round) = 5 /\ \A i \in 1..5 : Round[i].op \in {"put", "get"}
  BY TurnSteps
<1>2. /\ x \in Seq(RStep) /\ Len(w) \in Nat /\ Len(x) = 5 + Len(w)
      /\ \A i \in 1..(5 + Len(w)) : x[i] = IF i <= 5 THEN Round[i] ELSE w[i - 5]
  <2>1. Round \in Seq(RStep)
    BY <1>1
  <2>2. /\ x \in Seq(RStep) /\ Len(w) \in Nat /\ Len(x) = Len(Round) + Len(w)
        /\ \A i \in 1..(Len(Round) + Len(w)) : x[i] = IF i <= Len(Round) THEN Round[i] ELSE w[i - Len(Round)]
    BY <2>1, Joined
  <2> HIDE DEF x
  <2> QED
    BY <1>1, <2>2
<1>3. Len(w) > 0
  BY <1>2
<1> HIDE DEF x
<1>4. ASSUME NEW i \in 1..Len(x) PROVE x[i].op = "answer" <=> i = Len(x)
  <2>1. CASE i <= 5
    <3>1. i \in 1..5 /\ x[i] = Round[i] /\ i # Len(x)
      BY <1>2, <1>3, <2>1
    <3> QED
      BY <1>1, <3>1
  <2>2. CASE ~(i <= 5)
    <3>1. x[i] = w[i - 5] /\ i - 5 \in 1..Len(w) /\ (i = Len(x) <=> i - 5 = Len(w))
      BY <1>2, <2>2
    <3> QED
      BY <3>1
  <2> QED
    BY <2>1, <2>2
<1>5. x # <<>>
  BY <1>2, <1>3
<1> QED
  BY <1>2, <1>4, <1>5 DEF x

LEMMA HeraldTail == ASSUME NEW w \in Seq(AStep) PROVE Tail(Get(2) \o w) = w
<1> DEFINE g == Get(2) \o w
           x == Tail(g)
<1>1. /\ g \in Seq(AStep) /\ Len(g) = Len(w) + 1 /\ Len(w) \in Nat
      /\ \A q \in 1..Len(w) : g[q + 1] = w[q]
  <2>1. Len(w) \in Nat
    OBVIOUS
  <2> QED
    BY <2>1, Heralded
<1> HIDE DEF g
<1>2. g # <<>>
  BY <1>1
<1>3. x \in Seq(AStep) /\ Len(x) = Len(g) - 1 /\ \A q \in 1..(Len(g) - 1) : x[q] = g[q + 1]
  BY <1>1, <1>2, TailStep
<1> HIDE DEF x
<1>4. Len(x) = Len(w) /\ \A q \in 1..Len(x) : x[q] = w[q]
  BY <1>1, <1>3
<1>5. x = w
  BY <1>3, <1>4, SeqEqual
<1> QED
  BY <1>5 DEF x, g

LEMMA HearKeeps == ASSUME Inv, Hear PROVE Inv'
<1>1. PICK c \in IF up[2].kind = "type" THEN {up[2].cmd} ELSE Commands :
        served' = c /\ work' = Work(c) \o Do("answer")
  BY DEF Hear
<1> DEFINE w == Work(c) \o Do("answer")
<1>2. /\ radar = "hear" /\ Len(up) >= 2 /\ up' = Later(up, 2) /\ work' = w /\ radar' = "work"
      /\ UNCHANGED <<progVars, down, nave, reset, faults>>
  BY <1>1 DEF Hear, Takes, Later
<1>3. Task(w) /\ w \in Seq(RStep) /\ w \in Seq(AStep) /\ w # <<>>
  <2>1. Task(w) /\ w \in Seq(RStep) /\ Len(w) # 0
    BY WorkTask DEF Task
  <2> QED
    BY <2>1, RadarStep
<1> HIDE DEF w
<1>4. Types /\ RadarInv /\ QuitInv
  BY Parts
<1>5. up # <<>> /\ up[2] \in AUnit /\ 1 \in 1..Len(up) /\ Len(up) > 0
  BY <1>2, <1>4 DEF Types
<1>6. Later(up, 2) \in Seq(AUnit) /\ Len(Later(up, 2)) = Len(up) - 2
  BY <1>2, <1>4, LaterPart DEF Types
<1>7. Types'
  <2>1. c \in Commands \cup {"none"}
    BY <1>1, <1>5 DEF AUnit
  <2> QED
    BY <1>1, <1>2, <1>3, <1>4, <1>6, <2>1 DEF Types, progVars, handlerVars
<1>8. RadarInv'
  BY <1>2, <1>3, <1>4 DEF RadarInv, Task
<1>9. QuitInv'
  <2>1. SUFFICES ASSUME prog = "quit", cmd = "QUIT"
                 PROVE  Quits(down) /\ Quits(up') /\ served' = "QUIT" /\ work' = Do("answer")
    BY <1>2 DEF QuitInv, progVars
  <2>2. Quits(down) /\ Quits(up)
    BY <1>2, <1>4, <2>1 DEF QuitInv
  <2>3. c = "QUIT" /\ Quits(Later(up, 2))
    <3>1. up[2].kind = "type" /\ up[2].cmd = "QUIT" /\ Quits(Later(up, 2))
      BY <1>4, <1>5, <2>2, QuitsFirst DEF Types
    <3> QED
      BY <1>1, <3>1
  <2>4. w = Do("answer")
    <3>1. Work("QUIT") = <<>>
      BY DEF Work
    <3>2. Do("answer") \in Seq(RStep)
      BY SomeSteps DEF Do
    <3> QED
      BY <2>3, <3>1, <3>2 DEF w
  <2> QED
    BY <1>1, <1>2, <2>2, <2>3, <2>4
<1>10. ASSUME prog = "run"
       PROVE  /\ ~Resting /\ Converse(todo, seqs, RadarSteps', nave', cmd, Len(up'), down')
              /\ served' = cmd
  <2>1. /\ ~Resting /\ Converse(todo, seqs, RadarSteps, nave, cmd, Len(up), down)
        /\ Heard(up, cmd) /\ RadarSteps \in Seq(AStep)
        /\ seqs \in Nat /\ nave \in Nat /\ Len(up) \in Nat
    BY <1>2, <1>5, <1>10, AtWork
  <2>2. c = cmd
    BY <1>1, <2>1 DEF Heard
  <2> DEFINE g == Get(2) \o w
  <2>3. RadarSteps = g
    BY <1>2, <1>5, <2>2 DEF RadarSteps, w
  <2>4. g[1] = Step("get", "none", 2) /\ Tail(g) = w /\ Len(g) = Len(w) + 1 /\ Len(w) \in Nat
    <3>1. Len(w) \in Nat
      BY <1>3
    <3> QED
      BY <1>3, <3>1, Heralded, HeraldTail
  <2> HIDE DEF g
  <2>5. g # <<>> /\ g[1].op = "get" /\ g[1].n = 2 /\ g \in Seq(AStep)
    BY <2>1, <2>3, <2>4 DEF Step
  <2>6. Converse(todo, seqs, w, nave, cmd, Len(up) - 2, down)
    <3>1. Converse(todo, seqs, g, nave, cmd, Len(up), down) /\ Len(up) >= g[1].n
      BY <1>2, <2>1, <2>3, <2>5
    <3>2. Converse(todo, seqs, Tail(g), nave, cmd, Len(up) - g[1].n, down)
      BY <2>1, <2>5, <3>1, ConverseTake
    <3> QED
      BY <2>4, <2>5, <3>2
  <2>7. RadarSteps' = w
    BY <1>2 DEF RadarSteps
  <2> QED
    BY <1>1, <1>2, <1>6, <2>1, <2>2, <2>6, <2>7
<1> QED
  BY <1>2, <1>7, <1>8, <1>9, <1>10, RadarKeeps

LEMMA HearEndKeeps == ASSUME Inv, HearEnd PROVE Inv'
<1>1. Types /\ RadarInv /\ RunInv /\ QuitInv /\ cancelCount <= signals
  BY Parts
<1>2. /\ prog = "ended" /\ up' = <<>> /\ radar' = "ended" /\ radar = "hear"
      /\ UNCHANGED <<progVars, down, work, served, nave, reset, faults>>
  BY DEF HearEnd, Short
<1>3. Types' /\ cancelCount' <= signals'
  BY <1>1, <1>2 DEF Types, progVars, handlerVars
<1>4. RadarInv' /\ QuitInv' /\ RunInv'
  BY <1>1, <1>2 DEF RadarInv, QuitInv, RunInv, progVars, handlerVars
<1> QED
  BY <1>3, <1>4, Parts

LEMMA RadarGetKeeps == ASSUME Inv, RadarGet PROVE Inv'
<1>1. /\ radar = "work" /\ Head(work).op = "get" /\ work' = Tail(work)
      /\ \/ Len(up) >= Head(work).n /\ up' = Later(up, Head(work).n)
         \/ prog = "ended" /\ up' = <<>>
      /\ UNCHANGED <<progVars, down, radar, served, nave, reset, faults>>
  BY DEF RadarGet, RadarAt, Takes, Short, Later
<1>2. /\ Types /\ RadarInv /\ RadarSteps \in Seq(AStep) /\ up \in Seq(AUnit)
      /\ seqs \in Nat /\ nave \in Nat /\ Len(up) \in Nat
      /\ prog = "run" => ~Resting /\ Converse(todo, seqs, RadarSteps, nave, cmd, Len(up), down) /\ served = cmd
      /\ RadarSteps = work /\ work # <<>> /\ work[1] = Head(work)
      /\ work \in Seq(RStep) /\ Tail(work) \in Seq(RStep) /\ 1 \in 1..Len(work) /\ work[1].n \in Nat
  BY <1>1, AtWork
<1>3. Len(up) >= Head(work).n =>
        Later(up, Head(work).n) \in Seq(AUnit) /\ Len(Later(up, Head(work).n)) = Len(up) - work[1].n
  BY <1>2, LaterPart
<1>4. Types'
  <2>1. up' \in Seq(AUnit)
    <3>1. <<>> \in Seq(AUnit)
      OBVIOUS
    <3> QED
      BY <1>1, <1>3, <3>1
  <2> QED
    BY <1>1, <1>2, <2>1 DEF Types, progVars, handlerVars
<1>5. RadarInv'
  <2>1. \A i \in 1..Len(work) : work[i].op = "answer" <=> i = Len(work)
    BY <1>1, <1>2 DEF RadarInv
  <2>2. Tail(work) # <<>> /\ \A i \in 1..Len(Tail(work)) : Tail(work)[i].op = "answer" <=> i = Len(Tail(work))
    BY <1>1, <1>2, <2>1, WorkTail
  <2> QED
    BY <1>1, <1>2, <2>2 DEF RadarInv
<1>6. QuitInv'
  <2>1. QuitInv /\ Do("answer")[1].op = "answer"
    BY Parts DEF Do, Step
  <2> QED
    BY <1>1, <1>2, <2>1 DEF QuitInv, progVars
<1>7. ASSUME prog = "run"
      PROVE  ~Resting /\ Converse(todo, seqs, RadarSteps', nave', cmd, Len(up'), down') /\ served' = cmd
  <2>1. Converse(todo, seqs, work, nave, cmd, Len(up), down) /\ work \in Seq(AStep)
    BY <1>2, <1>7
  <2>2. Len(up) >= work[1].n /\ up' = Later(up, work[1].n)
    BY <1>1, <1>2, <1>7
  <2>3. Converse(todo, seqs, Tail(work), nave, cmd, Len(up) - work[1].n, down)
    BY <1>1, <1>2, <2>1, <2>2, ConverseTake
  <2>4. Len(up') = Len(up) - work[1].n /\ RadarSteps' = Tail(work)
    BY <1>1, <1>2, <1>3, <2>2 DEF RadarSteps
  <2> QED
    BY <1>1, <1>2, <1>7, <2>3, <2>4
<1> QED
  BY <1>1, <1>4, <1>5, <1>6, <1>7, RadarKeeps

(* What it sends arrives where the program waits for it.                   *)
LEMMA GiveKeeps ==
  ASSUME Inv, radar = "work", Head(work).op # "answer", work' = Tail(work), radar' = "work",
         nave' \in 0..MaxSeqs, NEW units \in Seq(AUnit), Gives(units),
         UNCHANGED <<progVars, up, served, reset, faults>>,
         prog = "run" => /\ Len(up) = 0
                         /\ Converse(todo, seqs, Tail(work), nave', cmd, 0, More(down, units))
  PROVE  Inv'
<1>1. /\ Types /\ RadarInv /\ up \in Seq(AUnit) /\ down \in Seq(AUnit)
      /\ prog = "run" => ~Resting /\ served = cmd
      /\ work # <<>> /\ work[1] = Head(work)
      /\ work \in Seq(RStep) /\ Tail(work) \in Seq(RStep) /\ 1 \in 1..Len(work)
  BY AtWork
<1>2. down' = IF prog = "ended" THEN <<>> ELSE More(down, units)
  BY DEF Gives, More
<1>3. More(down, units) \in Seq(AUnit)
  BY <1>1, MoreUnits DEF More
<1>4. Types'
  <2>1. down' \in Seq(AUnit)
    <3>1. <<>> \in Seq(AUnit)
      OBVIOUS
    <3> QED
      BY <1>2, <1>3, <3>1
  <2> QED
    BY <1>1, <2>1 DEF Types, progVars, handlerVars
<1>5. RadarInv'
  <2>1. \A i \in 1..Len(work) : work[i].op = "answer" <=> i = Len(work)
    BY <1>1 DEF RadarInv
  <2>2. Tail(work) # <<>> /\ \A i \in 1..Len(Tail(work)) : Tail(work)[i].op = "answer" <=> i = Len(Tail(work))
    BY <1>1, <2>1, WorkTail
  <2> QED
    BY <1>1, <2>2 DEF RadarInv
<1>6. QuitInv'
  <2>1. QuitInv /\ Do("answer")[1].op = "answer"
    BY Parts DEF Do, Step
  <2> QED
    BY <1>1, <2>1 DEF QuitInv, progVars
<1>7. ASSUME prog = "run"
      PROVE  ~Resting /\ Converse(todo, seqs, RadarSteps', nave', cmd, Len(up'), down') /\ served' = cmd
  <2>1. RadarSteps' = Tail(work)
    BY DEF RadarSteps
  <2>2. down' = More(down, units) /\ Len(up') = 0
    BY <1>2, <1>7
  <2> QED
    BY <1>1, <1>7, <2>1, <2>2
<1> QED
  BY <1>4, <1>5, <1>6, <1>7, RadarKeeps

LEMMA RadarPutKeeps == ASSUME Inv, RadarPut PROVE Inv'
<1> DEFINE units == Piece(Head(work).n, 0)
<1>1. /\ radar = "work" /\ Head(work).op = "put" /\ work' = Tail(work) /\ radar' = "work" /\ nave' = nave
      /\ Gives(units) /\ UNCHANGED <<progVars, up, served, reset, faults>>
  BY DEF RadarPut, RadarAt
<1>2. /\ Types /\ RadarSteps \in Seq(AStep) /\ down \in Seq(AUnit) /\ seqs \in Nat /\ nave \in Nat /\ Len(up) \in Nat
      /\ prog = "run" => ~Resting /\ Converse(todo, seqs, RadarSteps, nave, cmd, Len(up), down) /\ served = cmd
      /\ RadarSteps = work /\ work # <<>> /\ work[1] = Head(work) /\ work[1].n \in Nat
  BY <1>1, AtWork
<1>3. /\ units \in Seq(AUnit) /\ Len(units) = work[1].n
      /\ \A i \in 1..Len(units) : units[i].kind = "piece"
  <2>1. work[1].n \in Nat /\ 0 \in Nat
    BY <1>2
  <2>2. /\ Piece(work[1].n, 0) \in Seq(AUnit) /\ Len(Piece(work[1].n, 0)) = work[1].n
        /\ \A i \in 1..work[1].n : Piece(work[1].n, 0)[i].kind = "piece" /\ Piece(work[1].n, 0)[i].n = 0
    BY <2>1, PieceUnits
  <2> QED
    BY <1>2, <2>2
<1> HIDE DEF units
<1>4. Gift(work[1], cmd, 0, units)
  BY <1>1, <1>2, <1>3 DEF Gift, Size
<1>5. ASSUME prog = "run"
      PROVE  Len(up) = 0 /\ Converse(todo, seqs, Tail(work), nave', cmd, 0, More(down, units))
  <2>1. Converse(todo, seqs, work, nave, cmd, Len(up), down) /\ work \in Seq(AStep) /\ work[1].op = "put"
    BY <1>1, <1>2, <1>5
  <2>2. /\ Len(up) = 0
        /\ \A gift : Gift(work[1], cmd, 0, gift) => Converse(todo, seqs, Tail(work), nave, cmd, 0, More(down, gift))
    BY <1>2, <2>1, ConverseGive
  <2> QED
    BY <1>1, <1>4, <2>2
<1>6. nave' \in 0..MaxSeqs
  BY <1>1, <1>2 DEF Types
<1> QED
  BY <1>1, <1>3, <1>5, <1>6, GiveKeeps

LEMMA RadarCountKeeps == ASSUME Inv, RadarCount PROVE Inv'
<1> DEFINE units == Piece(1, nave')
<1>1. /\ radar = "work" /\ Head(work).op = "count" /\ work' = Tail(work) /\ radar' = "work" /\ nave' \in 0..MaxSeqs
      /\ Gives(units) /\ UNCHANGED <<progVars, up, served, reset, faults>>
  BY DEF RadarCount, RadarAt
<1>2. /\ Types /\ RadarSteps \in Seq(AStep) /\ down \in Seq(AUnit) /\ seqs \in Nat /\ nave \in Nat /\ Len(up) \in Nat
      /\ prog = "run" => ~Resting /\ Converse(todo, seqs, RadarSteps, nave, cmd, Len(up), down) /\ served = cmd
      /\ RadarSteps = work /\ work # <<>> /\ work[1] = Head(work)
  BY <1>1, AtWork
<1>3. /\ units \in Seq(AUnit) /\ Len(units) = 1
      /\ \A i \in 1..1 : units[i].kind = "piece" /\ units[i].n = nave'
  <2>1. nave' \in Nat /\ 1 \in Nat
    BY <1>1, LinkAssumption
  <2> QED
    BY <2>1, PieceUnits
<1> HIDE DEF units
<1>4. Gift(work[1], cmd, nave', units)
  <2>1. Len(units) = 1 /\ 1 \in 1..1 /\ Size(work[1]) = 1 /\ work[1].op = "count"
    BY <1>1, <1>2, <1>3 DEF Size
  <2> QED
    BY <1>3, <2>1 DEF Gift
<1>5. ASSUME prog = "run"
      PROVE  Len(up) = 0 /\ Converse(todo, seqs, Tail(work), nave', cmd, 0, More(down, units))
  <2>1. Converse(todo, seqs, work, nave, cmd, Len(up), down) /\ work \in Seq(AStep) /\ work[1].op = "count"
    BY <1>1, <1>2, <1>5
  <2>2. /\ Len(up) = 0
        /\ \A m \in 0..MaxSeqs : \A gift : Gift(work[1], cmd, m, gift) =>
             Converse(todo, seqs, Tail(work), m, cmd, 0, More(down, gift))
    BY <1>2, <2>1, ConverseNumber
  <2> QED
    BY <1>1, <1>4, <2>2
<1> QED
  BY <1>1, <1>3, <1>5, GiveKeeps

LEMMA RadarLoopKeeps == ASSUME Inv, RadarLoop PROVE Inv'
<1>1. /\ radar = "work" /\ Head(work).op = "loop" /\ radar' = "work"
      /\ \/ nave > 0 /\ nave' = nave - 1 /\ work' = Round \o work
         \/ ~(nave > 0) /\ nave' = nave /\ work' = Tail(work)
      /\ UNCHANGED <<progVars, up, down, served, reset, faults>>
  BY DEF RadarLoop, RadarAt
<1>2. /\ Types /\ RadarInv /\ RadarSteps \in Seq(AStep) /\ seqs \in Nat /\ nave \in Nat /\ Len(up) \in Nat
      /\ prog = "run" => ~Resting /\ Converse(todo, seqs, RadarSteps, nave, cmd, Len(up), down) /\ served = cmd
      /\ RadarSteps = work /\ work # <<>> /\ work[1] = Head(work)
      /\ work \in Seq(RStep) /\ Tail(work) \in Seq(RStep) /\ 1 \in 1..Len(work)
  BY <1>1, AtWork
<1>3. \A i \in 1..Len(work) : work[i].op = "answer" <=> i = Len(work)
  BY <1>1, <1>2 DEF RadarInv
<1>4. /\ Tail(work) # <<>> /\ \A i \in 1..Len(Tail(work)) : Tail(work)[i].op = "answer" <=> i = Len(Tail(work))
      /\ Round \o work \in Seq(RStep) /\ Round \o work # <<>>
      /\ \A i \in 1..Len(Round \o work) : (Round \o work)[i].op = "answer" <=> i = Len(Round \o work)
  BY <1>1, <1>2, <1>3, WorkTail, WorkTurn
<1>5. Types'
  <2>1. work' \in Seq(RStep)
    BY <1>1, <1>2, <1>4
  <2>2. nave' \in 0..MaxSeqs
    <3>1. nave \in 0..MaxSeqs
      BY <1>2 DEF Types
    <3> QED
      BY <1>1, <1>2, <3>1, LinkAssumption
  <2> QED
    BY <1>1, <1>2, <2>1, <2>2 DEF Types, progVars, handlerVars
<1>6. RadarInv'
  <2>1. work' # <<>> /\ \A i \in 1..Len(work') : work'[i].op = "answer" <=> i = Len(work')
    BY <1>1, <1>4
  <2> QED
    BY <1>1, <1>2, <2>1 DEF RadarInv
<1>7. QuitInv'
  <2>1. QuitInv /\ Do("answer")[1].op = "answer"
    BY Parts DEF Do, Step
  <2> QED
    BY <1>1, <1>2, <2>1 DEF QuitInv, progVars
<1>8. ASSUME prog = "run"
      PROVE  ~Resting /\ Converse(todo, seqs, RadarSteps', nave', cmd, Len(up'), down') /\ served' = cmd
  <2>1. Converse(todo, seqs, work, nave, cmd, Len(up), down) /\ work \in Seq(AStep) /\ work[1].op = "loop"
    BY <1>1, <1>2, <1>8
  <2>2. /\ nave > 0 => Converse(todo, seqs, Round \o work, nave - 1, cmd, Len(up), down)
        /\ nave = 0 => Converse(todo, seqs, Tail(work), nave, cmd, Len(up), down)
    BY <1>2, <2>1, ConverseRound
  <2>3. ~(nave > 0) => nave = 0
    BY <1>2
  <2>4. RadarSteps' = work'
    BY <1>1 DEF RadarSteps
  <2> QED
    BY <1>1, <1>2, <1>8, <2>2, <2>3, <2>4
<1> QED
  BY <1>1, <1>5, <1>6, <1>7, <1>8, RadarKeeps

LEMMA RadarAnswerKeeps == ASSUME Inv, RadarAnswer PROVE Inv'
<1>1. PICK bad \in {0, 1} : Gives(Msg(served, bad)) /\ (faults' = faults \/ (faults < MaxFaults /\ faults' = faults + 1))
  BY DEF RadarAnswer
<1> DEFINE units == Msg(served, bad)
<1>2. /\ radar = "work" /\ Head(work).op = "answer" /\ work' = <<>>
      /\ radar' = "hear" \/ (radar' = "ended" /\ prog = "ended")
      /\ UNCHANGED <<progVars, up, served, nave, reset>>
      /\ down' = IF prog = "ended" THEN <<>> ELSE More(down, units)
  BY <1>1 DEF RadarAnswer, RadarAt, Gives, More
<1>3. /\ Types /\ RadarInv /\ RadarSteps \in Seq(AStep) /\ down \in Seq(AUnit)
      /\ seqs \in Nat /\ nave \in Nat /\ Len(up) \in Nat /\ (Len(up) = 0 => up = <<>>)
      /\ prog = "run" => ~Resting /\ Converse(todo, seqs, RadarSteps, nave, cmd, Len(up), down) /\ served = cmd
      /\ RadarSteps = work /\ work # <<>> /\ work[1] = Head(work)
      /\ work \in Seq(RStep) /\ Tail(work) \in Seq(RStep) /\ 1 \in 1..Len(work)
  BY <1>2, AtWork
<1>4. Tail(work) = <<>>
  <2>1. work[1].op = "answer" <=> 1 = Len(work)
    BY <1>2, <1>3 DEF RadarInv
  <2>2. Len(work) = 1 /\ Len(Tail(work)) = Len(work) - 1
    BY <1>2, <1>3, <2>1, TailStep
  <2>3. Len(Tail(work)) = 0 /\ Tail(work) \in Seq(RStep)
    BY <1>3, <2>2
  <2>4. \A s \in Seq(RStep) : Len(s) = 0 => s = <<>>
    OBVIOUS
  <2> QED
    BY <2>3, <2>4
<1>5. served \in Commands \cup {"none"}
  BY <1>3 DEF Types
<1>6. /\ units \in Seq(AUnit) /\ Len(units) = 2
      /\ \A i \in 1..2 : IsHalf(units[i], 2 - i, served) /\ units[i].n = bad
  BY <1>5, MessageUnits
<1> HIDE DEF units
<1>7. More(down, units) \in Seq(AUnit) /\ (Quits(down) /\ Quits(units) => Quits(More(down, units)))
  BY <1>3, <1>6, MoreUnits DEF More
<1>8. Types'
  <2>1. down' \in Seq(AUnit)
    <3>1. <<>> \in Seq(AUnit)
      OBVIOUS
    <3> QED
      BY <1>2, <1>7, <3>1
  <2>2. faults' \in 0..MaxFaults
    <3>1. faults \in 0..MaxFaults
      BY <1>3 DEF Types
    <3> QED
      BY <1>1, <3>1, LinkAssumption
  <2>3. work' \in Seq(RStep)
    BY <1>2
  <2> QED
    BY <1>2, <1>3, <2>1, <2>2, <2>3 DEF Types, progVars, handlerVars
<1>9. RadarInv'
  BY <1>2, <1>3 DEF RadarInv
<1>10. QuitInv'
  <2>1. QuitInv
    BY Parts
  <2>2. served = "QUIT" => Quits(units)
    BY <1>6, QuitUnits
  <2> QED
    BY <1>2, <1>7, <2>1, <2>2 DEF QuitInv, progVars
<1>11. CASE radar' # "ended"
  <2>1. radar' = "hear"
    BY <1>2, <1>11
  <2>2. ASSUME prog = "run"
        PROVE  ~Resting /\ Converse(todo, seqs, RadarSteps', nave', cmd, Len(up'), down') /\ up' = <<>>
    <3>1. /\ Converse(todo, seqs, work, nave, cmd, Len(up), down) /\ work \in Seq(AStep) /\ work # <<>>
          /\ work[1].op = "answer" /\ down \in Seq(AUnit) /\ seqs \in Nat /\ nave \in Nat
      BY <1>2, <1>3, <2>2
    <3>2. Gift(work[1], cmd, 0, units)
      BY <1>3, <1>6, <2>2, <3>1 DEF Gift, Size
    <3>3. /\ Len(up) = 0
          /\ \A gift : Gift(work[1], cmd, 0, gift) => Converse(todo, seqs, Tail(work), nave, cmd, 0, More(down, gift))
      BY <3>1, ConverseGive
    <3>4. up' = <<>> /\ Len(up') = 0 /\ RadarSteps' = <<>>
      BY <1>2, <1>3, <3>3 DEF RadarSteps
    <3> QED
      BY <1>2, <1>3, <1>4, <2>2, <3>2, <3>3, <3>4
  <2> QED
    BY <1>2, <1>8, <1>9, <1>10, <2>1, <2>2, RadarKeeps
<1>12. CASE radar' = "ended"
  <2>1. prog' = "ended"
    BY <1>2, <1>12 DEF progVars
  <2>2. RunInv' /\ cancelCount' <= signals'
    <3>1. cancelCount <= signals
      BY Parts
    <3> QED
      BY <1>2, <2>1, <3>1 DEF RunInv, progVars, handlerVars
  <2> QED
    BY <1>8, <1>9, <1>10, <2>2, Parts
<1> QED
  BY <1>11, <1>12

LEMMA RadarLostKeeps == ASSUME Inv, RadarLost PROVE Inv'
<1>1. Types /\ RadarInv /\ RunInv /\ QuitInv /\ cancelCount <= signals
  BY Parts
<1>2. /\ radar # "ended" /\ radar' = "ended" /\ work' = <<>> /\ faults < MaxFaults /\ faults' = faults + 1
      /\ UNCHANGED <<progVars, up, down, served, nave, reset>>
  BY DEF RadarLost
<1>3. Types' /\ cancelCount' <= signals'
  <2>1. faults' \in 0..MaxFaults /\ work' \in Seq(RStep)
    BY <1>1, <1>2, LinkAssumption DEF Types
  <2> QED
    BY <1>1, <1>2, <2>1 DEF Types, progVars, handlerVars
<1>4. RadarInv' /\ QuitInv'
  BY <1>1, <1>2 DEF RadarInv, QuitInv, progVars
<1>5. RunInv'
  <2>1. UNCHANGED <<prog, todo, seqs, cmd>> /\ (Resting' <=> Resting)
    BY <1>2 DEF progVars, Resting
  <2>2. ASSUME prog = "run", ~Resting, down # <<>>
        PROVE  \E w \in Seq(AStep), v \in 0..MaxSeqs : Converse(todo, seqs, w, v, cmd, 0, down)
    <3>1. Converse(todo, seqs, RadarSteps, nave, cmd, Len(up), down)
      BY <1>1, <1>2, <2>2 DEF RunInv
    <3>2. RadarSteps \in Seq(AStep) /\ nave \in 0..MaxSeqs /\ nave \in Nat /\ seqs \in Nat /\ todo \in Seq(AStep)
      BY <1>1, SeqFacts DEF Types
    <3>3. Len(up) = 0
      BY <2>2, <3>1, <3>2, ConverseBusy
    <3> QED
      BY <3>1, <3>2, <3>3
  <2>3. prog = "run" => Shape(todo) /\ cmd # "QUIT" /\ (Resting => down = <<>>)
    BY <1>1 DEF RunInv
  <2> QED
    BY <1>2, <2>1, <2>2, <2>3 DEF RunInv
<1> QED
  BY <1>3, <1>4, <1>5, Parts

(***************************************************************************)
(* The theorems.                                                           *)
(***************************************************************************)
LEMMA InvInit == Init => Inv
<1> SUFFICES ASSUME Init PROVE Inv
  OBVIOUS
<1>1. Good(todo)
  BY GoodSteps DEF Init
<1>2. Types
  <2>1. <<>> \in Seq(AUnit) /\ <<>> \in Seq(RStep) /\ todo \in Seq(AStep)
    BY <1>1 DEF Good
  <2>2. /\ 0 \in 0..MaxSeqs /\ 0 \in 0..MaxSignals /\ 0 \in 0..MaxFaults
        /\ "SetupRadar" \in Calls
    BY LinkAssumption DEF Calls
  <2> QED
    BY <2>1, <2>2 DEF Init, Types
<1>3. Resting
  <2>1. todo # <<>> => Head(todo) = todo[1]
    BY <1>2, SeqFacts
  <2> QED
    BY <1>1, <2>1 DEF Resting, Good
<1>4. RunInv
  BY <1>1, <1>3 DEF Init, RunInv, Good
<1>5. RadarInv /\ QuitInv /\ cancelCount <= signals
  BY DEF Init, RadarInv, QuitInv
<1> QED
  BY <1>2, <1>4, <1>5, Parts

LEMMA InvStep == Inv /\ [Next]_vars => Inv'
<1> SUFFICES ASSUME Inv, [Next]_vars PROVE Inv'
  OBVIOUS
<1>1. CASE Program
  <2>1. CASE SendCommand
    BY <2>1, SendKeeps
  <2>2. CASE PutPiece
    BY <2>2, PutKeeps
  <2>3. CASE GetPiece
    BY <2>3, GetKeeps
  <2>4. CASE Count
    BY <2>4, CountKeeps
  <2>5. CASE Loop
    BY <2>5, LoopKeeps
  <2>6. CASE Answer
    BY <2>6, AnswerKeeps
  <2>7. CASE Alloc
    BY <2>7, AllocKeeps
  <2>8. CASE Check
    BY <2>8, CheckKeeps
  <2>9. CASE Continue
    BY <2>9, ContinueKeeps
  <2>10. CASE Leave
    BY <2>10, EndKeeps DEF Leave
  <2>11. CASE Test
    BY <2>11, TestKeeps
  <2> QED
    BY <1>1, <2>1, <2>2, <2>3, <2>4, <2>5, <2>6, <2>7, <2>8, <2>9, <2>10, <2>11 DEF Program
<1>2. CASE Radar
  <2>1. CASE Hear
    BY <2>1, HearKeeps
  <2>2. CASE HearEnd
    BY <2>2, HearEndKeeps
  <2>3. CASE RadarGet
    BY <2>3, RadarGetKeeps
  <2>4. CASE RadarPut
    BY <2>4, RadarPutKeeps
  <2>5. CASE RadarCount
    BY <2>5, RadarCountKeeps
  <2>6. CASE RadarLoop
    BY <2>6, RadarLoopKeeps
  <2>7. CASE RadarAnswer
    BY <2>7, RadarAnswerKeeps
  <2> QED
    BY <1>2, <2>1, <2>2, <2>3, <2>4, <2>5, <2>6, <2>7 DEF Radar
<1>3. CASE Reset
  BY <1>3, ResetKeeps
<1>4. CASE Interrupt
  BY <1>4, InterruptKeeps
<1>5. CASE Kill
  BY <1>5, EndKeeps DEF Kill
<1>6. CASE RadarLost
  BY <1>6, RadarLostKeeps
<1>7. CASE Over \/ UNCHANGED vars
  BY <1>7, StutterKeeps DEF Over
<1>8. CASE \E signal \in {"SIGUSR1", "SIGPIPE"} : Stop(signal)
  BY <1>8, StopKeeps
<1> QED
  BY <1>1, <1>2, <1>3, <1>4, <1>5, <1>6, <1>7, <1>8 DEF Next

LEMMA InvAlways == Spec => []Inv
  BY InvInit, InvStep, PTL DEF Spec

(* The fields of the state have their types, among them the number of      *)
(* sequences and the status that the program takes from the connection.    *)
THEOREM TypeCorrect == Spec => []TypeOK
<1>1. Inv => TypeOK
  BY DEF Inv
<1> QED
  BY <1>1, InvAlways, PTL

(* Whatever the answers are, and however often it is interrupted, the      *)
(* program begins a command where nothing of an earlier one is left, in    *)
(* either direction, and the radar waits for it.                           *)
THEOREM QuietCorrect == Spec => []Quiet
<1>1. Inv => Quiet
  BY Parts DEF RunInv, Resting, Pauses, Quiet
<1> QED
  BY <1>1, InvAlways, PTL

(* What the program takes for an answer is the answer to its command, what *)
(* it takes for data is data, and a QUIT that is sent between two commands *)
(* is answered as such.                                                    *)
THEOREM AnswerIsOwnCorrect == Spec => []AnswerIsOwn
<1>1. ASSUME Inv PROVE AnswerIsOwn
  <2>1. SUFFICES ASSUME down # <<>>
                 PROVE  /\ At("answer") \/ At("agreed") => Head(down).kind = "status" /\ Head(down).cmd = cmd
                        /\ At("get") \/ At("count") => Head(down).kind = "piece"
                        /\ prog = "quit" /\ cmd = "QUIT" => Head(down).kind = "status" /\ Head(down).cmd = "QUIT"
    BY DEF AnswerIsOwn
  <2>2. Types /\ RunInv /\ QuitInv
    BY <1>1, Parts
  <2>3. /\ Head(down) = down[1] /\ down \in Seq(AUnit) /\ RadarSteps \in Seq(AStep) /\ nave \in Nat
        /\ Len(up) \in Nat
    BY <2>1, <2>2, SeqFacts DEF Types
  <2>4. ASSUME prog = "run", todo # <<>>, Head(todo).op \in {"answer", "agreed", "get", "count"}
        PROVE  /\ Head(todo).op \in Endings => Head(down).kind = "status" /\ Head(down).cmd = cmd
               /\ Head(todo).op \in {"get", "count"} => Head(down).kind = "piece"
    <3>1. ~Resting /\ todo[1] = Head(todo) /\ todo \in Seq(AStep) /\ seqs \in Nat
      BY <1>1, <2>4, InMiddle
    <3>2. \E w \in Seq(AStep), v \in Nat, u \in Nat : Converse(todo, seqs, w, v, cmd, u, down)
      <4>1. CASE radar # "ended"
        BY <2>2, <2>3, <2>4, <3>1, <4>1 DEF RunInv
      <4>2. CASE radar = "ended"
        <5>1. PICK w \in Seq(AStep), v \in 0..MaxSeqs : Converse(todo, seqs, w, v, cmd, 0, down)
          BY <2>1, <2>2, <2>4, <3>1, <4>2 DEF RunInv
        <5>2. v \in Nat /\ 0 \in Nat
          BY LinkAssumption
        <5> QED
          BY <5>1, <5>2
      <4> QED
        BY <4>1, <4>2
    <3>3. PICK w \in Seq(AStep), v \in Nat, u \in Nat : Converse(todo, seqs, w, v, cmd, u, down)
      BY <3>2
    <3>4. CASE Head(todo).op \in Endings
      <4>1. down[1].kind = "status" /\ down[1].cmd = cmd
        BY <2>1, <2>3, <3>1, <3>3, <3>4, ConverseEnd
      <4> QED
        BY <2>3, <3>4, <4>1 DEF Endings
    <3>5. CASE Head(todo).op = "get"
      BY <2>1, <2>3, <3>1, <3>3, <3>5, ConverseGet DEF Endings
    <3>6. CASE Head(todo).op = "count"
      BY <2>1, <2>3, <3>1, <3>3, <3>6, ConverseCount DEF Endings
    <3> QED
      BY <2>4, <3>4, <3>5, <3>6 DEF Endings
  <2>5. prog = "quit" /\ cmd = "QUIT" => Head(down).kind = "status" /\ Head(down).cmd = "QUIT"
    <3>1. Len(down) > 0
      BY <2>1, <2>3
    <3> QED
      BY <2>2, <2>3, <3>1, QuitsFirst DEF QuitInv
  <2> QED
    BY <2>4, <2>5 DEF At, Endings
<1> QED
  BY <1>1, InvAlways, PTL
==============================================================================
