------------------------ MODULE ReaderStreamsProofs -------------------------
(***************************************************************************)
(* Proofs about the streams of the reader: the goroutines of a log query   *)
(* (QueryPipeline) for any result, limit, size of a batch, of the          *)
(* optimizer and of the answer, and a live tail (LogTail) for any lines,   *)
(* clock, limit of a poll and size of the watcher's channel.               *)
(*                                                                         *)
(* That an answer is complete is decided long before it ends, by what the  *)
(* channels hold.  While the query is served to a client that is there,    *)
(* there is a row c up to which everything has passed the limit (Flow):    *)
(* its matching rows are in the answer, the exporter, the optimizer or the *)
(* channel of the limit, each stream in order (PassedUpTo,                 *)
(* DownstreamInOrder), and what is behind c lies in the stages before the  *)
(* limit without a gap (Upstream), unless the limit is reached or a        *)
(* template failed.  A stage that ended has found its input closed         *)
(* (Chain), so that when the exporter's channel closes nothing is left on  *)
(* the way; and an error that has passed the limit cannot be lost          *)
(* (Poisoned), so that no answer with one ends well.                       *)
(*                                                                         *)
(* That a line of a tail is written at most once is not a matter of the    *)
(* handler: it follows from where the position of the poller is.           *)
(* TailIInv therefore says where the position comes from                   *)
(* (PositionIsExplained), that it has passed every line that was taken and *)
(* has no excuse (TakenIsPassed), and that such a line is in one place     *)
(* only, the message, the channel or the socket (InOnePlace).              *)
(***************************************************************************)
EXTENDS QueryPipeline, LogTail, FiniteSetTheorems, SequenceTheorems,
        WellFoundedInduction, NaturalsInduction, TLAPS

(* Induction up to a bound, from the least number that is not in S. *)
LEMMA UpTo ==
  ASSUME NEW N \in Nat, NEW S, 0 \in S, \A m \in 0..(N - 1) : m \in S => m + 1 \in S
  PROVE  \A m \in 0..N : m \in S
<1> DEFINE B == (0..N) \ S
<1> SUFFICES ASSUME B # {} PROVE FALSE
  OBVIOUS
<1>1. B \subseteq Nat
  OBVIOUS
<1>2. PICK x \in B : \A y \in B : <<y, x>> \notin OpToRel(<, Nat)
  BY <1>1, NatLessThanWellFounded, WFMin
<1>3. \A y \in B : ~(y < x)
  BY <1>1, <1>2 DEF OpToRel
<1>4. x \in 1..N /\ x - 1 \in 0..(N - 1) /\ x - 1 < x /\ (x - 1) + 1 = x
  OBVIOUS
<1>5. x - 1 \notin B
  BY <1>3, <1>4
<1>6. x - 1 \in S
  BY <1>4, <1>5
<1> QED BY <1>4, <1>6

(* A set of numbers that is not empty has a least member. *)
LEMMA MinFacts ==
  ASSUME NEW S, S \subseteq Nat, S # {}
  PROVE  Min(S) \in S /\ \A y \in S : Min(S) <= y
<1>1. PICK x \in S : \A y \in S : <<y, x>> \notin OpToRel(<, Nat)
  BY NatLessThanWellFounded, WFMin
<1>2. \A y \in S : ~(y < x)
  BY <1>1 DEF OpToRel
<1>3. \A y \in S : x <= y
  BY <1>2
<1> QED BY <1>3 DEF Min
-----------------------------------------------------------------------------
(* The entries that Keep keeps. *)

IsKept(g, s, T, m) ==
  g = [n \in 0..m |-> IF n = 0 THEN <<>>
                      ELSE IF s[n] \in T THEN Append(g[n - 1], s[n]) ELSE g[n - 1]]

(* The recursive function in Keep exists. *)
LEMMA KeptExists ==
  ASSUME NEW E, NEW s \in Seq(E), NEW T
  PROVE  \E g : IsKept(g, s, T, Len(s))
<1> DEFINE N == Len(s)
           step(n, r) == IF s[n] \in T THEN Append(r, s[n]) ELSE r
           S == {m \in 0..N : \E g : IsKept(g, s, T, m)}
<1>1. N \in Nat
  OBVIOUS
<1>2. 0 \in S
  <2> DEFINE g == [n \in 0..0 |-> <<>>]
  <2>1. IsKept(g, s, T, 0)
    BY DEF IsKept
  <2> QED BY <1>1, <2>1
<1>3. ASSUME NEW m \in 0..(N - 1), m \in S PROVE m + 1 \in S
  <2>1. PICK g : IsKept(g, s, T, m)
    BY <1>3
  <2> DEFINE h == [n \in 0..(m + 1) |-> IF n = m + 1 THEN step(m + 1, g[m]) ELSE g[n]]
  <2>2. ASSUME NEW n \in 0..(m + 1)
        PROVE  h[n] = IF n = 0 THEN <<>> ELSE step(n, h[n - 1])
    <3>1. CASE n = m + 1
      <4>1. h[n] = step(m + 1, g[m]) /\ n # 0
        BY <1>1, <3>1
      <4>2. n - 1 = m /\ h[m] = g[m]
        BY <1>1, <3>1
      <4> HIDE DEF h
      <4> QED BY <3>1, <4>1, <4>2
    <3>2. CASE n = 0
      <4>1. h[0] = g[0]
        BY <1>1
      <4>2. g[0] = <<>>
        BY <2>1 DEF IsKept
      <4> HIDE DEF h
      <4> QED BY <3>2, <4>1, <4>2
    <3>3. CASE n \in 1..m
      <4>1. h[n] = g[n] /\ h[n - 1] = g[n - 1] /\ n # 0 /\ n \in 0..m
        BY <1>1, <3>3
      <4>2. g[n] = step(n, g[n - 1])
        BY <2>1, <4>1 DEF IsKept
      <4> HIDE DEF h, step
      <4> QED BY <4>1, <4>2
    <3> QED BY <1>1, <3>1, <3>2, <3>3
  <2>3. h = [n \in 0..(m + 1) |-> h[n]]
    OBVIOUS
  <2> HIDE DEF h
  <2>4. IsKept(h, s, T, m + 1)
    BY <2>2, <2>3 DEF IsKept
  <2> QED BY <1>1, <2>4
<1>4. N \in S
  <2> HIDE DEF S
  <2>1. \A m \in 0..N : m \in S
    BY <1>1, <1>2, <1>3, UpTo
  <2> QED BY <1>1, <2>1
<1> QED BY <1>4

(* r are the entries of s up to the m-th that are in T, and q says where   *)
(* in s they are.                                                          *)
KeptAt(r, q, s, T, m) ==
  /\ q \in [1..Len(r) -> 1..m]
  /\ \A i \in 1..Len(r) : r[i] = s[q[i]] /\ s[q[i]] \in T
  /\ \A i, j \in 1..Len(r) : i < j => q[i] < q[j]
  /\ \A n \in 1..m : s[n] \in T => \E i \in 1..Len(r) : q[i] = n

(* One more entry of s. *)
LEMMA KeptAtStep ==
  ASSUME NEW E, NEW s \in Seq(E), NEW T, NEW m \in 0..(Len(s) - 1),
         NEW r \in Seq(E), NEW q, KeptAt(r, q, s, T, m)
  PROVE  LET t == IF s[m + 1] \in T THEN Append(r, s[m + 1]) ELSE r
         IN  t \in Seq(E) /\ \E u : KeptAt(t, u, s, T, m + 1)
<1>1. m \in Nat /\ m + 1 \in 1..Len(s) /\ s[m + 1] \in E
  OBVIOUS
<1>2. /\ q \in [1..Len(r) -> 1..m]
      /\ \A i \in 1..Len(r) : r[i] = s[q[i]] /\ s[q[i]] \in T
      /\ \A i, j \in 1..Len(r) : i < j => q[i] < q[j]
      /\ \A n \in 1..m : s[n] \in T => \E i \in 1..Len(r) : q[i] = n
  BY DEF KeptAt
<1>3. CASE s[m + 1] \notin T
  <2>1. q \in [1..Len(r) -> 1..(m + 1)]
    BY <1>1, <1>2
  <2>2. \A n \in 1..(m + 1) : s[n] \in T => \E i \in 1..Len(r) : q[i] = n
    BY <1>1, <1>2, <1>3
  <2>3. KeptAt(r, q, s, T, m + 1)
    BY <1>2, <2>1, <2>2 DEF KeptAt
  <2> QED BY <1>3, <2>3
<1>4. CASE s[m + 1] \in T
  <2> DEFINE L == Len(r) + 1
             t == Append(r, s[m + 1])
             u == [i \in 1..L |-> IF i = L THEN m + 1 ELSE q[i]]
  <2>1. t \in Seq(E) /\ Len(t) = L /\ t[L] = s[m + 1] /\ L \in Nat
        /\ \A i \in 1..Len(r) : t[i] = r[i]
    BY <1>1
  <2>2. u[L] = m + 1 /\ \A i \in 1..Len(r) : u[i] = q[i]
    BY <2>1
  <2>3. \A i \in 1..L : i = L \/ i \in 1..Len(r)
    BY <2>1
  <2>4. u \in [1..L -> 1..(m + 1)]
    BY <1>1, <1>2, <2>3
  <2> HIDE DEF u, t, L
  <2>5. \A i \in 1..L : t[i] = s[u[i]] /\ s[u[i]] \in T
    BY <1>2, <1>4, <2>1, <2>2, <2>3
  <2>6. ASSUME NEW i \in 1..L, NEW j \in 1..L, i < j PROVE u[i] < u[j]
    <3>1. i \in 1..Len(r) /\ u[i] = q[i] /\ q[i] \in 1..m
      BY <1>2, <2>2, <2>3, <2>6 DEF L
    <3>2. CASE j = L
      BY <1>1, <2>2, <3>1, <3>2
    <3>3. CASE j \in 1..Len(r)
      BY <1>2, <2>2, <2>6, <3>1, <3>3
    <3> QED BY <2>3, <3>2, <3>3
  <2>7. ASSUME NEW n \in 1..(m + 1), s[n] \in T PROVE \E i \in 1..L : u[i] = n
    <3>1. CASE n = m + 1
      BY <2>1, <2>2, <3>1 DEF L
    <3>2. CASE n \in 1..m
      <4>1. PICK i \in 1..Len(r) : q[i] = n
        BY <1>2, <2>7, <3>2
      <4> QED BY <2>1, <2>2, <4>1 DEF L
    <3> QED BY <1>1, <3>1, <3>2
  <2>8. KeptAt(t, u, s, T, m + 1)
    BY <2>1, <2>4, <2>5, <2>6, <2>7 DEF KeptAt
  <2> QED BY <1>4, <2>1, <2>8 DEF t
<1> QED BY <1>3, <1>4

(* Keep keeps the entries in T, each once, in their order. *)
LEMMA KeepFacts ==
  ASSUME NEW E, NEW s \in Seq(E), NEW T
  PROVE  Keep(s, T) \in Seq(E) /\ \E q : KeptAt(Keep(s, T), q, s, T, Len(s))
<1> DEFINE N == Len(s)
           g == CHOOSE h : IsKept(h, s, T, N)
           S == {m \in 0..N : g[m] \in Seq(E) /\ \E q : KeptAt(g[m], q, s, T, m)}
<1>1. N \in Nat
  OBVIOUS
<1>2. IsKept(g, s, T, N)
  BY KeptExists
<1>3. Keep(s, T) = g[N]
  BY DEF Keep, IsKept
<1> HIDE DEF g
<1>4. g[0] = <<>>
  BY <1>1, <1>2 DEF IsKept
<1>5. \A n \in 1..N : g[n] = IF s[n] \in T THEN Append(g[n - 1], s[n]) ELSE g[n - 1]
  <2> SUFFICES ASSUME NEW n \in 1..N
               PROVE  g[n] = IF s[n] \in T THEN Append(g[n - 1], s[n]) ELSE g[n - 1]
    OBVIOUS
  <2>1. n \in 0..N /\ n # 0
    BY <1>1
  <2> QED BY <1>2, <2>1 DEF IsKept
<1>6. 0 \in S
  <2> DEFINE q == [i \in 1..0 |-> 1]
  <2>1. Len(g[0]) = 0 /\ g[0] \in Seq(E)
    BY <1>4
  <2>2. KeptAt(g[0], q, s, T, 0)
    BY <2>1 DEF KeptAt
  <2> QED BY <1>1, <2>1, <2>2
<1>7. ASSUME NEW m \in 0..(N - 1), m \in S PROVE m + 1 \in S
  <2>1. PICK q : KeptAt(g[m], q, s, T, m)
    BY <1>7
  <2>2. g[m] \in Seq(E)
    BY <1>7
  <2>3. m + 1 \in 1..N /\ (m + 1) - 1 = m /\ m + 1 \in 0..N
    BY <1>1
  <2>4. g[m + 1] = IF s[m + 1] \in T THEN Append(g[m], s[m + 1]) ELSE g[m]
    BY <1>5, <2>3
  <2>5. g[m + 1] \in Seq(E) /\ \E u : KeptAt(g[m + 1], u, s, T, m + 1)
    BY <2>1, <2>2, <2>4, KeptAtStep
  <2> QED BY <2>3, <2>5
<1>8. N \in S
  <2> HIDE DEF S
  <2>1. \A m \in 0..N : m \in S
    BY <1>1, <1>6, <1>7, UpTo
  <2> QED BY <1>1, <2>1
<1> QED BY <1>3, <1>8
-----------------------------------------------------------------------------
(* The inductive invariant. *)

Entries(r) == {Row(n) : n \in 1..Len(r)} \cup {Eof, Err}
EofAt(r) == Len(r) + 1

(* What Scan makes of the n-th row of r; the last entry is the sentinel. *)
Source(r, n) ==
  IF n > Len(r) THEN Eof ELSE IF r[n].kind = "bad" THEN Err ELSE Row(n)

Kept(r, n) == n > Len(r) \/ r[n].kind # "miss"

KeptUpTo(r, c) == {n \in 1..c : Kept(r, n)}

(* b holds the entries after lo up to hi: all of them before the filter,   *)
(* the ones that are kept behind it.                                       *)
Raw(r, b, lo, hi) ==
  Len(b) = hi - lo /\ \A i \in 1..(hi - lo) : b[i] = Source(r, lo + i)

Lists(r, b, p, lo, hi) ==
  /\ p \in [1..Len(b) -> (lo + 1)..hi]
  /\ \A i, j \in 1..Len(b) : i < j => p[i] < p[j]
  /\ \A n \in (lo + 1)..hi : Kept(r, n) <=> \E i \in 1..Len(b) : p[i] = n
  /\ \A i \in 1..Len(b) : b[i] = Source(r, p[i])

Listing(r, b, lo, hi) == \E p \in [1..Len(b) -> (lo + 1)..hi] : Lists(r, b, p, lo, hi)

(* The rows in a batch and in the batches of a goroutine. *)
Seen(s) == {s[i].row : i \in {j \in DOMAIN s : s[j].kind = "row"}}
SeenIn(q) == UNION {Seen(q[i]) : i \in DOMAIN q}
HasErr(q) == \E i \in DOMAIN q : Err \in ToSet(q[i])

Before(r, A, B) == \A x \in A, y \in B : r[x].fp = r[y].fp => x < y

InOrder(r, s) ==
  \A i, j \in DOMAIN s :
    i < j /\ s[i].kind = "row" /\ s[j].kind = "row"
      /\ r[s[i].row].fp = r[s[j].row].fp => s[i].row < s[j].row

QueueInOrder(r, q) ==
  /\ \A i \in DOMAIN q : InOrder(r, q[i])
  /\ \A i, j \in DOMAIN q : i < j => Before(r, Seen(q[i]), Seen(q[j]))

Singles(q) == \A i \in DOMAIN q : Len(q[i]) = 1 /\ q[i][1].kind \in {"row", "err"}

PipelineTypes ==
  /\ rows \in Seq([fp : Streams, kind : RowKinds])
  /\ limit \in Nat /\ sent \in Nat
  /\ pos \in 0..Len(rows) /\ buf \in Seq(Entries(rows))
  /\ queue \in [Goroutines -> Seq(Seq(Entries(rows)))]
  /\ live \in [Goroutines -> {"run", "drain", "end"}]
  /\ fpMap \in Seq(Entries(rows))
  /\ body \in Seq(1..Len(rows))
  /\ Singles(queue[Exporter])

(* A goroutine that ended without an error has found its input closed. *)
Chain ==
  /\ live[Limiter] # "run" => Closed(Format)
  /\ live[Optimizer] # "run" => Closed(Limiter)
  /\ live[Exporter] # "run" /\ ~HasErr(queue[Exporter]) => Closed(Optimizer)

(* An error that no stage can lose any more is on its way to the handler. *)
Poisoned ==
  \/ HasErr(queue[Exporter])
  \/ live[Exporter] = "run" /\ HasErr(queue[Optimizer])
  \/ /\ live[Exporter] = "run" /\ live[Optimizer] = "run"
     /\ Err \in ToSet(fpMap) \/ HasErr(queue[Limiter])

(* The rows that have passed the limit, by the place they are in. *)
Written == ToSet(body)
Exported == SeenIn(queue[Exporter])
Optimized == SeenIn(queue[Optimizer])
Collected == IF live[Optimizer] = "run" THEN Seen(fpMap) ELSE {}
Limited == SeenIn(queue[Limiter])

(* The entries up to c have passed the limit. *)
PassedUpTo(c) ==
  /\ \A n \in 1..c : n <= Len(rows) => rows[n].kind \in {"match", "miss"}
  /\ sent = Cardinality(KeptUpTo(rows, c))
  /\ Written \cup Exported \cup Optimized \cup Collected \cup Limited
       = KeptUpTo(rows, c) \ {EofAt(rows)}

(* No row is before an earlier one of its stream. *)
DownstreamInOrder ==
  /\ \A i, j \in DOMAIN body :
       i < j /\ rows[body[i]].fp = rows[body[j]].fp => body[i] < body[j]
  /\ QueueInOrder(rows, queue[Exporter]) /\ QueueInOrder(rows, queue[Optimizer])
  /\ QueueInOrder(rows, queue[Limiter]) /\ (live[Optimizer] = "run" => InOrder(rows, fpMap))
  /\ Before(rows, Written, Exported)
  /\ Before(rows, Written \cup Exported, Optimized)
  /\ Before(rows, Written \cup Exported \cup Optimized, Collected)
  /\ Before(rows, Written \cup Exported \cup Optimized \cup Collected, Limited)

(* What the stages before the limit hold, from the entry after c on. *)
Upstream(c, h3, h2, h1) ==
  /\ c <= h3 /\ h3 <= h2 /\ h2 <= h1
  /\ \/ queue[Format] = <<>> /\ h3 = c
     \/ /\ Len(queue[Format]) = 1 /\ Listing(rows, queue[Format][1], c, h3)
        /\ \A n \in (c + 1)..h3 : n > Len(rows) \/ rows[n].kind \notin {"fault", "panic"}
  /\ \/ queue[Filter] = <<>> /\ h2 = h3
     \/ Len(queue[Filter]) = 1 /\ Listing(rows, queue[Filter][1], h3, h2)
  /\ \/ queue[Getter] = <<>> /\ h1 = h2
     \/ Len(queue[Getter]) = 1 /\ Raw(rows, queue[Getter][1], h2, h1)
  /\ live[Format] # "run" => Closed(Filter)
  /\ live[Filter] # "run" => Closed(Getter)
  /\ IF live[Getter] = "run" THEN h1 <= pos /\ Raw(rows, buf, h1, pos)
     ELSE h1 = EofAt(rows) \/ (h1 \in 1..Len(rows) /\ rows[h1].kind = "bad")

BelowLimit == limit > 0 => sent < limit

Running(c) ==
  ~ctxDone /\ BelowLimit /\ \E h3, h2, h1 \in 0..EofAt(rows) : Upstream(c, h3, h2, h1)

Failing == BelowLimit /\ live[Format] # "run" /\ queue[Format] = <<<<Err>>>>

Reached == limit > 0 /\ sent = limit

Flow ==
  \/ Poisoned
  \/ DownstreamInOrder /\ \E c \in 0..EofAt(rows) :
       PassedUpTo(c) /\ (Reached \/ Failing \/ Running(c))

(* OkMeansComplete, with the rows that reached the reader for the result. *)
Matching == {i \in DOMAIN rows : rows[i].kind = "match"}

ExpectedOfRows ==
  IF limit = 0 THEN Matching
  ELSE {i \in Matching : Cardinality({j \in Matching : j < i}) < limit}

DeliveredIsComplete ==
  (answer = "ok" /\ ~gone) =>
    /\ ToSet(body) = ExpectedOfRows /\ Len(body) = Cardinality(ExpectedOfRows)
    /\ \A i, j \in DOMAIN body :
         (i < j /\ rows[body[i]].fp = rows[body[j]].fp) => body[i] < body[j]
    /\ (limit = 0 \/ Cardinality(Matching) < limit) => Faulty = {}

(* What reached the reader is the beginning of the result. *)
StartOf(r, s) ==
  /\ DOMAIN r \subseteq DOMAIN s
  /\ \A i \in DOMAIN r : r[i] = s[i] /\ \A j \in DOMAIN s : j < i => j \in DOMAIN r

PipelineIInv ==
  /\ PipelineTypes
  /\ StartOf(rows, result)
  /\ (answer = "serving" /\ ~gone) => Chain /\ Flow
  /\ DeliveredIsComplete
-----------------------------------------------------------------------------
(* Batches and what they hold. *)

(* The kinds of entries. *)
LEMMA EntryFacts ==
  ASSUME NEW r, Len(r) \in Nat, NEW e \in Entries(r)
  PROVE  /\ e.kind \in {"row", "eof", "err"}
         /\ e.kind = "row" => e.row \in 1..Len(r) /\ e = Row(e.row)
         /\ e.kind = "eof" <=> e = Eof
         /\ e.kind = "err" <=> e = Err
BY DEF Entries, Row, Eof, Err

(* A row is in a batch if one of its entries is that row. *)
LEMMA SeenFacts ==
  ASSUME NEW s, NEW n
  PROVE  n \in Seen(s) <=> \E i \in DOMAIN s : s[i].kind = "row" /\ s[i].row = n
BY DEF Seen

(* The rows of a batch are rows of the result. *)
LEMMA SeenType ==
  ASSUME NEW r, Len(r) \in Nat, NEW s \in Seq(Entries(r))
  PROVE  Seen(s) \subseteq 1..Len(r)
<1> SUFFICES ASSUME NEW i \in DOMAIN s, s[i].kind = "row" PROVE s[i].row \in 1..Len(r)
  BY SeenFacts
<1>1. s[i] \in Entries(r)
  OBVIOUS
<1> QED BY <1>1, EntryFacts

(* Keep as a set. *)
LEMMA KeepSet ==
  ASSUME NEW E, NEW s \in Seq(E), NEW T
  PROVE  \A e : e \in ToSet(Keep(s, T)) <=> e \in ToSet(s) /\ e \in T
<1>1. PICK t : t = Keep(s, T)
  OBVIOUS
<1>2. t \in Seq(E) /\ DOMAIN t = 1..Len(t) /\ DOMAIN s = 1..Len(s)
  BY <1>1, KeepFacts
<1>3. PICK q : KeptAt(t, q, s, T, Len(s))
  BY <1>1, KeepFacts
<1>4. \A i \in 1..Len(t) : q[i] \in 1..Len(s) /\ t[i] = s[q[i]] /\ s[q[i]] \in T
  BY <1>3 DEF KeptAt
<1>5. \A n \in 1..Len(s) : s[n] \in T => \E i \in 1..Len(t) : q[i] = n
  BY <1>3 DEF KeptAt
<1>6. ASSUME NEW e, e \in ToSet(t) PROVE e \in ToSet(s) /\ e \in T
  <2>1. PICK i \in 1..Len(t) : e = t[i]
    BY <1>2, <1>6 DEF ToSet
  <2> QED BY <1>2, <1>4, <2>1 DEF ToSet
<1>7. ASSUME NEW e, e \in ToSet(s), e \in T PROVE e \in ToSet(t)
  <2>1. PICK n \in 1..Len(s) : e = s[n]
    BY <1>2, <1>7 DEF ToSet
  <2>2. PICK i \in 1..Len(t) : q[i] = n
    BY <1>5, <1>7, <2>1
  <2>3. t[i] = e
    BY <1>4, <2>1, <2>2
  <2> QED BY <1>2, <2>3 DEF ToSet
<1> QED BY <1>1, <1>6, <1>7

(* Keep disturbs no order. *)
LEMMA KeepInOrder ==
  ASSUME NEW r, NEW E, NEW s \in Seq(E), NEW T, InOrder(r, s)
  PROVE  InOrder(r, Keep(s, T))
<1>1. PICK t : t = Keep(s, T)
  OBVIOUS
<1>2. t \in Seq(E) /\ DOMAIN t = 1..Len(t) /\ DOMAIN s = 1..Len(s)
  BY <1>1, KeepFacts
<1>3. PICK q : KeptAt(t, q, s, T, Len(s))
  BY <1>1, KeepFacts
<1>4. \A i \in 1..Len(t) : q[i] \in 1..Len(s) /\ t[i] = s[q[i]]
  BY <1>3 DEF KeptAt
<1>5. \A i, j \in 1..Len(t) : i < j => q[i] < q[j]
  BY <1>3 DEF KeptAt
<1>6. InOrder(r, t)
  <2> SUFFICES ASSUME NEW i \in DOMAIN t, NEW j \in DOMAIN t, i < j,
                      t[i].kind = "row", t[j].kind = "row",
                      r[t[i].row].fp = r[t[j].row].fp
               PROVE  t[i].row < t[j].row
    BY DEF InOrder
  <2>1. q[i] \in DOMAIN s /\ q[j] \in DOMAIN s /\ q[i] < q[j] /\ t[i] = s[q[i]] /\ t[j] = s[q[j]]
    BY <1>2, <1>4, <1>5
  <2> QED BY <2>1 DEF InOrder
<1> QED BY <1>1, <1>6

(* The first entries of a batch together with those of the next. *)
LEMMA ConcatSeen ==
  ASSUME NEW r, Len(r) \in Nat, NEW s \in Seq(Entries(r)), NEW t \in Seq(Entries(r))
  PROVE  /\ s \o t \in Seq(Entries(r))
         /\ Seen(s \o t) = Seen(s) \cup Seen(t)
         /\ Err \in ToSet(s) \/ Err \in ToSet(t) => Err \in ToSet(s \o t)
         /\ InOrder(r, s) /\ InOrder(r, t) /\ Before(r, Seen(s), Seen(t)) => InOrder(r, s \o t)
<1>1. PICK u : u = s \o t
  OBVIOUS
<1>2. /\ u \in Seq(Entries(r)) /\ Len(s) \in Nat /\ Len(t) \in Nat
      /\ DOMAIN u = 1..(Len(s) + Len(t)) /\ DOMAIN s = 1..Len(s) /\ DOMAIN t = 1..Len(t)
  BY <1>1
<1>3. \A i \in 1..(Len(s) + Len(t)) : u[i] = IF i <= Len(s) THEN s[i] ELSE t[i - Len(s)]
  BY <1>1, ConcatProperties
<1>4. \A i \in 1..Len(s) : i \in DOMAIN u /\ u[i] = s[i]
  BY <1>2, <1>3
<1>5. \A i \in 1..Len(t) : i + Len(s) \in DOMAIN u /\ u[i + Len(s)] = t[i]
  <2> SUFFICES ASSUME NEW i \in 1..Len(t)
               PROVE  i + Len(s) \in DOMAIN u /\ u[i + Len(s)] = t[i]
    OBVIOUS
  <2>1. PICK k : k = i + Len(s)
    OBVIOUS
  <2>2. k \in 1..(Len(s) + Len(t)) /\ ~(k <= Len(s)) /\ k - Len(s) = i
    BY <1>2, <2>1
  <2>3. u[k] = t[i]
    BY <1>3, <2>2
  <2> QED BY <1>2, <2>1, <2>2, <2>3
<1>6. \A i \in DOMAIN u : i \in 1..Len(s) \/ i - Len(s) \in 1..Len(t)
  BY <1>2
<1>7. \A i \in DOMAIN u : i \notin 1..Len(s) => u[i] = t[i - Len(s)]
  BY <1>2, <1>3
<1>8. ASSUME NEW n PROVE n \in Seen(u) <=> n \in Seen(s) \/ n \in Seen(t)
  <2>1. ASSUME n \in Seen(u) PROVE n \in Seen(s) \/ n \in Seen(t)
    <3>1. PICK i \in DOMAIN u : u[i].kind = "row" /\ u[i].row = n
      BY <2>1, SeenFacts
    <3>2. CASE i \in 1..Len(s)
      BY <1>2, <1>4, <3>1, <3>2, SeenFacts
    <3>3. CASE i \notin 1..Len(s)
      BY <1>2, <1>6, <1>7, <3>1, <3>3, SeenFacts
    <3> QED BY <3>2, <3>3
  <2>2. ASSUME n \in Seen(s) PROVE n \in Seen(u)
    <3>1. PICK i \in DOMAIN s : s[i].kind = "row" /\ s[i].row = n
      BY <2>2, SeenFacts
    <3> QED BY <1>2, <1>4, <3>1, SeenFacts
  <2>3. ASSUME n \in Seen(t) PROVE n \in Seen(u)
    <3>1. PICK i \in DOMAIN t : t[i].kind = "row" /\ t[i].row = n
      BY <2>3, SeenFacts
    <3>2. i + Len(s) \in DOMAIN u /\ u[i + Len(s)] = t[i]
      BY <1>2, <1>5
    <3> QED BY <3>1, <3>2, SeenFacts
  <2> QED BY <2>1, <2>2, <2>3
<1>9. ASSUME Err \in ToSet(s) \/ Err \in ToSet(t) PROVE Err \in ToSet(u)
  <2>1. CASE Err \in ToSet(s)
    <3>1. PICK i \in 1..Len(s) : s[i] = Err
      BY <1>2, <2>1 DEF ToSet
    <3>2. i \in DOMAIN u /\ u[i] = Err
      BY <1>4, <3>1
    <3> QED BY <3>2 DEF ToSet
  <2>2. CASE Err \in ToSet(t)
    <3>1. PICK i \in 1..Len(t) : t[i] = Err
      BY <1>2, <2>2 DEF ToSet
    <3>2. i + Len(s) \in DOMAIN u /\ u[i + Len(s)] = Err
      BY <1>5, <3>1
    <3> QED BY <3>2 DEF ToSet
  <2> QED BY <1>9, <2>1, <2>2
<1>10. ASSUME InOrder(r, s), InOrder(r, t), Before(r, Seen(s), Seen(t)) PROVE InOrder(r, u)
  <2> SUFFICES ASSUME NEW i \in DOMAIN u, NEW j \in DOMAIN u, i < j,
                      u[i].kind = "row", u[j].kind = "row",
                      r[u[i].row].fp = r[u[j].row].fp
               PROVE  u[i].row < u[j].row
    BY DEF InOrder
  <2>1. CASE j \in 1..Len(s)
    <3>1. i \in 1..Len(s)
      BY <1>2, <2>1
    <3> QED BY <1>2, <1>4, <1>10, <2>1, <3>1 DEF InOrder
  <2>2. CASE i \in 1..Len(s) /\ j \notin 1..Len(s)
    <3>1. u[i].row \in Seen(s)
      BY <1>2, <1>4, <2>2, SeenFacts
    <3>2. u[j].row \in Seen(t)
      BY <1>2, <1>6, <1>7, <2>2, SeenFacts
    <3> QED BY <1>10, <3>1, <3>2 DEF Before
  <2>3. CASE i \notin 1..Len(s) /\ j \notin 1..Len(s)
    <3>1. PICK k \in 1..Len(t), l \in 1..Len(t) : k = i - Len(s) /\ l = j - Len(s)
      BY <1>6, <2>3
    <3>2. k < l /\ u[i] = t[k] /\ u[j] = t[l]
      BY <1>2, <1>7, <2>3, <3>1
    <3> QED BY <1>2, <1>10, <3>2 DEF InOrder
  <2> QED BY <2>1, <2>2, <2>3
<1> QED BY <1>1, <1>2, <1>8, <1>9, <1>10

(* A row is in a queue if it is in one of its batches. *)
LEMMA SeenInFacts ==
  ASSUME NEW q, NEW n
  PROVE  n \in SeenIn(q) <=> \E i \in DOMAIN q : n \in Seen(q[i])
BY DEF SeenIn

(* An empty queue holds nothing. *)
LEMMA EmptyQueue ==
  ASSUME NEW r
  PROVE  SeenIn(<<>>) = {} /\ ~HasErr(<<>>) /\ QueueInOrder(r, <<>>)
<1>1. DOMAIN <<>> = {}
  OBVIOUS
<1> QED BY <1>1 DEF SeenIn, HasErr, QueueInOrder

(* A queue of one batch holds what the batch holds. *)
LEMMA OneBatchQueue ==
  ASSUME NEW r, NEW b
  PROVE  /\ SeenIn(<<b>>) = Seen(b) /\ (HasErr(<<b>>) <=> Err \in ToSet(b))
         /\ InOrder(r, b) => QueueInOrder(r, <<b>>)
<1>1. DOMAIN <<b>> = {1} /\ <<b>>[1] = b
  OBVIOUS
<1>2. \A n : n \in SeenIn(<<b>>) <=> n \in Seen(b)
  BY <1>1, SeenInFacts
<1> QED BY <1>1, <1>2 DEF HasErr, QueueInOrder

(* The batch at the head of a queue and the others. *)
LEMMA HeadAndTail ==
  ASSUME NEW r, NEW E, NEW q \in Seq(E), q # <<>>
  PROVE  /\ SeenIn(q) = Seen(Head(q)) \cup SeenIn(Tail(q))
         /\ HasErr(q) <=> Err \in ToSet(Head(q)) \/ HasErr(Tail(q))
         /\ QueueInOrder(r, q) => /\ InOrder(r, Head(q)) /\ QueueInOrder(r, Tail(q))
                                  /\ Before(r, Seen(Head(q)), SeenIn(Tail(q)))
<1>1. PICK t : t = Tail(q)
  OBVIOUS
<1>2. /\ Len(q) \in Nat \ {0} /\ DOMAIN q = 1..Len(q) /\ DOMAIN t = 1..(Len(q) - 1)
      /\ Head(q) = q[1]
  BY <1>1
<1>3. \A i \in DOMAIN t : i + 1 \in DOMAIN q /\ t[i] = q[i + 1] /\ 1 < i + 1
  BY <1>1, <1>2
<1>4. \A i \in DOMAIN q : i # 1 => i - 1 \in DOMAIN t /\ t[i - 1] = q[i]
  BY <1>1, <1>2
<1>5. 1 \in DOMAIN q
  BY <1>2
<1>6. ASSUME NEW n PROVE n \in SeenIn(q) <=> n \in Seen(q[1]) \/ n \in SeenIn(t)
  BY <1>3, <1>4, <1>5, SeenInFacts
<1>7. HasErr(q) <=> Err \in ToSet(q[1]) \/ HasErr(t)
  BY <1>3, <1>4, <1>5 DEF HasErr
<1>8. ASSUME QueueInOrder(r, q)
      PROVE  InOrder(r, q[1]) /\ QueueInOrder(r, t) /\ Before(r, Seen(q[1]), SeenIn(t))
  <2>1. /\ \A i \in DOMAIN q : InOrder(r, q[i])
        /\ \A i, j \in DOMAIN q : i < j => Before(r, Seen(q[i]), Seen(q[j]))
    BY <1>8 DEF QueueInOrder
  <2>2. \A i \in DOMAIN t : InOrder(r, t[i])
    BY <1>3, <2>1
  <2>3. ASSUME NEW i \in DOMAIN t, NEW j \in DOMAIN t, i < j
        PROVE  Before(r, Seen(t[i]), Seen(t[j]))
    <3>1. i + 1 < j + 1
      BY <1>2, <2>3
    <3> QED BY <1>3, <2>1, <3>1
  <2>4. ASSUME NEW x \in Seen(q[1]), NEW y \in SeenIn(t), r[x].fp = r[y].fp PROVE x < y
    <3>1. PICK j \in DOMAIN t : y \in Seen(t[j])
      BY SeenInFacts
    <3>2. Before(r, Seen(q[1]), Seen(t[j]))
      BY <1>3, <1>5, <2>1
    <3> QED BY <2>4, <3>1, <3>2 DEF Before
  <2>5. Before(r, Seen(q[1]), SeenIn(t))
    BY <2>4 DEF Before
  <2> QED BY <1>5, <2>1, <2>2, <2>3, <2>5 DEF QueueInOrder
<1> QED BY <1>1, <1>2, <1>6, <1>7, <1>8

(* The exporter's outputs, one per entry. *)
LEMMA SinglesFacts ==
  ASSUME NEW r, Len(r) \in Nat, NEW s \in Seq(Entries(r)), \A i \in DOMAIN s : s[i].kind # "eof"
  PROVE  LET q == [i \in DOMAIN s |-> <<s[i]>>]
         IN  /\ q \in Seq(Seq(Entries(r))) /\ Singles(q) /\ SeenIn(q) = Seen(s)
             /\ Err \in ToSet(s) => HasErr(q)
             /\ InOrder(r, s) => QueueInOrder(r, q)
<1> DEFINE q == [i \in DOMAIN s |-> <<s[i]>>]
<1>1. DOMAIN q = DOMAIN s /\ DOMAIN s = 1..Len(s) /\ Len(s) \in Nat
  OBVIOUS
<1>2. ASSUME NEW i \in DOMAIN s
      PROVE  q[i] = <<s[i]>> /\ <<s[i]>> \in Seq(Entries(r)) /\ s[i] \in Entries(r)
  <2>1. s[i] \in Entries(r)
    OBVIOUS
  <2> QED BY <2>1
<1>3. q \in Seq(Seq(Entries(r)))
  <2>1. q \in [1..Len(s) -> Seq(Entries(r))]
    BY <1>1, <1>2
  <2> HIDE DEF q
  <2> QED BY <1>1, <2>1
<1> HIDE DEF q
<1>4. ASSUME NEW i \in DOMAIN s
      PROVE  /\ Len(q[i]) = 1 /\ q[i][1] = s[i] /\ DOMAIN q[i] = {1} /\ ToSet(q[i]) = {s[i]}
             /\ \A n : n \in Seen(q[i]) <=> s[i].kind = "row" /\ s[i].row = n
  <2>1. PICK x : x = s[i]
    OBVIOUS
  <2>2. Len(<<x>>) = 1 /\ <<x>>[1] = x /\ DOMAIN <<x>> = {1}
    OBVIOUS
  <2>3. q[i] = <<x>>
    BY <1>2, <2>1
  <2>4. Len(q[i]) = 1 /\ q[i][1] = s[i] /\ DOMAIN q[i] = {1}
    BY <2>2, <2>3, <2>1
  <2>5. ToSet(q[i]) = {s[i]}
    BY <2>4 DEF ToSet
  <2> QED BY <2>4, <2>5, SeenFacts
<1>5. Singles(q)
  <2> SUFFICES ASSUME NEW i \in DOMAIN s PROVE Len(q[i]) = 1 /\ q[i][1].kind \in {"row", "err"}
    BY <1>1 DEF Singles
  <2>1. s[i].kind \in {"row", "err"}
    BY <1>2, EntryFacts
  <2> QED BY <1>4, <2>1
<1>6. ASSUME NEW n PROVE n \in SeenIn(q) <=> n \in Seen(s)
  BY <1>1, <1>4, SeenFacts, SeenInFacts
<1>7. Err \in ToSet(s) => HasErr(q)
  BY <1>1, <1>4 DEF HasErr, ToSet
<1>8. ASSUME InOrder(r, s) PROVE QueueInOrder(r, q)
  <2>1. \A i \in DOMAIN q : InOrder(r, q[i])
    BY <1>1, <1>4 DEF InOrder
  <2>2. ASSUME NEW i \in DOMAIN q, NEW j \in DOMAIN q, i < j
        PROVE  Before(r, Seen(q[i]), Seen(q[j]))
    BY <1>1, <1>4, <1>8, <2>2 DEF Before, InOrder
  <2> QED BY <2>1, <2>2 DEF QueueInOrder
<1> QED BY <1>3, <1>5, <1>6, <1>7, <1>8 DEF q

(* An injective list of a finite set is a list of all of it.               *)
LEMMA OrderFacts ==
  ASSUME NEW S, IsFiniteSet(S), NEW order \in SetToSeqs(S)
  PROVE  /\ Cardinality(S) \in Nat /\ DOMAIN order = 1..Cardinality(S)
         /\ \A i \in DOMAIN order : order[i] \in S
         /\ \A i, j \in DOMAIN order : i # j => order[i] # order[j]
         /\ \A x \in S : \E i \in DOMAIN order : order[i] = x
<1> DEFINE D == 1..Cardinality(S)
<1>1. Cardinality(S) \in Nat
  BY FS_CardinalityType
<1>2. order \in [D -> S] /\ \A i, j \in D : i # j => order[i] # order[j]
  BY DEF SetToSeqs
<1>3. order \in Injection(D, S)
  BY <1>2 DEF Injection, IsInjective
<1>4. IsFiniteSet(D) /\ Cardinality(D) = Cardinality(S)
  BY <1>1, FS_Interval
<1>5. order \in Surjection(D, S)
  BY <1>3, <1>4, FS_Injection
<1> QED BY <1>1, <1>2, <1>5 DEF Surjection

(* What ranging over fpMap sends are the entries, each stream in order.    *)
LEMMA BatchesFacts ==
  ASSUME NEW s, Len(rows) \in Nat, s \in Seq(Entries(rows)), NEW bs \in Batches(s)
  PROVE  /\ bs \in Seq(Seq(Entries(rows))) /\ SeenIn(bs) = Seen(s)
         /\ Err \in ToSet(s) => HasErr(bs)
         /\ InOrder(rows, s) => QueueInOrder(rows, bs)
<1> DEFINE F == {FpOf(e) : e \in ToSet(s)}
           T(x) == {e \in ToSet(s) : FpOf(e) = x}
<1>1. PICK order \in SetToSeqs(F) : bs = [i \in DOMAIN order |-> Keep(s, T(order[i]))]
  BY DEF Batches
<1>2. DOMAIN s = 1..Len(s) /\ Len(s) \in Nat
  OBVIOUS
<1>3. IsFiniteSet(F)
  <2> DEFINE f == [i \in 1..Len(s) |-> FpOf(s[i])]
  <2>1. \A i \in 1..Len(s) : FpOf(s[i]) \in F
    BY <1>2 DEF ToSet
  <2>2. ASSUME NEW x \in F PROVE \E i \in 1..Len(s) : f[i] = x
    <3>1. PICK e \in ToSet(s) : x = FpOf(e)
      OBVIOUS
    <3>2. PICK i \in 1..Len(s) : e = s[i]
      BY <1>2 DEF ToSet
    <3> QED BY <3>1, <3>2
  <2>3. f \in [1..Len(s) -> F]
    BY <2>1
  <2>4. f \in Surjection(1..Len(s), F)
    <3> HIDE DEF f, F
    <3> QED BY <2>2, <2>3 DEF Surjection
  <2>5. IsFiniteSet(1..Len(s))
    BY <1>2, FS_Interval
  <2> HIDE DEF f, F
  <2> QED BY <2>4, <2>5, FS_Surjection
<1> HIDE DEF F
<1>4. /\ DOMAIN order = 1..Cardinality(F) /\ Cardinality(F) \in Nat
      /\ \A i, j \in DOMAIN order : i # j => order[i] # order[j]
      /\ \A x \in F : \E i \in DOMAIN order : order[i] = x
  BY <1>1, <1>3, OrderFacts
<1>5. DOMAIN bs = DOMAIN order /\ \A i \in DOMAIN bs : bs[i] = Keep(s, T(order[i]))
  BY <1>1
<1> HIDE DEF T
<1>6. ASSUME NEW i \in DOMAIN bs
      PROVE  /\ bs[i] \in Seq(Entries(rows))
             /\ \A e : e \in ToSet(bs[i]) <=> e \in ToSet(s) /\ FpOf(e) = order[i]
  <2>1. PICK U : U = T(order[i])
    OBVIOUS
  <2>2. bs[i] = Keep(s, U)
    BY <1>5, <2>1
  <2>3. bs[i] \in Seq(Entries(rows))
    BY <2>2, KeepFacts
  <2>4. \A e : e \in ToSet(bs[i]) <=> e \in ToSet(s) /\ e \in U
    BY <2>2, KeepSet
  <2>5. \A e : e \in U <=> e \in ToSet(s) /\ FpOf(e) = order[i]
    BY <2>1 DEF T
  <2> QED BY <2>3, <2>4, <2>5
<1>7. bs \in Seq(Seq(Entries(rows)))
  <2>1. bs \in [1..Cardinality(F) -> Seq(Entries(rows))]
    BY <1>1, <1>4, <1>5, <1>6
  <2> QED BY <1>4, <2>1
<1>8. ASSUME NEW e \in ToSet(s) PROVE \E i \in DOMAIN bs : e \in ToSet(bs[i])
  <2>1. FpOf(e) \in F
    BY DEF F
  <2>2. PICK i \in DOMAIN order : order[i] = FpOf(e)
    BY <1>4, <2>1
  <2> QED BY <1>5, <1>6, <2>2
<1>9. \A t \in Seq(Entries(rows)) : \A n :
        n \in Seen(t) <=> \E e \in ToSet(t) : e.kind = "row" /\ e.row = n
  BY SeenFacts DEF ToSet
<1>10. ASSUME NEW n PROVE n \in SeenIn(bs) <=> n \in Seen(s)
  <2>1. ASSUME n \in SeenIn(bs) PROVE n \in Seen(s)
    <3>1. PICK i \in DOMAIN bs : n \in Seen(bs[i])
      BY <2>1, SeenInFacts
    <3>2. PICK e \in ToSet(bs[i]) : e.kind = "row" /\ e.row = n
      BY <1>6, <1>9, <3>1
    <3>3. e \in ToSet(s)
      BY <1>6, <3>2
    <3> QED BY <1>9, <3>2, <3>3
  <2>2. ASSUME n \in Seen(s) PROVE n \in SeenIn(bs)
    <3>1. PICK e \in ToSet(s) : e.kind = "row" /\ e.row = n
      BY <1>9, <2>2
    <3>2. PICK i \in DOMAIN bs : e \in ToSet(bs[i])
      BY <1>8, <3>1
    <3>3. n \in Seen(bs[i])
      BY <1>6, <1>9, <3>1, <3>2
    <3> QED BY <3>3, SeenInFacts
  <2> QED BY <2>1, <2>2
<1>11. Err \in ToSet(s) => HasErr(bs)
  BY <1>8 DEF HasErr
<1>12. ASSUME InOrder(rows, s) PROVE QueueInOrder(rows, bs)
  <2>1. ASSUME NEW i \in DOMAIN bs PROVE InOrder(rows, bs[i])
    BY <1>5, <1>12, KeepInOrder
  <2>2. ASSUME NEW i \in DOMAIN bs, NEW j \in DOMAIN bs, i < j,
               NEW x \in Seen(bs[i]), NEW y \in Seen(bs[j])
        PROVE  rows[x].fp # rows[y].fp
    <3>1. PICK e \in ToSet(bs[i]) : e.kind = "row" /\ e.row = x
      BY <1>6, <1>9
    <3>2. PICK g \in ToSet(bs[j]) : g.kind = "row" /\ g.row = y
      BY <1>6, <1>9
    <3>3. FpOf(e) = order[i] /\ FpOf(g) = order[j]
      BY <1>6, <3>1, <3>2
    <3>4. FpOf(e) = <<rows[x].fp>> /\ FpOf(g) = <<rows[y].fp>>
      BY <3>1, <3>2 DEF FpOf
    <3>5. i # j
      BY <1>4, <1>5, <2>2
    <3>6. order[i] # order[j]
      BY <1>4, <1>5, <3>5
    <3> QED BY <3>3, <3>4, <3>6
  <2>3. \A i, j \in DOMAIN bs : i < j => Before(rows, Seen(bs[i]), Seen(bs[j]))
    BY <2>2 DEF Before
  <2> QED BY <2>1, <2>3 DEF QueueInOrder
<1> QED BY <1>7, <1>10, <1>11, <1>12
-----------------------------------------------------------------------------
(* Batches between the scan and the limit. *)

(* What Scan makes of a row. *)
LEMMA SourceFacts ==
  ASSUME NEW r, Len(r) \in Nat, NEW n \in 1..EofAt(r)
  PROVE  /\ Source(r, n) \in Entries(r)
         /\ Source(r, n).kind = "row" => Source(r, n) = Row(n) /\ n \in 1..Len(r)
         /\ Source(r, n) = Row(n) => Source(r, n).kind = "row" /\ Source(r, n).row = n
         /\ n \in 1..Len(r) /\ r[n].kind # "bad" => Source(r, n) = Row(n)
BY DEF Source, Entries, Row, Eof, Err, EofAt

(* Scan adds the next row to its batch. *)
LEMMA RawAppend ==
  ASSUME NEW r, NEW E, NEW b \in Seq(E), NEW lo \in Nat, NEW hi \in Nat, lo <= hi,
         Raw(r, b, lo, hi), NEW e, e = Source(r, hi + 1)
  PROVE  Raw(r, Append(b, e), lo, hi + 1)
<1>1. Len(b) = hi - lo /\ \A i \in 1..(hi - lo) : b[i] = Source(r, lo + i)
  BY DEF Raw
<1>2. PICK t : t = Append(b, e)
  OBVIOUS
<1>3. Len(t) = (hi + 1) - lo /\ t[(hi + 1) - lo] = e /\ \A i \in 1..(hi - lo) : t[i] = b[i]
  BY <1>1, <1>2
<1>4. ASSUME NEW i \in 1..((hi + 1) - lo) PROVE t[i] = Source(r, lo + i)
  <2>1. CASE i = (hi + 1) - lo
    BY <1>3, <2>1
  <2>2. CASE i \in 1..(hi - lo)
    BY <1>1, <1>3, <2>2
  <2> QED BY <2>1, <2>2
<1> QED BY <1>2, <1>3, <1>4 DEF Raw

(* The line filter makes a list of the kept entries of a raw batch. *)
LEMMA FilterLists ==
  ASSUME Len(rows) \in Nat, NEW b, b \in Seq(Entries(rows)),
         NEW lo \in Nat, NEW hi \in 0..EofAt(rows), lo <= hi, Raw(rows, b, lo, hi)
  PROVE  Listing(rows, Keep(b, {e \in ToSet(b) : Passes(e)}), lo, hi)
<1>1. PICK T : T = {e \in ToSet(b) : Passes(e)}
  OBVIOUS
<1>2. PICK t : t = Keep(b, T)
  OBVIOUS
<1>3. t \in Seq(Entries(rows))
  BY <1>2, KeepFacts
<1>4. PICK q : KeptAt(t, q, b, T, Len(b))
  BY <1>2, KeepFacts
<1>5. /\ q \in [1..Len(t) -> 1..Len(b)]
      /\ \A i \in 1..Len(t) : t[i] = b[q[i]] /\ b[q[i]] \in T
      /\ \A i, j \in 1..Len(t) : i < j => q[i] < q[j]
      /\ \A n \in 1..Len(b) : b[n] \in T => \E i \in 1..Len(t) : q[i] = n
  BY <1>4 DEF KeptAt
<1>6. Len(b) = hi - lo /\ \A i \in 1..(hi - lo) : b[i] = Source(rows, lo + i)
  BY DEF Raw
<1>7. ASSUME NEW i \in 1..Len(b)
      PROVE  lo + i \in (lo + 1)..hi /\ b[i] = Source(rows, lo + i)
             /\ (b[i] \in T <=> Kept(rows, lo + i))
  <2>1. i \in 1..(hi - lo)
    BY <1>6
  <2>2. lo + i \in (lo + 1)..hi /\ lo + i \in 1..EofAt(rows)
    BY <2>1 DEF EofAt
  <2>3. b[i] = Source(rows, lo + i)
    BY <1>6, <2>1
  <2>4. b[i] \in ToSet(b)
    BY DEF ToSet
  <2>5. b[i] \in T <=> Passes(b[i])
    BY <1>1, <2>4
  <2>6. Passes(b[i]) <=> Kept(rows, lo + i)
    BY <2>2, <2>3 DEF Passes, Kept, Source, Row, Eof, Err, EofAt
  <2> QED BY <2>2, <2>3, <2>5, <2>6
<1> DEFINE p == [i \in 1..Len(t) |-> lo + q[i]]
<1>8. ASSUME NEW i \in 1..Len(t)
      PROVE  p[i] = lo + q[i] /\ q[i] \in 1..Len(b) /\ p[i] \in (lo + 1)..hi
             /\ t[i] = Source(rows, p[i]) /\ Kept(rows, p[i])
  BY <1>5, <1>7
<1>9. p \in [1..Len(t) -> (lo + 1)..hi]
  BY <1>8
<1> HIDE DEF p
<1>10. \A i, j \in 1..Len(t) : i < j => p[i] < p[j]
  BY <1>5, <1>6, <1>8
<1>11. ASSUME NEW n \in (lo + 1)..hi
       PROVE  Kept(rows, n) <=> \E i \in 1..Len(t) : p[i] = n
  <2>1. ASSUME Kept(rows, n) PROVE \E i \in 1..Len(t) : p[i] = n
    <3>1. PICK k \in 1..Len(b) : lo + k = n
      <4>1. n - lo \in 1..Len(b) /\ lo + (n - lo) = n
        BY <1>6
      <4> QED BY <4>1
    <3>2. b[k] \in T
      BY <1>7, <2>1, <3>1
    <3>3. PICK i \in 1..Len(t) : q[i] = k
      BY <1>5, <3>2
    <3> QED BY <1>8, <3>1, <3>3
  <2> QED BY <1>8, <2>1
<1>12. Lists(rows, t, p, lo, hi)
  BY <1>8, <1>9, <1>10, <1>11 DEF Lists
<1>13. Listing(rows, t, lo, hi)
  BY <1>9, <1>12 DEF Listing
<1> QED BY <1>1, <1>2, <1>13

(* The numbers up to n are n many. *)
LEMMA FirstNumbers ==
  ASSUME NEW n \in Nat
  PROVE  IsFiniteSet(1..n) /\ Cardinality(1..n) = n
<1>1. Cardinality(1..n) = n
  BY FS_Interval
<1>2. IsFiniteSet(1..n)
  BY FS_Interval
<1> QED BY <1>1, <1>2

(* A batch has as many entries as there are kept ones in its range. *)
LEMMA ListingLength ==
  ASSUME NEW r, Len(r) \in Nat, NEW b, Len(b) \in Nat, NEW lo \in Nat, NEW hi \in Nat,
         lo <= hi, Listing(r, b, lo, hi)
  PROVE  /\ Cardinality(KeptUpTo(r, lo)) \in Nat
         /\ Cardinality(KeptUpTo(r, hi)) = Cardinality(KeptUpTo(r, lo)) + Len(b)
<1>1. PICK p : Lists(r, b, p, lo, hi)
  BY DEF Listing
<1> DEFINE K == {n \in (lo + 1)..hi : Kept(r, n)}
<1>2. /\ p \in [1..Len(b) -> (lo + 1)..hi]
      /\ \A i, j \in 1..Len(b) : i < j => p[i] < p[j]
      /\ \A n \in (lo + 1)..hi : Kept(r, n) <=> \E i \in 1..Len(b) : p[i] = n
  BY <1>1 DEF Lists
<1>3. p \in [1..Len(b) -> K] /\ \A n \in K : \E i \in 1..Len(b) : p[i] = n
  BY <1>2
<1>4. \A i, j \in 1..Len(b) : p[i] = p[j] => i = j
  <2> SUFFICES ASSUME NEW i \in 1..Len(b), NEW j \in 1..Len(b), p[i] = p[j] PROVE i = j
    OBVIOUS
  <2>1. p[i] \in Int /\ p[j] \in Int
    BY <1>2
  <2>2. ~(i < j) /\ ~(j < i)
    BY <1>2, <2>1
  <2> QED BY <2>2
<1> HIDE DEF K
<1>5. p \in Bijection(1..Len(b), K)
  BY <1>3, <1>4 DEF Bijection, Injection, Surjection, IsInjective
<1>6. IsFiniteSet(1..Len(b)) /\ Cardinality(1..Len(b)) = Len(b)
  BY FirstNumbers
<1>7. IsFiniteSet(K) /\ Cardinality(K) = Len(b)
  BY <1>5, <1>6, FS_Bijection DEF ExistsBijection
<1>8. IsFiniteSet(KeptUpTo(r, lo)) /\ Cardinality(KeptUpTo(r, lo)) \in Nat
  <2>1. IsFiniteSet(1..lo)
    BY FS_Interval
  <2>2. KeptUpTo(r, lo) \in SUBSET (1..lo)
    BY DEF KeptUpTo
  <2> QED BY <2>1, <2>2, FS_Subset, FS_CardinalityType
<1>9. KeptUpTo(r, hi) = KeptUpTo(r, lo) \cup K /\ KeptUpTo(r, lo) \cap K = {}
  BY DEF KeptUpTo, K
<1>10. PICK A : A = KeptUpTo(r, lo)
  OBVIOUS
<1>11. Cardinality(A \cup K) = Cardinality(A) + Cardinality(K) - Cardinality(A \cap K)
  BY <1>7, <1>8, <1>10, FS_Union
<1>12. Cardinality(A \cap K) = 0
  BY <1>9, <1>10, FS_EmptySet
<1> QED BY <1>7, <1>8, <1>9, <1>10, <1>11, <1>12

(* The first entries of a batch list a shorter range. *)
LEMMA CutListing ==
  ASSUME NEW r, NEW E, NEW b \in Seq(E), NEW lo \in Nat, NEW hi \in Nat, lo <= hi,
         Listing(r, b, lo, hi), NEW m \in 1..Len(b)
  PROVE  /\ Len(SubSeq(b, 1, m)) = m
         /\ \E h \in (lo + 1)..hi : Listing(r, SubSeq(b, 1, m), lo, h)
<1>1. PICK p : Lists(r, b, p, lo, hi)
  BY DEF Listing
<1>2. /\ p \in [1..Len(b) -> (lo + 1)..hi]
      /\ \A i, j \in 1..Len(b) : i < j => p[i] < p[j]
      /\ \A n \in (lo + 1)..hi : Kept(r, n) <=> \E i \in 1..Len(b) : p[i] = n
      /\ \A i \in 1..Len(b) : b[i] = Source(r, p[i])
  BY <1>1 DEF Lists
<1>3. PICK t : t = SubSeq(b, 1, m)
  OBVIOUS
<1>4. Len(t) = m /\ m \in Nat /\ \A i \in 1..m : t[i] = b[i] /\ i \in 1..Len(b)
  BY <1>3
<1>5. PICK h \in (lo + 1)..hi : h = p[m]
  BY <1>2
<1> DEFINE u == [i \in 1..m |-> p[i]]
<1>6. \A i \in 1..m : u[i] = p[i] /\ u[i] \in (lo + 1)..h
  <2> SUFFICES ASSUME NEW i \in 1..m PROVE p[i] \in (lo + 1)..h
    OBVIOUS
  <2>1. i \in 1..Len(b) /\ p[i] \in (lo + 1)..hi
    BY <1>2, <1>4
  <2>2. CASE i = m
    BY <1>5, <2>1, <2>2
  <2>3. CASE i < m
    BY <1>2, <1>5, <2>1, <2>3
  <2> QED BY <1>4, <2>2, <2>3
<1>7. u \in [1..m -> (lo + 1)..h]
  BY <1>6
<1> HIDE DEF u
<1>8. \A i, j \in 1..m : i < j => u[i] < u[j]
  BY <1>2, <1>4, <1>6
<1>9. ASSUME NEW n \in (lo + 1)..h PROVE Kept(r, n) <=> \E i \in 1..m : u[i] = n
  <2>1. n \in (lo + 1)..hi
    BY <1>5
  <2>2. ASSUME Kept(r, n) PROVE \E i \in 1..m : u[i] = n
    <3>1. PICK i \in 1..Len(b) : p[i] = n
      BY <1>2, <2>1, <2>2
    <3>2. ~(m < i)
      BY <1>2, <1>5, <3>1
    <3>3. i \in 1..m
      BY <1>4, <3>2
    <3> QED BY <1>6, <3>1, <3>3
  <2>3. ASSUME NEW i \in 1..m, u[i] = n PROVE Kept(r, n)
    BY <1>2, <1>4, <1>6, <2>1, <2>3
  <2> QED BY <2>2, <2>3
<1>10. \A i \in 1..m : t[i] = Source(r, u[i])
  BY <1>2, <1>4, <1>6
<1>11. Lists(r, t, u, lo, h)
  BY <1>4, <1>7, <1>8, <1>9, <1>10 DEF Lists
<1>12. Listing(r, t, lo, h)
  BY <1>4, <1>7, <1>11 DEF Listing
<1> QED BY <1>3, <1>4, <1>12

(* The rows of a batch: the kept ones of its range, in their order; a row  *)
(* of the range that could not be scanned is an error in the batch.        *)
LEMMA ListingSeen ==
  ASSUME NEW r, Len(r) \in Nat, NEW b \in Seq(Entries(r)), NEW lo \in Nat,
         NEW hi \in 0..EofAt(r), lo <= hi, Listing(r, b, lo, hi)
  PROVE  /\ InOrder(r, b) /\ Seen(b) \subseteq (lo + 1)..hi
         /\ \A n \in (lo + 1)..hi : n \in 1..Len(r) /\ r[n].kind = "bad" => Err \in ToSet(b)
         /\ (\A n \in (lo + 1)..hi : n \in 1..Len(r) => r[n].kind # "bad") =>
              Seen(b) = (KeptUpTo(r, hi) \ KeptUpTo(r, lo)) \ {EofAt(r)}
<1>1. PICK p : Lists(r, b, p, lo, hi)
  BY DEF Listing
<1>2. /\ p \in [1..Len(b) -> (lo + 1)..hi]
      /\ \A i, j \in 1..Len(b) : i < j => p[i] < p[j]
      /\ \A n \in (lo + 1)..hi : Kept(r, n) <=> \E i \in 1..Len(b) : p[i] = n
      /\ \A i \in 1..Len(b) : b[i] = Source(r, p[i])
  BY <1>1 DEF Lists
<1>3. DOMAIN b = 1..Len(b) /\ \A n \in (lo + 1)..hi : n \in 1..EofAt(r)
  BY DEF EofAt
<1>4. \A i \in DOMAIN b : b[i].kind = "row" => b[i].row = p[i] /\ p[i] \in 1..Len(r)
  <2> SUFFICES ASSUME NEW i \in DOMAIN b, b[i].kind = "row"
               PROVE  b[i].row = p[i] /\ p[i] \in 1..Len(r)
    OBVIOUS
  <2>1. p[i] \in 1..EofAt(r) /\ b[i] = Source(r, p[i])
    BY <1>2, <1>3
  <2> QED BY <2>1, SourceFacts
<1>5. InOrder(r, b)
  BY <1>2, <1>3, <1>4 DEF InOrder
<1>6. Seen(b) \subseteq (lo + 1)..hi
  BY <1>2, <1>3, <1>4, SeenFacts
<1>7. ASSUME NEW n \in (lo + 1)..hi, n \in 1..Len(r), r[n].kind = "bad" PROVE Err \in ToSet(b)
  <2>1. Kept(r, n) /\ Source(r, n) = Err
    BY <1>7 DEF Kept, Source
  <2>2. PICK i \in 1..Len(b) : p[i] = n
    BY <1>2, <2>1
  <2>3. b[i] = Err
    BY <1>2, <2>1, <2>2
  <2> QED BY <1>3, <2>3 DEF ToSet
<1>8. ASSUME \A n \in (lo + 1)..hi : n \in 1..Len(r) => r[n].kind # "bad"
      PROVE  Seen(b) = (KeptUpTo(r, hi) \ KeptUpTo(r, lo)) \ {EofAt(r)}
  <2>1. ASSUME NEW n \in Seen(b)
        PROVE  n \in (KeptUpTo(r, hi) \ KeptUpTo(r, lo)) \ {EofAt(r)}
    <3>1. PICK i \in DOMAIN b : b[i].kind = "row" /\ b[i].row = n
      BY SeenFacts
    <3>2. n = p[i] /\ n \in 1..Len(r) /\ n \in (lo + 1)..hi
      BY <1>2, <1>3, <1>4, <3>1
    <3>3. Kept(r, n)
      BY <1>2, <1>3, <3>2
    <3> QED BY <3>2, <3>3 DEF KeptUpTo, EofAt
  <2>2. ASSUME NEW n \in (KeptUpTo(r, hi) \ KeptUpTo(r, lo)) \ {EofAt(r)}
        PROVE  n \in Seen(b)
    <3>1. n \in (lo + 1)..hi /\ n \in 1..Len(r) /\ Kept(r, n)
      BY DEF KeptUpTo, EofAt
    <3>2. PICK i \in 1..Len(b) : p[i] = n
      BY <1>2, <3>1
    <3>3. b[i] = Row(n)
      BY <1>2, <1>3, <1>8, <3>1, <3>2, SourceFacts
    <3> QED BY <1>3, <3>3, SeenFacts DEF Row
  <2> QED BY <2>1, <2>2
<1> QED BY <1>5, <1>6, <1>7, <1>8
-----------------------------------------------------------------------------
(* The types, and what each step does to the queues. *)

Queues == [Goroutines -> Seq(Seq(Entries(rows)))]

(* A query starts well typed. *)
(* The rows that reach the reader are the first of the result. *)
LEMMA RowsInit ==
  ASSUME PipelineInit
  PROVE  rows \in Seq([fp : Streams, kind : RowKinds]) /\ StartOf(rows, result)
<1>1. PICK R : R = [fp : Streams, kind : RowKinds]
  OBVIOUS
<1>2. PICK m \in 0..MaxRows : result \in [1..m -> R]
  BY <1>1 DEF PipelineInit, SeqOf
<1>3. m \in Nat
  BY PipelineAssumption
<1>4. result \in Seq(R) /\ Len(result) \in Nat /\ DOMAIN result = 1..Len(result)
  BY <1>2, <1>3
<1>5. PICK n \in 0..Len(result) : rows = SubSeq(result, 1, n)
  BY DEF PipelineInit
<1>6. rows \in Seq(R) /\ Len(rows) = n /\ \A i \in 1..n : rows[i] = result[i]
  BY <1>4, <1>5
<1>7. DOMAIN rows = 1..n
  BY <1>6
<1>8. StartOf(rows, result)
  BY <1>4, <1>6, <1>7 DEF StartOf
<1> QED BY <1>1, <1>6, <1>8

LEMMA PipelineTypesInit == PipelineInit => PipelineTypes
<1> SUFFICES ASSUME PipelineInit PROVE PipelineTypes
  OBVIOUS
<1>1. rows \in Seq([fp : Streams, kind : RowKinds])
  BY RowsInit
<1>2. /\ limit \in Nat /\ sent = 0 /\ pos = 0 /\ buf = <<>> /\ fpMap = <<>> /\ body = <<>>
      /\ queue = [g \in Goroutines |-> <<>>] /\ live = [g \in Goroutines |-> "run"]
  BY PipelineAssumption DEF PipelineInit
<1>3. queue \in [Goroutines -> Seq(Seq(Entries(rows)))]
      /\ live \in [Goroutines -> {"run", "drain", "end"}]
  BY <1>2
<1>4. queue[Exporter] = <<>>
  BY <1>2 DEF Goroutines, Getter, Exporter
<1>5. Singles(queue[Exporter])
  BY <1>4 DEF Singles
<1> QED BY <1>1, <1>2, <1>3, <1>5 DEF PipelineTypes

(* A step that takes a batch and queues others changes two queues. *)
LEMMA ForwardFacts ==
  ASSUME PipelineTypes, NEW g \in 2..6, queue[g - 1] # <<>>,
         NEW bs, bs \in Seq(Seq(Entries(rows))), Forward(g, bs)
  PROVE  /\ queue' \in Queues
         /\ queue'[g] = bs /\ queue'[g - 1] = Tail(queue[g - 1])
         /\ \A h \in 1..6 : h # g /\ h # g - 1 => queue'[h] = queue[h]
<1>1. queue \in [1..6 -> Seq(Seq(Entries(rows)))] /\ g \in 1..6 /\ g - 1 \in 1..6 /\ g # g - 1
  <2>1. queue \in [1..6 -> Seq(Seq(Entries(rows)))]
    BY DEF PipelineTypes, Goroutines, Getter, Exporter
  <2> QED BY <2>1
<1>2. queue' = [queue EXCEPT ![g - 1] = Tail(queue[g - 1]), ![g] = bs]
  BY <1>1 DEF Forward
<1>3. Tail(queue[g - 1]) \in Seq(Seq(Entries(rows)))
  <2>1. queue[g - 1] \in Seq(Seq(Entries(rows)))
    BY <1>1
  <2> QED BY <2>1, HeadTailProperties
<1>4. queue' \in [1..6 -> Seq(Seq(Entries(rows)))]
  BY <1>1, <1>2, <1>3
<1> QED BY <1>1, <1>2, <1>4 DEF Queues, Goroutines, Getter, Exporter

(* A step that queues batches changes one queue. *)
LEMMA EmitFacts ==
  ASSUME PipelineTypes, NEW g \in 1..6, NEW bs, bs \in Seq(Seq(Entries(rows))), Emit(g, bs)
  PROVE  /\ queue' \in Queues /\ queue'[g] = bs
         /\ \A h \in 1..6 : h # g => queue'[h] = queue[h]
BY DEF PipelineTypes, Goroutines, Getter, Exporter, Queues, Emit

(* The batch a stage is offered is the first of the queue before it. *)
LEMMA BatchType ==
  ASSUME PipelineTypes, NEW g \in 2..6, queue[g - 1] # <<>>
  PROVE  Batch(g) \in Seq(Entries(rows)) /\ Batch(g) = queue[g - 1][1]
<1>1. queue[g - 1] \in Seq(Seq(Entries(rows)))
  <2>1. queue \in [1..6 -> Seq(Seq(Entries(rows)))]
    BY DEF PipelineTypes, Goroutines, Getter, Exporter
  <2>2. g - 1 \in 1..6
    OBVIOUS
  <2> QED BY <2>1, <2>2
<1> QED BY <1>1, HeadTailProperties DEF Batch

(* A queue of one batch. *)
LEMMA SingleBatch ==
  ASSUME NEW E, NEW b \in Seq(E)
  PROVE  <<b>> \in Seq(Seq(E)) /\ Len(<<b>>) = 1 /\ <<b>>[1] = b /\ <<b>> # <<>>
         /\ Tail(<<b>>) = <<>> /\ Head(<<b>>) = b
<1>1. <<b>> \in Seq(Seq(E))
  OBVIOUS
<1>2. Len(<<b>>) = 1 /\ <<b>>[1] = b /\ <<b>> # <<>>
  OBVIOUS
<1>3. Tail(<<b>>) = <<>>
  BY <1>1, <1>2
<1>4. Head(<<b>>) = b
  BY <1>2
<1> QED BY <1>1, <1>2, <1>3, <1>4

(* Taking the only batch empties a queue. *)
LEMMA OneLeft ==
  ASSUME NEW E, NEW q \in Seq(E), Len(q) = 1
  PROVE  Tail(q) = <<>> /\ q # <<>>
<1>1. Len(q) # Len(<<>>)
  OBVIOUS
<1>2. q # <<>>
  BY <1>1, Zenon
<1>3. Tail(q) \in Seq(E) /\ Len(Tail(q)) = 0
  BY <1>2, HeadTailProperties
<1> QED BY <1>2, <1>3, EmptySeq

(* The steps that change neither rows nor body leave the types to queue,   *)
(* buf, pos, sent, live and fpMap.                                         *)
LEMMA TypesOf ==
  ASSUME PipelineTypes, rows' = rows, limit' = limit, body' = body,
         queue' \in Queues, Singles(queue[Exporter])', pos' \in 0..Len(rows),
         buf' \in Seq(Entries(rows)), sent' \in Nat, fpMap' \in Seq(Entries(rows)),
         live' \in [Goroutines -> {"run", "drain", "end"}]
  PROVE  PipelineTypes'
BY DEF PipelineTypes, Queues

(* The first entry of a batch that is in a state to be found. *)
LEMMA FirstOfFacts ==
  ASSUME NEW b \in Seq(Entries(rows)), NEW kinds
  PROVE  /\ FirstOf(b, kinds) \in 0..Len(b)
         /\ FirstOf(b, kinds) = 0 =>
              \A i \in 1..Len(b) : ~(b[i].kind = "row" /\ rows[b[i].row].kind \in kinds)
         /\ FirstOf(b, kinds) # 0 =>
              LET f == FirstOf(b, kinds)
              IN  b[f].kind = "row" /\ rows[b[f].row].kind \in kinds
<1> DEFINE I == {i \in 1..Len(b) : b[i].kind = "row" /\ rows[b[i].row].kind \in kinds}
<1>1. FirstOf(b, kinds) = IF I # {} THEN Min(I) ELSE 0
  BY DEF FirstOf, SelectInSeq
<1>2. I \subseteq Nat /\ I \subseteq 1..Len(b) /\ Len(b) \in Nat
  OBVIOUS
<1>3. CASE I = {}
  <2>1. FirstOf(b, kinds) = 0
    BY <1>1, <1>3
  <2>2. \A i \in 1..Len(b) : i \notin I
    BY <1>3
  <2> QED BY <1>2, <2>1, <2>2
<1>4. CASE I # {}
  <2>1. PICK f : f = Min(I)
    OBVIOUS
  <2>2. f \in I
    <3> HIDE DEF I
    <3> QED BY <1>2, <1>4, <2>1, MinFacts
  <2>3. FirstOf(b, kinds) = f
    BY <1>1, <1>4, <2>1
  <2> QED BY <1>2, <2>2, <2>3
<1> QED BY <1>3, <1>4

FirstErr(b) == SelectInSeq(b, LAMBDA x : x.kind = "err")

(* The first error of a batch. *)
LEMMA FirstErrFacts ==
  ASSUME NEW b \in Seq(Entries(rows))
  PROVE  /\ FirstErr(b) \in 0..Len(b)
         /\ FirstErr(b) = 0 => \A i \in 1..Len(b) : b[i].kind # "err"
         /\ FirstErr(b) # 0 => b[FirstErr(b)].kind = "err"
<1> DEFINE I == {i \in 1..Len(b) : b[i].kind = "err"}
<1>1. FirstErr(b) = IF I # {} THEN Min(I) ELSE 0
  BY DEF FirstErr, SelectInSeq
<1>2. I \subseteq Nat /\ I \subseteq 1..Len(b) /\ Len(b) \in Nat
  OBVIOUS
<1>3. CASE I = {}
  BY <1>1, <1>2, <1>3
<1>4. CASE I # {}
  <2>1. PICK f : f = Min(I)
    OBVIOUS
  <2>2. f \in I
    <3> HIDE DEF I
    <3> QED BY <1>2, <1>4, <2>1, MinFacts
  <2>3. FirstErr(b) = f
    BY <1>1, <1>4, <2>1
  <2> QED BY <1>2, <2>2, <2>3
<1> QED BY <1>3, <1>4

(* The goroutines in the order of the data. *)
LEMMA Numbers ==
  /\ Getter = 1 /\ Filter = 2 /\ Format = 3
  /\ Limiter = 4 /\ Optimizer = 5 /\ Exporter = 6
BY DEF Getter, Filter, Format, Limiter, Optimizer, Exporter

(* What a well-typed state is, in the terms of the proofs. *)
LEMMA TypeFacts ==
  ASSUME PipelineTypes
  PROVE  /\ rows \in Seq([fp : Streams, kind : RowKinds]) /\ Len(rows) \in Nat
         /\ limit \in Nat /\ sent \in Nat
         /\ pos \in 0..Len(rows) /\ buf \in Seq(Entries(rows))
         /\ queue \in Queues
         /\ \A g \in 1..6 : queue[g] \in Seq(Seq(Entries(rows)))
                            /\ live[g] \in {"run", "drain", "end"}
         /\ live \in [Goroutines -> {"run", "drain", "end"}]
         /\ fpMap \in Seq(Entries(rows)) /\ body \in Seq(1..Len(rows)) /\ Singles(queue[Exporter])
BY DEF PipelineTypes, Queues, Goroutines, Getter, Exporter

(* A goroutine that ends changes no other. *)
LEMMA EndFacts ==
  ASSUME PipelineTypes, NEW g \in 1..6, End(g)
  PROVE  /\ live' \in [Goroutines -> {"run", "drain", "end"}] /\ live'[g] = "end"
         /\ \A h \in 1..6 : h # g => live'[h] = live[h]
BY DEF PipelineTypes, End, Goroutines, Getter, Exporter

(* The types after the steps of Scan. *)
LEMMA ScanTypes ==
  ASSUME PipelineTypes, ScanEof \/ ScanCancelled \/ ScanRow
  PROVE  PipelineTypes'
<1> USE TypeFacts, Numbers
<1>1. CASE ScanEof
  <2>1. Append(buf, Eof) \in Seq(Entries(rows))
    BY DEF Entries
  <2>2. PICK b : b = Append(buf, Eof)
    OBVIOUS
  <2>3. PICK bs : bs = <<b>>
    OBVIOUS
  <2>4. bs \in Seq(Seq(Entries(rows))) /\ Emit(1, bs) /\ End(1)
    BY <1>1, <2>1, <2>2, <2>3 DEF ScanEof
  <2>5. queue' \in Queues /\ queue'[6] = queue[6]
    BY <2>4, EmitFacts
  <2>6. live' \in [Goroutines -> {"run", "drain", "end"}]
    BY <2>4, EndFacts
  <2>7. Singles(queue[Exporter])'
    BY <2>5 DEF Singles
  <2> QED BY <1>1, <2>5, <2>6, <2>7, TypesOf DEF ScanEof
<1>2. CASE ScanCancelled
  <2>1. PICK bs : bs = <<buf>>
    OBVIOUS
  <2>2. bs \in Seq(Seq(Entries(rows))) /\ Emit(1, bs) /\ End(1)
    BY <1>2, <2>1 DEF ScanCancelled
  <2>3. queue' \in Queues /\ queue'[6] = queue[6]
    BY <2>2, EmitFacts
  <2>4. live' \in [Goroutines -> {"run", "drain", "end"}]
    BY <2>2, EndFacts
  <2>5. Singles(queue[Exporter])'
    BY <2>3 DEF Singles
  <2> QED BY <1>2, <2>3, <2>4, <2>5, TypesOf DEF ScanCancelled
<1>3. CASE ScanRow
  <2>1. PICK e : e = IF rows[pos + 1].kind = "bad" THEN Err ELSE Row(pos + 1)
    OBVIOUS
  <2>2. PICK b : b = Append(buf, e)
    OBVIOUS
  <2>3. pos' = pos + 1 /\ pos + 1 \in 1..Len(rows) /\ pos' \in 0..Len(rows)
    <3>1. pos' = pos + 1 /\ pos < Len(rows)
      BY <1>3 DEF ScanRow
    <3>2. pos \in 0..Len(rows) /\ Len(rows) \in Nat
      OBVIOUS
    <3> QED BY ONLY <3>1, <3>2
  <2>4. b \in Seq(Entries(rows))
    <3>1. e \in Entries(rows)
      BY <2>1, <2>3 DEF Entries
    <3> QED BY <2>2, <3>1
  <2>5. PICK full \in BOOLEAN : full = (rows[pos + 1].kind = "bad" \/ Len(b) >= BatchSize)
    OBVIOUS
  <2>6. /\ buf' = IF full THEN <<>> ELSE b
        /\ IF full THEN Emit(Getter, <<b>>) ELSE UNCHANGED queue
        /\ IF rows[pos + 1].kind = "bad" THEN End(Getter) ELSE UNCHANGED live
    BY <1>3, <2>1, <2>2, <2>5 DEF ScanRow
  <2>7. queue' \in Queues /\ queue'[6] = queue[6]
    <3>1. CASE full
      <4>1. PICK bs : bs = <<b>>
        OBVIOUS
      <4>2. bs \in Seq(Seq(Entries(rows))) /\ Emit(1, bs)
        BY <2>4, <2>6, <3>1, <4>1
      <4> QED BY <4>2, EmitFacts
    <3>2. CASE ~full
      BY <2>6, <3>2 DEF Queues
    <3> QED BY <3>1, <3>2
  <2>8. live' \in [Goroutines -> {"run", "drain", "end"}]
    BY <2>6, EndFacts
  <2>9. buf' \in Seq(Entries(rows))
    BY <2>4, <2>6
  <2>10. Singles(queue[Exporter])'
    BY <2>7 DEF Singles
  <2> QED BY <1>3, <2>3, <2>7, <2>8, <2>9, <2>10, TypesOf DEF ScanRow
<1> QED BY <1>1, <1>2, <1>3

(* The types after a step that takes a batch from one queue and puts bs    *)
(* into the next.                                                          *)
LEMMA ForwardTypes ==
  ASSUME PipelineTypes, NEW g \in 2..6, queue[g - 1] # <<>>,
         NEW bs, bs \in Seq(Seq(Entries(rows))), Forward(g, bs), g = 6 => Singles(bs),
         rows' = rows, limit' = limit, body' = body, pos' = pos, buf' = buf,
         sent' \in Nat, fpMap' \in Seq(Entries(rows)),
         live' \in [Goroutines -> {"run", "drain", "end"}]
  PROVE  PipelineTypes'
<1>1. /\ queue' \in Queues /\ queue'[g] = bs
      /\ \A h \in 1..6 : h # g /\ h # g - 1 => queue'[h] = queue[h]
  BY ForwardFacts
<1>2. queue'[6] = IF g = 6 THEN bs ELSE queue[6]
  BY <1>1
<1>3. Singles(queue[Exporter])'
  <2>1. Singles(queue[6]) /\ Exporter = 6
    BY TypeFacts, Numbers
  <2>2. CASE g = 6
    BY <1>2, <2>1, <2>2 DEF Singles
  <2>3. CASE g # 6
    BY <1>2, <2>1, <2>3 DEF Singles
  <2> QED BY <2>2, <2>3
<1> QED BY <1>1, <1>3, TypeFacts, TypesOf

(* The types after a step of a stage. *)
LEMMA StageTypes ==
  ASSUME PipelineTypes, LineFilter \/ LineFormat \/ LimitBatch \/ Optimize \/ Drain(Format)
  PROVE  PipelineTypes'
<1> USE Numbers
<1>1. CASE LineFilter
  <2>1. queue[2 - 1] # <<>> /\ 2 \in 2..6
    BY <1>1 DEF LineFilter, Meets
  <2>2. PICK b : b = Batch(2) /\ b \in Seq(Entries(rows))
    BY <2>1, BatchType
  <2>3. PICK t : t = Keep(b, {e \in ToSet(b) : Passes(e)})
    OBVIOUS
  <2>4. t \in Seq(Entries(rows))
    BY <2>2, <2>3, KeepFacts
  <2>5. PICK bs : bs = <<t>>
    OBVIOUS
  <2>6. Forward(2, bs) /\ bs \in Seq(Seq(Entries(rows)))
    BY <1>1, <2>2, <2>3, <2>4, <2>5 DEF LineFilter
  <2> QED BY <1>1, <2>1, <2>6, TypeFacts, ForwardTypes DEF LineFilter
<1>2. CASE LineFormat
  <2>1. queue[3 - 1] # <<>> /\ 3 \in 2..6
    BY <1>2 DEF LineFormat, Meets
  <2>2. PICK b : b = Batch(3) /\ b \in Seq(Entries(rows))
    BY <2>1, BatchType
  <2>3. PICK bs : (bs = <<b>> \/ bs = <<<<Err>>>>) /\ Forward(3, bs)
    BY <1>2, <2>2 DEF LineFormat
  <2>4. PICK b1 : b1 = <<Err>> /\ b1 \in Seq(Entries(rows))
    <3>1. Err \in Entries(rows)
      BY DEF Entries
    <3>2. <<Err>> \in Seq(Entries(rows))
      BY <3>1
    <3> QED BY <3>2
  <2>5. bs \in Seq(Seq(Entries(rows)))
    <3>1. <<b>> \in Seq(Seq(Entries(rows))) /\ <<b1>> \in Seq(Seq(Entries(rows)))
      BY <2>2, <2>4
    <3> QED BY <2>3, <2>4, <3>1, Zenon
  <2>6. live' \in [Goroutines -> {"run", "drain", "end"}]
    BY <1>2, TypeFacts DEF LineFormat, OnErr
  <2> QED BY <1>2, <2>1, <2>3, <2>5, <2>6, TypeFacts, ForwardTypes DEF LineFormat
<1>3. CASE LimitBatch
  <2>1. queue[4 - 1] # <<>> /\ 4 \in 2..6
    BY <1>3 DEF LimitBatch, Meets
  <2>2. PICK b : b = Batch(4) /\ b \in Seq(Entries(rows))
    BY <2>1, BatchType
  <2>3. sent \in Nat /\ limit \in Nat /\ Len(b) \in Nat
    BY <2>2, TypeFacts
  <2>4. PICK bs : /\ Forward(4, bs)
                  /\ \/ bs = <<>> \/ bs = <<b>>
                     \/ sent < limit /\ sent + Len(b) >= limit /\ bs = <<Cut(b)>>
    BY <1>3, <2>2 DEF LimitBatch
  <2>5. sent < limit /\ sent + Len(b) >= limit => Cut(b) \in Seq(Entries(rows))
    <3> SUFFICES ASSUME sent < limit, sent + Len(b) >= limit PROVE Cut(b) \in Seq(Entries(rows))
      OBVIOUS
    <3>1. limit - sent \in 1..Len(b)
      BY <2>3
    <3> QED BY <2>2, <3>1, SubSeqProperties DEF Cut
  <2>6. bs \in Seq(Seq(Entries(rows)))
    <3>1. <<b>> \in Seq(Seq(Entries(rows))) /\ <<>> \in Seq(Seq(Entries(rows)))
      BY <2>2
    <3>2. CASE sent < limit /\ sent + Len(b) >= limit /\ bs = <<Cut(b)>>
      BY <2>5, <3>2
    <3> QED BY <2>4, <3>1, <3>2
  <2>7. sent' \in Nat
    BY <1>3, <2>2, <2>3 DEF LimitBatch
  <2> QED BY <1>3, <2>1, <2>4, <2>6, <2>7, TypeFacts, ForwardTypes DEF LimitBatch
<1>4. CASE Optimize
  <2>1. queue[5 - 1] # <<>> /\ 5 \in 2..6
    BY <1>4 DEF Optimize, Meets
  <2>2. PICK b : b = Batch(5) /\ b \in Seq(Entries(rows))
    BY <2>1, BatchType
  <2>3. PICK all : all = fpMap \o b
    OBVIOUS
  <2>4. all \in Seq(Entries(rows))
    BY <2>2, <2>3, TypeFacts
  <2>5. PICK bs : (bs = <<>> \/ bs \in Batches(all)) /\ Forward(5, bs)
    BY <1>4, <2>2, <2>3 DEF Optimize
  <2>6. bs \in Seq(Seq(Entries(rows)))
    <3>1. <<>> \in Seq(Seq(Entries(rows)))
      OBVIOUS
    <3>2. CASE bs \in Batches(all)
      BY <2>4, <3>2, TypeFacts, BatchesFacts
    <3> QED BY <2>5, <3>1, <3>2
  <2>7. fpMap' \in Seq(Entries(rows))
    <3>1. fpMap' = all \/ fpMap' = <<>>
      BY <1>4, <2>2, <2>3 DEF Optimize
    <3>2. <<>> \in Seq(Entries(rows))
      OBVIOUS
    <3> QED BY <2>4, <3>1, <3>2
  <2> QED BY <1>4, <2>1, <2>5, <2>6, <2>7, TypeFacts, ForwardTypes DEF Optimize
<1>5. CASE Drain(Format)
  <2>1. queue[3 - 1] # <<>> /\ 3 \in 2..6
    BY <1>5 DEF Drain
  <2>2. PICK bs : bs = <<>>
    OBVIOUS
  <2>3. Forward(3, bs) /\ bs \in Seq(Seq(Entries(rows)))
    BY <1>5, <2>2 DEF Drain
  <2> QED BY <1>5, <2>1, <2>3, TypeFacts, ForwardTypes DEF Drain
<1> QED BY <1>1, <1>2, <1>3, <1>4, <1>5

(* The outputs of the exporter: the entries of a batch up to an error.     *)
LEMMA ExportFacts ==
  ASSUME PipelineTypes, Export
  PROVE  \E b \in Seq(Entries(rows)), bs \in Seq(Seq(Entries(rows))) :
           /\ queue[5] # <<>> /\ b = Head(queue[5])
           /\ Forward(6, bs) /\ Singles(bs)
           /\ \/ /\ Err \notin ToSet(b) /\ live' = live /\ SeenIn(bs) = Seen(b)
                 /\ InOrder(rows, b) => QueueInOrder(rows, bs)
              \/ HasErr(bs) /\ End(6)
<1> USE Numbers
<1>1. queue[6 - 1] # <<>> /\ 6 \in 2..6 /\ queue[5] # <<>>
  BY DEF Export, Meets
<1>2. PICK b : b = Batch(6) /\ b \in Seq(Entries(rows))
  BY <1>1, BatchType
<1>3. b = Head(queue[5])
  BY <1>2 DEF Batch
<1>4. PICK done : done = IF FirstErr(b) = 0 THEN b ELSE SubSeq(b, 1, FirstErr(b))
  OBVIOUS
<1>5. PICK out : out = Keep(done, {x \in ToSet(done) : x.kind # "eof"})
  OBVIOUS
<1>6. PICK bs : bs = [i \in DOMAIN out |-> <<out[i]>>]
  OBVIOUS
<1>7. Forward(6, bs) /\ IF FirstErr(b) = 0 THEN UNCHANGED live ELSE End(6)
  BY <1>2, <1>4, <1>5, <1>6 DEF Export, FirstErr
<1>8. done \in Seq(Entries(rows)) /\ (FirstErr(b) # 0 => Err \in ToSet(done))
  <2>1. CASE FirstErr(b) = 0
    BY <1>2, <1>4, <2>1
  <2>2. CASE FirstErr(b) # 0
    <3>1. PICK e \in 1..Len(b) : e = FirstErr(b) /\ b[e].kind = "err"
      BY <1>2, <2>2, FirstErrFacts
    <3>2. done = SubSeq(b, 1, e)
      BY <1>4, <2>2, <3>1
    <3>3. done \in Seq(Entries(rows)) /\ Len(done) = e /\ done[e] = b[e] /\ DOMAIN done = 1..e
      BY <1>2, <3>1, <3>2, SubSeqProperties
    <3>4. b[e] = Err
      <4>1. b[e] \in Entries(rows)
        BY <1>2
      <4> QED BY <3>1, <4>1, TypeFacts, EntryFacts
    <3> QED BY <3>1, <3>3, <3>4 DEF ToSet
  <2> QED BY <2>1, <2>2
<1>9. PICK T : T = {x \in ToSet(done) : x.kind # "eof"}
  OBVIOUS
<1>10. out \in Seq(Entries(rows)) /\ \A e : e \in ToSet(out) <=> e \in ToSet(done) /\ e \in T
  BY <1>5, <1>8, <1>9, KeepFacts, KeepSet
<1>11. \A e : e \in ToSet(out) <=> e \in ToSet(done) /\ e.kind # "eof"
  BY <1>9, <1>10
<1>12. \A i \in DOMAIN out : out[i].kind # "eof"
  BY <1>11 DEF ToSet
<1>13. /\ bs \in Seq(Seq(Entries(rows))) /\ Singles(bs) /\ SeenIn(bs) = Seen(out)
       /\ Err \in ToSet(out) => HasErr(bs)
       /\ InOrder(rows, out) => QueueInOrder(rows, bs)
  BY <1>6, <1>10, <1>12, TypeFacts, SinglesFacts
<1>14. CASE FirstErr(b) # 0
  <2>1. Err \in ToSet(out)
    BY <1>8, <1>11, <1>14 DEF Err
  <2> QED BY <1>1, <1>2, <1>3, <1>7, <1>13, <1>14, <2>1
<1>15. CASE FirstErr(b) = 0
  <2>1. done = b
    BY <1>4, <1>15
  <2>2. Err \notin ToSet(b)
    <3>1. \A i \in 1..Len(b) : b[i].kind # "err"
      BY <1>2, <1>15, FirstErrFacts
    <3> QED BY <1>2, <3>1 DEF ToSet, Err
  <2>3. \A t \in Seq(Entries(rows)) : \A n :
          n \in Seen(t) <=> \E e \in ToSet(t) : e.kind = "row" /\ e.row = n
    BY SeenFacts DEF ToSet
  <2>4. \A n : n \in Seen(out) <=> n \in Seen(b)
    BY <1>2, <1>10, <1>11, <2>1, <2>3
  <2>5. InOrder(rows, b) => InOrder(rows, out)
    BY <1>2, <1>5, <2>1, KeepInOrder
  <2>6. SeenIn(bs) = Seen(b)
    BY <1>13, <2>4
  <2>7. InOrder(rows, b) => QueueInOrder(rows, bs)
    BY <1>13, <2>5
  <2>8. live' = live
    BY <1>7, <1>15
  <2> QED BY <1>1, <1>2, <1>3, <1>7, <1>13, <2>2, <2>6, <2>7, <2>8, Zenon
<1> QED BY <1>14, <1>15

(* The types after a step of the exporter. *)
LEMMA ExportTypes ==
  ASSUME PipelineTypes, Export
  PROVE  PipelineTypes'
<1>1. PICK bs \in Seq(Seq(Entries(rows))) :
        queue[5] # <<>> /\ Forward(6, bs) /\ Singles(bs) /\ (live' = live \/ End(6))
  BY ExportFacts
<1>2. live' \in [Goroutines -> {"run", "drain", "end"}]
  BY <1>1, TypeFacts, EndFacts
<1>3. queue[6 - 1] # <<>> /\ 6 \in 2..6
  BY <1>1
<1> QED BY <1>1, <1>2, <1>3, TypeFacts, ForwardTypes DEF Export

(* The types after a goroutine found its input closed. *)
LEMMA EndsTypes ==
  ASSUME PipelineTypes, NEW g \in 2..6, InputEnds(g)
  PROVE  PipelineTypes'
<1> USE Numbers
<1>1. live' \in [Goroutines -> {"run", "drain", "end"}]
  BY EndFacts DEF InputEnds
<1>2. queue' \in Queues /\ queue'[6] = queue[6]
  <2>1. CASE g = 5
    <3>1. PICK bs \in Batches(fpMap) : Emit(5, bs)
      BY <2>1 DEF InputEnds
    <3>2. bs \in Seq(Seq(Entries(rows)))
      BY TypeFacts, BatchesFacts
    <3> QED BY <3>1, <3>2, EmitFacts
  <2>2. CASE g # 5
    <3>1. queue' = queue
      BY <2>2 DEF InputEnds
    <3> QED BY <3>1, TypeFacts DEF Queues
  <2> QED BY <2>1, <2>2
<1>3. Singles(queue[Exporter])'
  BY <1>2, TypeFacts DEF Singles
<1> QED BY <1>1, <1>2, <1>3, TypeFacts, TypesOf DEF InputEnds

(* What the handler takes from the exporter. *)
LEMMA ServeFacts ==
  ASSUME PipelineTypes, Serve
  PROVE  \E e \in Entries(rows) :
           /\ queue[6] # <<>> /\ Head(queue[6]) \in Seq(Entries(rows))
           /\ DOMAIN Head(queue[6]) = {1} /\ Head(queue[6])[1] = e
           /\ queue' \in Queues /\ queue'[6] = Tail(queue[6])
           /\ \A h \in 1..5 : queue'[h] = queue[h]
           /\ Singles(Tail(queue[6]))
           /\ \/ e.kind = "err" /\ answer' = "error" /\ body' = body
              \/ /\ e.kind = "row" /\ e.row \in 1..Len(rows) /\ body' = Append(body, e.row)
                 /\ answer' = answer /\ ctxDone' = ctxDone
              \/ e.kind = "row" /\ answer' = "overflow" /\ body' = body
<1> USE Numbers
<1>1. PICK q : q = queue[6] /\ q \in Seq(Seq(Entries(rows))) /\ Singles(q) /\ q # <<>>
  BY TypeFacts DEF Serve
<1>2. PICK b : b = Head(q) /\ b = q[1] /\ b \in Seq(Entries(rows)) /\ 1 \in DOMAIN q
  <2>1. Head(q) = q[1] /\ 1 \in DOMAIN q
    BY <1>1
  <2>2. q[1] \in Seq(Entries(rows))
    BY <1>1, <2>1
  <2> QED BY <2>1, <2>2
<1>3. Len(b) = 1 /\ DOMAIN b = {1}
  <2>1. Len(b) = 1
    BY <1>1, <1>2 DEF Singles
  <2> QED BY <1>2, <2>1
<1>4. PICK e \in Entries(rows) : e = b[1]
  BY <1>2, <1>3
<1>5. PICK t : t = Tail(q) /\ t \in Seq(Seq(Entries(rows)))
  BY <1>1, HeadTailProperties
<1>6. queue' = [queue EXCEPT ![6] = t]
  BY <1>1, <1>5, TypeFacts DEF Serve, Queues, Goroutines
<1>7. queue' \in Queues /\ queue'[6] = t /\ \A h \in 1..5 : queue'[h] = queue[h]
  <2>1. queue \in [1..6 -> Seq(Seq(Entries(rows)))]
    BY TypeFacts DEF Queues, Goroutines
  <2>2. queue' \in [1..6 -> Seq(Seq(Entries(rows)))]
    BY <1>5, <1>6, <2>1
  <2> QED BY <1>6, <2>1, <2>2 DEF Queues, Goroutines
<1>8. Singles(t)
  <2>1. \A i \in DOMAIN t : i + 1 \in DOMAIN q /\ t[i] = q[i + 1]
    BY <1>1, <1>5
  <2> QED BY <1>1, <2>1 DEF Singles
<1>9. e.kind = "row" => e.row \in 1..Len(rows)
  BY TypeFacts, EntryFacts
<1>10. \/ e.kind = "err" /\ answer' = "error" /\ body' = body
       \/ e.kind = "row" /\ body' = Append(body, e.row) /\ answer' = answer /\ ctxDone' = ctxDone
       \/ e.kind = "row" /\ answer' = "overflow" /\ body' = body
  BY <1>1, <1>2, <1>4 DEF Serve
<1> QED BY <1>1, <1>2, <1>3, <1>4, <1>5, <1>7, <1>8, <1>9, <1>10

(* The types after a step of the handler. *)
LEMMA ServeTypes ==
  ASSUME PipelineTypes, Serve
  PROVE  PipelineTypes'
<1>1. PICK e \in Entries(rows) :
           /\ queue' \in Queues /\ queue'[6] = Tail(queue[6]) /\ Singles(Tail(queue[6]))
           /\ body' = body \/ (e.row \in 1..Len(rows) /\ body' = Append(body, e.row))
  BY ServeFacts
<1>2. body' \in Seq(1..Len(rows))
  <2>1. body \in Seq(1..Len(rows))
    BY TypeFacts
  <2>2. ASSUME NEW n \in 1..Len(rows) PROVE Append(body, n) \in Seq(1..Len(rows))
    BY <2>1
  <2> QED BY <1>1, <2>1, <2>2, Zenon
<1>3. Singles(queue[Exporter])'
  BY <1>1, Numbers DEF Singles
<1> QED BY <1>1, <1>2, <1>3 DEF PipelineTypes, Serve, Queues

(* Every step keeps the types. *)
LEMMA PipelineTypesNext ==
  ASSUME PipelineTypes, [PipelineNext]_pipelineVars
  PROVE  PipelineTypes'
<1>1. CASE ServeEnds \/ ClientGone \/ UNCHANGED pipelineVars
  BY <1>1 DEF PipelineTypes, ServeEnds, ClientGone, pipelineVars, Singles
<1>2. CASE \E g \in {Format} : Drain(g)
  BY <1>2, StageTypes
<1>3. CASE \E g \in Filter..Exporter : InputEnds(g)
  BY <1>3, Numbers, EndsTypes
<1> QED BY <1>1, <1>2, <1>3, ScanTypes, StageTypes, ExportTypes, ServeTypes
        DEF PipelineNext, Progress
-----------------------------------------------------------------------------
(* What a step leaves alone. *)

(* A step that does not touch what is behind the limit. *)
LEMMA DownstreamKept ==
  ASSUME rows' = rows, body' = body, fpMap' = fpMap, sent' = sent,
         queue'[4] = queue[4], queue'[5] = queue[5], queue'[6] = queue[6],
         live'[5] = live[5], live'[6] = live[6]
  PROVE  /\ Poisoned' <=> Poisoned
         /\ DownstreamInOrder' <=> DownstreamInOrder
         /\ \A c \in 0..EofAt(rows) : PassedUpTo(c)' <=> PassedUpTo(c)
<1> USE Numbers
<1>1. Poisoned' <=> Poisoned
  BY DEF Poisoned
<1>2. Written' = Written /\ Exported' = Exported /\ Optimized' = Optimized
      /\ Collected' = Collected /\ Limited' = Limited
  BY DEF Written, Exported, Optimized, Collected, Limited
<1>3. DownstreamInOrder' <=> DownstreamInOrder
  BY <1>2 DEF DownstreamInOrder
<1>4. ASSUME NEW c \in 0..EofAt(rows) PROVE PassedUpTo(c)' <=> PassedUpTo(c)
  BY <1>2 DEF PassedUpTo
<1> QED BY <1>1, <1>3, <1>4

(* A step that does not touch what is before the limit. *)
LEMMA UpstreamKept ==
  ASSUME rows' = rows, limit' = limit, sent' = sent, ctxDone' = ctxDone, pos' = pos, buf' = buf,
         queue'[1] = queue[1], queue'[2] = queue[2], queue'[3] = queue[3],
         live'[1] = live[1], live'[2] = live[2], live'[3] = live[3]
  PROVE  /\ Reached' <=> Reached
         /\ Failing' <=> Failing
         /\ \A c \in 0..EofAt(rows) : Running(c)' <=> Running(c)
<1> USE Numbers
<1>1. (Reached' <=> Reached) /\ (BelowLimit' <=> BelowLimit)
  BY DEF Reached, BelowLimit
<1>2. Failing' <=> Failing
  BY <1>1 DEF Failing
<1>3. \A c, h3, h2, h1 \in 0..EofAt(rows) : Upstream(c, h3, h2, h1)' <=> Upstream(c, h3, h2, h1)
  BY DEF Upstream, Closed
<1>4. EofAt(rows') = EofAt(rows)
  OBVIOUS
<1>5. ASSUME NEW c \in 0..EofAt(rows) PROVE Running(c)' <=> Running(c)
  BY <1>1, <1>3, <1>4 DEF Running
<1> QED BY <1>1, <1>2, <1>5
-----------------------------------------------------------------------------
(* The stages before the limit. *)

(* The empty batch. *)
LEMMA RawEmpty ==
  ASSUME NEW r, NEW n \in Nat
  PROVE  Raw(r, <<>>, n, n)
<1>1. n - n = 0 /\ Len(<<>>) = 0
  OBVIOUS
<1> QED BY <1>1 DEF Raw

(* Scan leaves no gap: the entries it adds follow the ones it sent. *)
LEMMA ScanRuns ==
  ASSUME PipelineTypes, NEW c \in 0..EofAt(rows), Running(c), ScanEof \/ ScanCancelled \/ ScanRow
  PROVE  Running(c)'
<1> USE Numbers
<1>1. PICK h3, h2, h1 \in 0..EofAt(rows) : Upstream(c, h3, h2, h1)
  BY DEF Running
<1>2. ~ctxDone /\ live[1] = "run" /\ queue[1] = <<>> /\ rows' = rows /\ limit' = limit
      /\ sent' = sent /\ ctxDone' = ctxDone
  BY DEF Running, ScanEof, ScanCancelled, ScanRow
<1>3. BelowLimit' /\ EofAt(rows') = EofAt(rows)
  BY <1>2 DEF Running, BelowLimit
<1>4. h1 = h2 /\ h1 <= pos /\ Raw(rows, buf, h1, pos) /\ live[2] = "run"
  <2>1. h1 = h2
    <3>1. Len(<<>>) # 1
      OBVIOUS
    <3> QED BY <1>1, <1>2, <3>1 DEF Upstream
  <2>2. live[2] = "run"
    BY <1>1, <1>2 DEF Upstream, Closed
  <2> QED BY <1>1, <1>2, <2>1, <2>2 DEF Upstream
<1>5. /\ Len(rows) \in Nat /\ pos \in 0..Len(rows) /\ buf \in Seq(Entries(rows))
      /\ h1 \in Nat /\ pos \in Nat /\ h1 \in 0..Len(rows)
  BY <1>4, TypeFacts
(* It is enough to say what h1 becomes. *)
<1>6. ASSUME NEW h \in 0..EofAt(rows), h1 <= h,
             \/ queue'[1] = <<>> /\ h = h2
             \/ Len(queue'[1]) = 1 /\ Raw(rows, queue'[1][1], h2, h),
             IF live'[1] = "run" THEN h <= pos' /\ Raw(rows, buf', h, pos')
             ELSE h = EofAt(rows) \/ (h \in 1..Len(rows) /\ rows[h].kind = "bad"),
             queue'[2] = queue[2], queue'[3] = queue[3], live'[2] = live[2], live'[3] = live[3]
      PROVE  Running(c)'
  <2>1. Upstream(c, h3, h2, h)'
    BY <1>1, <1>2, <1>4, <1>6 DEF Upstream, Closed
  <2> QED BY <1>2, <1>3, <2>1 DEF Running
<1>7. CASE ScanEof
  <2>1. pos = Len(rows) /\ pos + 1 = EofAt(rows) /\ pos' = pos
    BY <1>2, <1>7 DEF ScanEof, EofAt
  <2>2. PICK b : b = Append(buf, Eof)
    OBVIOUS
  <2>3. b \in Seq(Entries(rows))
    <3>1. Eof \in Entries(rows)
      BY DEF Entries
    <3> QED BY <1>5, <2>2, <3>1
  <2>4. PICK bs : bs = <<b>>
    OBVIOUS
  <2>5. queue'[1] = bs /\ queue'[2] = queue[2] /\ queue'[3] = queue[3]
        /\ Len(bs) = 1 /\ bs[1] = b /\ End(1)
    <3>1. Emit(1, bs) /\ End(1)
      BY <1>7, <2>2, <2>4 DEF ScanEof
    <3>2. bs \in Seq(Seq(Entries(rows))) /\ Len(bs) = 1 /\ bs[1] = b
      BY <2>3, <2>4, SingleBatch
    <3> QED BY <3>1, <3>2, EmitFacts
  <2>6. live'[1] = "end" /\ live'[2] = live[2] /\ live'[3] = live[3]
    BY <2>5, EndFacts
  <2>7. Eof = Source(rows, pos + 1)
    BY <1>5, <2>1 DEF Source
  <2>8. Raw(rows, b, h1, pos + 1)
    BY <1>4, <1>5, <2>2, <2>7, RawAppend
  <2>9. EofAt(rows) \in 0..EofAt(rows) /\ h1 <= EofAt(rows)
    BY <1>5 DEF EofAt
  <2> QED BY <1>4, <1>6, <2>1, <2>5, <2>6, <2>8, <2>9
<1>8. CASE ScanRow
  <2>1. pos < Len(rows) /\ pos' = pos + 1
    BY <1>8 DEF ScanRow
  <2>2. pos + 1 \in 1..Len(rows) /\ pos + 1 \in 0..EofAt(rows) /\ h1 <= pos + 1 /\ pos + 1 \in Nat
    BY <1>4, <1>5, <2>1 DEF EofAt
  <2>3. PICK e : e = IF rows[pos + 1].kind = "bad" THEN Err ELSE Row(pos + 1)
    OBVIOUS
  <2>4. e \in Entries(rows)
    BY <2>2, <2>3 DEF Entries
  <2>5. e = Source(rows, pos + 1)
    BY <1>5, <2>2, <2>3 DEF Source
  <2>6. PICK b : b = Append(buf, e)
    OBVIOUS
  <2>7. b \in Seq(Entries(rows))
    BY <1>5, <2>4, <2>6
  <2>8. Raw(rows, b, h1, pos + 1)
    BY <1>4, <1>5, <2>5, <2>6, RawAppend
  <2>9. PICK bs : bs = <<b>>
    OBVIOUS
  <2>10. bs \in Seq(Seq(Entries(rows))) /\ Len(bs) = 1 /\ bs[1] = b
    BY <2>7, <2>9, SingleBatch
  <2>11. \/ rows[pos + 1].kind = "bad" /\ buf' = <<>> /\ Emit(1, bs) /\ End(1)
         \/ rows[pos + 1].kind # "bad" /\ buf' = <<>> /\ Emit(1, bs) /\ live' = live
         \/ rows[pos + 1].kind # "bad" /\ buf' = b /\ queue' = queue /\ live' = live
    BY <1>8, <2>3, <2>6, <2>9 DEF ScanRow
  <2>12. CASE buf' = <<>> /\ Emit(1, bs)
    <3>1. queue'[1] = bs /\ queue'[2] = queue[2] /\ queue'[3] = queue[3]
      BY <2>10, <2>12, EmitFacts
    <3>2. Raw(rows, buf', pos + 1, pos + 1)
      BY <2>2, <2>12, RawEmpty
    <3>3. /\ live'[2] = live[2] /\ live'[3] = live[3]
          /\ live'[1] = "run" \/ (live'[1] = "end" /\ rows[pos + 1].kind = "bad")
      <4>1. (rows[pos + 1].kind = "bad" /\ End(1)) \/ live' = live
        BY <2>11
      <4> QED BY <1>2, <4>1, EndFacts
    <3> QED BY <1>4, <1>6, <2>1, <2>2, <2>8, <2>10, <3>1, <3>2, <3>3
  <2>13. CASE buf' = b /\ queue' = queue /\ live' = live
    BY <1>2, <1>4, <1>5, <1>6, <2>1, <2>2, <2>8, <2>13
  <2> QED BY <2>11, <2>12, <2>13
<1>9. CASE ScanCancelled
  BY <1>2, <1>9 DEF ScanCancelled
<1> QED BY <1>7, <1>8, <1>9

(* The line filter leaves no gap. *)
LEMMA FilterRuns ==
  ASSUME PipelineTypes, NEW c \in 0..EofAt(rows), Running(c), LineFilter
  PROVE  Running(c)'
<1> USE Numbers
<1>1. PICK h3, h2, h1 \in 0..EofAt(rows) : Upstream(c, h3, h2, h1)
  BY DEF Running
<1>2. /\ live[2] = "run" /\ queue[2] = <<>> /\ queue[1] # <<>>
      /\ rows' = rows /\ limit' = limit /\ sent' = sent /\ ctxDone' = ctxDone
      /\ live' = live /\ pos' = pos /\ buf' = buf
  BY DEF LineFilter, Meets
<1>3. ~ctxDone' /\ BelowLimit' /\ EofAt(rows') = EofAt(rows)
  BY <1>2 DEF Running, BelowLimit
<1>4. Len(queue[1]) = 1 /\ Raw(rows, queue[1][1], h2, h1) /\ live[3] = "run"
  BY <1>1, <1>2 DEF Upstream, Closed
<1>5. h3 = h2
  <2>1. Len(<<>>) # 1
    OBVIOUS
  <2> QED BY <1>1, <1>2, <2>1 DEF Upstream
<1>6. h3 <= h1 /\ c <= h3 /\ h1 <= h1 /\ h1 \in Nat /\ h3 \in Nat /\ h2 \in Nat /\ Len(rows) \in Nat
  BY <1>1, TypeFacts DEF Upstream, EofAt
<1>7. queue[2 - 1] # <<>> /\ 2 \in 2..6
  BY <1>2
<1>8. PICK b : b = Batch(2) /\ b = queue[1][1] /\ b \in Seq(Entries(rows))
  BY <1>7, BatchType
<1>9. PICK t : t = Keep(b, {e \in ToSet(b) : Passes(e)})
  OBVIOUS
<1>10. Listing(rows, t, h3, h1)
  BY <1>4, <1>5, <1>6, <1>8, <1>9, FilterLists
<1>11. t \in Seq(Entries(rows))
  BY <1>8, <1>9, KeepFacts
<1>12. PICK bs : bs = <<t>>
  OBVIOUS
<1>13. bs \in Seq(Seq(Entries(rows))) /\ Len(bs) = 1 /\ bs[1] = t
  BY <1>11, <1>12, SingleBatch
<1>14. Forward(2, bs)
  BY <1>8, <1>9, <1>12 DEF LineFilter
<1>15. queue'[2] = bs /\ queue'[2 - 1] = Tail(queue[2 - 1]) /\ queue'[3] = queue[3]
  BY <1>7, <1>13, <1>14, ForwardFacts
<1>16. queue'[1] = <<>>
  <2>1. PICK q \in Seq(Seq(Entries(rows))) : q = queue[1]
    <3>1. queue[1] \in Seq(Seq(Entries(rows)))
      BY TypeFacts
    <3> QED BY <3>1
  <2>2. Len(q) = 1 /\ queue'[1] = Tail(q)
    BY <1>4, <1>15, <2>1
  <2>3. Tail(q) = <<>>
    BY <2>2, OneLeft
  <2> QED BY <2>2, <2>3
<1>17. Upstream(c, h3, h1, h1)'
  BY <1>1, <1>2, <1>4, <1>6, <1>10, <1>13, <1>15, <1>16 DEF Upstream, Closed
<1> QED BY <1>3, <1>17 DEF Running

(* A template that fails is a row of the batch, or no row of its range.    *)
LEMMA NoFault ==
  ASSUME Len(rows) \in Nat, NEW b, b \in Seq(Entries(rows)),
         NEW lo \in Nat, NEW hi \in 0..EofAt(rows), lo <= hi,
         Listing(rows, b, lo, hi), FirstOf(b, {"fault", "panic"}) = 0,
         NEW n \in (lo + 1)..hi
  PROVE  n > Len(rows) \/ rows[n].kind \notin {"fault", "panic"}
<1> SUFFICES ASSUME ~(n > Len(rows)), rows[n].kind \in {"fault", "panic"} PROVE FALSE
  OBVIOUS
<1>1. PICK p : Lists(rows, b, p, lo, hi)
  BY DEF Listing
<1>2. n \in 1..Len(rows) /\ n \in 1..EofAt(rows)
  BY DEF EofAt
<1>3. Kept(rows, n) /\ Source(rows, n) = Row(n)
  BY <1>2 DEF Kept, Source
<1>4. PICK i \in 1..Len(b) : p[i] = n
  BY <1>1, <1>3 DEF Lists
<1>5. b[i] = Row(n)
  BY <1>1, <1>3, <1>4 DEF Lists
<1>6. PICK kinds : kinds = {"fault", "panic"}
  OBVIOUS
<1>7. ~(b[i].kind = "row" /\ rows[b[i].row].kind \in kinds)
  BY <1>6, FirstOfFacts
<1> QED BY <1>5, <1>6, <1>7 DEF Row

(* The line format leaves no gap, or fails and sends its error. *)
LEMMA FormatRuns ==
  ASSUME PipelineTypes, NEW c \in 0..EofAt(rows), Running(c), LineFormat
  PROVE  Running(c)' \/ Failing'
<1> USE Numbers
<1>1. PICK h3, h2, h1 \in 0..EofAt(rows) : Upstream(c, h3, h2, h1)
  BY DEF Running
<1>2. /\ live[3] = "run" /\ queue[3] = <<>> /\ queue[2] # <<>>
      /\ rows' = rows /\ limit' = limit /\ sent' = sent /\ ctxDone' = ctxDone
      /\ pos' = pos /\ buf' = buf
  BY DEF LineFormat, Meets
<1>3. ~ctxDone' /\ BelowLimit' /\ EofAt(rows') = EofAt(rows)
  BY <1>2 DEF Running, BelowLimit
<1>4. Len(queue[2]) = 1 /\ Listing(rows, queue[2][1], h3, h2)
  BY <1>1, <1>2 DEF Upstream, Closed
<1>5. h3 = c
  <2>1. Len(<<>>) # 1
    OBVIOUS
  <2> QED BY <1>1, <1>2, <2>1 DEF Upstream
<1>6. c <= h2 /\ h2 <= h1 /\ h2 <= h2 /\ h2 \in Nat /\ c \in Nat /\ Len(rows) \in Nat
  BY <1>1, TypeFacts DEF Upstream, EofAt
<1>7. queue[3 - 1] # <<>> /\ 3 \in 2..6
  BY <1>2
<1>8. PICK b : b = Batch(3) /\ b = queue[2][1] /\ b \in Seq(Entries(rows))
  BY <1>7, BatchType
<1>9. CASE FirstOf(b, {"fault", "panic"}) = 0
  <2>1. PICK bs : bs = <<b>>
    OBVIOUS
  <2>2. bs \in Seq(Seq(Entries(rows))) /\ Len(bs) = 1 /\ bs[1] = b
    BY <1>8, <2>1, SingleBatch
  <2>3. Forward(3, bs) /\ live' = live
    BY <1>8, <1>9, <2>1 DEF LineFormat
  <2>4. queue'[3] = bs /\ queue'[3 - 1] = Tail(queue[3 - 1]) /\ queue'[1] = queue[1]
    BY <1>7, <2>2, <2>3, ForwardFacts
  <2>5. queue'[2] = <<>>
    <3>1. PICK q \in Seq(Seq(Entries(rows))) : q = queue[2]
      <4>1. queue[2] \in Seq(Seq(Entries(rows)))
        BY TypeFacts
      <4> QED BY <4>1
    <3>2. Len(q) = 1 /\ queue'[2] = Tail(q)
      BY <1>4, <2>4, <3>1
    <3>3. Tail(q) = <<>>
      BY <3>2, OneLeft
    <3> QED BY <3>2, <3>3
  <2>6. \A n \in (c + 1)..h2 : n > Len(rows) \/ rows[n].kind \notin {"fault", "panic"}
    BY <1>4, <1>5, <1>6, <1>8, <1>9, NoFault
  <2>7. Upstream(c, h2, h2, h1)'
    BY <1>1, <1>2, <1>4, <1>5, <1>6, <1>8, <2>2, <2>3, <2>4, <2>5, <2>6 DEF Upstream, Closed
  <2> QED BY <1>3, <2>7 DEF Running
<1>10. CASE FirstOf(b, {"fault", "panic"}) # 0
  <2>1. PICK b1 : b1 = <<Err>>
    OBVIOUS
  <2>2. PICK bs : bs = <<b1>>
    OBVIOUS
  <2>3. bs \in Seq(Seq(Entries(rows)))
    <3>1. Err \in Entries(rows)
      BY DEF Entries
    <3>2. b1 \in Seq(Entries(rows))
      BY <2>1, <3>1
    <3> QED BY <2>2, <3>2
  <2>4. Forward(3, bs) /\ live'[3] # "run"
    <3>1. /\ Forward(3, bs)
          /\ live' = [live EXCEPT ![3] =
                         OnErr(rows[b[FirstOf(b, {"fault", "panic"})].row].kind = "panic")]
      BY <1>8, <1>10, <2>1, <2>2 DEF LineFormat
    <3> QED BY <3>1, TypeFacts DEF OnErr, Goroutines
  <2>5. queue'[3] = bs
    BY <1>7, <2>3, <2>4, ForwardFacts
  <2> QED BY <1>3, <2>1, <2>2, <2>4, <2>5 DEF Failing
<1> QED BY <1>9, <1>10

(* A stage that finds its input closed has nothing left. *)
LEMMA UpstreamEndRuns ==
  ASSUME PipelineTypes, NEW c \in 0..EofAt(rows), Running(c), NEW g \in {2, 3}, InputEnds(g)
  PROVE  Running(c)'
<1> USE Numbers
<1>1. PICK h3, h2, h1 \in 0..EofAt(rows) : Upstream(c, h3, h2, h1)
  BY DEF Running
<1>2. /\ live[g] = "run" /\ Closed(g - 1)
      /\ rows' = rows /\ limit' = limit /\ sent' = sent /\ ctxDone' = ctxDone
      /\ pos' = pos /\ buf' = buf /\ queue' = queue
  BY DEF InputEnds
<1>3. ~ctxDone' /\ BelowLimit' /\ EofAt(rows') = EofAt(rows)
  BY <1>2 DEF Running, BelowLimit
<1>4. live'[g] = "end" /\ \A h \in 1..6 : h # g => live'[h] = live[h]
  BY EndFacts DEF InputEnds
<1>5. g = 2 => live[3] = "run" /\ Closed(1)
  BY <1>1, <1>2 DEF Upstream, Closed
<1>6. g = 3 => Closed(2)
  BY <1>2
<1>7. Upstream(c, h3, h2, h1)'
  <2>1. CASE g = 2
    BY <1>1, <1>2, <1>4, <1>5, <2>1 DEF Upstream, Closed
  <2>2. CASE g = 3
    BY <1>1, <1>2, <1>4, <1>6, <2>2 DEF Upstream, Closed
  <2> QED BY <2>1, <2>2
<1> QED BY <1>3, <1>7 DEF Running

(* The stages before the limit take a step. *)
UpstreamStep ==
  \/ ScanEof \/ ScanCancelled \/ ScanRow \/ LineFilter \/ LineFormat
  \/ Drain(Format) \/ InputEnds(Filter) \/ InputEnds(Format)

(* The stages before the limit change nothing behind it, and a failed *)
(* format keeps its error until the limit takes it. *)
LEMMA UpstreamEffects ==
  ASSUME PipelineTypes, UpstreamStep
  PROVE  /\ rows' = rows /\ limit' = limit /\ body' = body /\ fpMap' = fpMap /\ sent' = sent
         /\ queue'[4] = queue[4] /\ queue'[5] = queue[5] /\ queue'[6] = queue[6]
         /\ live'[4] = live[4] /\ live'[5] = live[5] /\ live'[6] = live[6]
         /\ Closed(3) => Closed(3)'
         /\ Failing => Failing'
<1> USE Numbers
<1>1. rows' = rows /\ limit' = limit /\ body' = body /\ fpMap' = fpMap /\ sent' = sent
  BY DEF UpstreamStep, ScanEof, ScanCancelled, ScanRow, LineFilter, LineFormat, Drain, InputEnds
<1>2. /\ queue \in [1..6 -> Seq(Seq(Entries(rows)))]
      /\ live \in [1..6 -> {"run", "drain", "end"}]
  BY TypeFacts DEF Queues, Goroutines
<1>3. CASE ScanEof \/ ScanCancelled \/ ScanRow
  <2>1. /\ queue' = queue \/ \E bs : queue' = [queue EXCEPT ![1] = bs]
        /\ live' = live \/ live' = [live EXCEPT ![1] = "end"]
    BY <1>3 DEF ScanEof, ScanCancelled, ScanRow, Emit, End
  <2>2. /\ queue'[4] = queue[4] /\ queue'[5] = queue[5] /\ queue'[6] = queue[6]
        /\ live'[4] = live[4] /\ live'[5] = live[5] /\ live'[6] = live[6]
        /\ live'[3] = live[3] /\ queue'[3] = queue[3]
    BY <1>2, <2>1
  <2> QED BY <1>1, <2>2 DEF Closed, Failing, BelowLimit
<1>4. CASE LineFilter
  <2>1. live' = live /\ \E bs, tl : queue' = [queue EXCEPT ![1] = tl, ![2] = bs]
    <3>1. PICK bs : Forward(2, bs)
      BY <1>4 DEF LineFilter
    <3>2. queue' = [queue EXCEPT ![1] = Tail(queue[1]), ![2] = bs]
      BY <1>2, <3>1 DEF Forward
    <3> QED BY <1>4, <3>2 DEF LineFilter
  <2>2. /\ queue'[4] = queue[4] /\ queue'[5] = queue[5] /\ queue'[6] = queue[6]
        /\ live'[4] = live[4] /\ live'[5] = live[5] /\ live'[6] = live[6]
        /\ live'[3] = live[3] /\ queue'[3] = queue[3]
    BY <1>2, <2>1
  <2> QED BY <1>1, <2>2 DEF Closed, Failing, BelowLimit
<1>5. CASE LineFormat
  <2>1. \E bs, tl : queue' = [queue EXCEPT ![2] = tl, ![3] = bs]
    BY <1>2, <1>5 DEF LineFormat, Forward
  <2>2. live' = live \/ \E x : live' = [live EXCEPT ![3] = x]
    BY <1>5 DEF LineFormat
  <2>3. live[3] = "run"
    BY <1>5 DEF LineFormat, Meets
  <2>4. /\ queue'[4] = queue[4] /\ queue'[5] = queue[5] /\ queue'[6] = queue[6]
        /\ live'[4] = live[4] /\ live'[5] = live[5] /\ live'[6] = live[6]
    BY <1>2, <2>1, <2>2
  <2> QED BY <1>1, <2>3, <2>4 DEF Closed, Failing
<1>6. CASE Drain(Format)
  <2>1. live' = live /\ queue[3] = <<>>
        /\ \E tl : queue' = [queue EXCEPT ![2] = tl, ![3] = <<>>]
    <3>1. queue' = [queue EXCEPT ![2] = Tail(queue[2]), ![3] = <<>>]
      BY <1>2, <1>6 DEF Drain, Forward
    <3> QED BY <1>6, <3>1 DEF Drain
  <2>2. /\ queue'[4] = queue[4] /\ queue'[5] = queue[5] /\ queue'[6] = queue[6]
        /\ live'[4] = live[4] /\ live'[5] = live[5] /\ live'[6] = live[6]
        /\ live'[3] = live[3] /\ queue'[3] = <<>>
    BY <1>2, <2>1
  <2> QED BY <1>1, <2>1, <2>2 DEF Closed, Failing
<1>7. CASE InputEnds(Filter) \/ InputEnds(Format)
  <2>1. /\ queue' = queue
        /\ \/ live' = [live EXCEPT ![2] = "end"]
           \/ live[3] = "run" /\ live' = [live EXCEPT ![3] = "end"]
    BY <1>7 DEF InputEnds, End
  <2>2. /\ queue'[4] = queue[4] /\ queue'[5] = queue[5] /\ queue'[6] = queue[6]
        /\ live'[4] = live[4] /\ live'[5] = live[5] /\ live'[6] = live[6]
        /\ live[3] = "run" \/ live'[3] = live[3]
        /\ queue'[3] = queue[3]
    BY <1>2, <2>1
  <2> QED BY <1>1, <2>2 DEF Closed, Failing, BelowLimit
<1> QED BY <1>3, <1>4, <1>5, <1>6, <1>7 DEF UpstreamStep

(* The stages before the limit keep the flow. *)
LEMMA UpstreamFlow ==
  ASSUME PipelineTypes, Chain, Flow, UpstreamStep
  PROVE  Chain' /\ Flow'
<1> USE Numbers
<1>1. /\ rows' = rows /\ limit' = limit /\ body' = body /\ fpMap' = fpMap /\ sent' = sent
      /\ queue'[4] = queue[4] /\ queue'[5] = queue[5] /\ queue'[6] = queue[6]
      /\ live'[4] = live[4] /\ live'[5] = live[5] /\ live'[6] = live[6]
      /\ Closed(3) => Closed(3)'
      /\ Failing => Failing'
  BY UpstreamEffects
<1>2. Chain'
  <2>1. live'[4] # "run" => Closed(3)'
    BY <1>1 DEF Chain
  <2>2. /\ live'[5] # "run" => Closed(4)'
        /\ live'[6] # "run" /\ ~HasErr(queue'[6]) => Closed(5)'
    BY <1>1 DEF Chain, Closed
  <2> QED BY <2>1, <2>2 DEF Chain
<1>3. /\ Poisoned' <=> Poisoned
      /\ DownstreamInOrder' <=> DownstreamInOrder
      /\ \A c \in 0..EofAt(rows) : PassedUpTo(c)' <=> PassedUpTo(c)
  BY <1>1, DownstreamKept
<1>4. CASE Poisoned
  BY <1>2, <1>3, <1>4 DEF Flow
<1>5. CASE ~Poisoned
  <2>1. PICK c \in 0..EofAt(rows) :
          DownstreamInOrder /\ PassedUpTo(c) /\ (Reached \/ Failing \/ Running(c))
    BY <1>5 DEF Flow
  <2>2. c \in 0..EofAt(rows') /\ DownstreamInOrder' /\ PassedUpTo(c)'
    BY <1>1, <1>3, <2>1
  <2>3. Reached' \/ Failing' \/ Running(c)'
    <3>1. CASE Reached
      BY <1>1, <3>1 DEF Reached
    <3>2. CASE Failing
      BY <1>1, <3>2
    <3>3. CASE Running(c)
      <4>1. ~Drain(Format)
        <5> SUFFICES ASSUME Drain(Format) PROVE FALSE
          OBVIOUS
        <5>1. live[3] # "run" /\ queue[2] # <<>>
          BY DEF Drain
        <5> QED BY <3>3, <5>1 DEF Running, Upstream, Closed
      <4>2. CASE ScanEof \/ ScanCancelled \/ ScanRow
        BY <3>3, <4>2, ScanRuns
      <4>3. CASE LineFilter
        BY <3>3, <4>3, FilterRuns
      <4>4. CASE LineFormat
        BY <3>3, <4>4, FormatRuns
      <4>5. CASE InputEnds(Filter) \/ InputEnds(Format)
        BY <3>3, <4>5, UpstreamEndRuns
      <4> QED BY <4>1, <4>2, <4>3, <4>4, <4>5 DEF UpstreamStep
    <3> QED BY <2>1, <3>1, <3>2, <3>3
  <2> QED BY <1>2, <2>2, <2>3 DEF Flow
<1> QED BY <1>4, <1>5
-----------------------------------------------------------------------------
(* The limit. *)

(* The rows up to c that pass; the sentinel is none. *)
LEMMA PassedRows ==
  ASSUME PipelineTypes, NEW c \in 0..EofAt(rows), NEW h \in 0..EofAt(rows), c <= h
  PROVE  /\ KeptUpTo(rows, c) \subseteq KeptUpTo(rows, h)
         /\ KeptUpTo(rows, c) \subseteq 1..c
<1>1. c \in Nat /\ h \in Nat
  BY TypeFacts DEF EofAt
<1> QED BY <1>1 DEF KeptUpTo

(* The kinds of rows. *)
LEMMA RowKind ==
  ASSUME PipelineTypes, NEW n \in 1..Len(rows)
  PROVE  rows[n].kind \in RowKinds
<1>1. PICK R : R = [fp : Streams, kind : RowKinds]
  OBVIOUS
<1>2. rows \in Seq(R)
  BY <1>1, TypeFacts
<1>3. rows[n] \in R
  BY <1>2
<1> QED BY <1>1, <1>3

(* A batch without an error that passes the limit moves the mark from c *)
(* to the end of its range. *)
LEMMA PassBatch ==
  ASSUME PipelineTypes, DownstreamInOrder, NEW c \in 0..EofAt(rows), PassedUpTo(c),
         queue[4] = <<>>, NEW t \in Seq(Entries(rows)), NEW h \in 0..EofAt(rows), c <= h,
         Listing(rows, t, c, h), Err \notin ToSet(t),
         \A n \in (c + 1)..h : n > Len(rows) \/ rows[n].kind \notin {"fault", "panic"},
         queue'[4] = <<t>>, queue'[5] = queue[5], queue'[6] = queue[6],
         rows' = rows, live' = live, body' = body, fpMap' = fpMap, sent' = sent + Len(t)
  PROVE  PassedUpTo(h)' /\ DownstreamInOrder'
<1> USE Numbers
<1>1. /\ Len(rows) \in Nat /\ c \in Nat /\ h \in Nat /\ Len(t) \in Nat
      /\ \A n \in 1..Len(rows) : rows[n].kind \in RowKinds
  <2>1. Len(rows) \in Nat
    BY TypeFacts
  <2> QED BY <2>1, RowKind DEF EofAt
<1>2. /\ InOrder(rows, t) /\ Seen(t) \subseteq (c + 1)..h
      /\ \A n \in (c + 1)..h : n \in 1..Len(rows) /\ rows[n].kind = "bad" => Err \in ToSet(t)
      /\ (\A n \in (c + 1)..h : n \in 1..Len(rows) => rows[n].kind # "bad") =>
           Seen(t) = (KeptUpTo(rows, h) \ KeptUpTo(rows, c)) \ {EofAt(rows)}
  <2>1. PICK r : r = rows
    OBVIOUS
  <2>2. /\ InOrder(r, t) /\ Seen(t) \subseteq (c + 1)..h
        /\ \A n \in (c + 1)..h : n \in 1..Len(r) /\ r[n].kind = "bad" => Err \in ToSet(t)
        /\ (\A n \in (c + 1)..h : n \in 1..Len(r) => r[n].kind # "bad") =>
             Seen(t) = (KeptUpTo(r, h) \ KeptUpTo(r, c)) \ {EofAt(r)}
    BY <1>1, <2>1, ListingSeen
  <2> QED BY <2>1, <2>2
<1>3. Seen(t) = (KeptUpTo(rows, h) \ KeptUpTo(rows, c)) \ {EofAt(rows)}
  BY <1>2
<1>4. Limited = {} /\ Limited' = Seen(t) /\ QueueInOrder(rows, <<t>>)
  <2>1. PICK r : r = rows
    OBVIOUS
  <2>2. SeenIn(<<>>) = {} /\ SeenIn(<<t>>) = Seen(t) /\ QueueInOrder(r, <<t>>)
    BY <1>2, <2>1, EmptyQueue, OneBatchQueue
  <2>3. Limited = SeenIn(<<>>) /\ Limited' = SeenIn(<<t>>)
    BY DEF Limited
  <2> QED BY <2>1, <2>2, <2>3
<1>5. Written' = Written /\ Exported' = Exported /\ Optimized' = Optimized /\ Collected' = Collected
  BY DEF Written, Exported, Optimized, Collected
<1>6. PICK U : U = Written \cup Exported \cup Optimized \cup Collected
  OBVIOUS
<1>7. U = KeptUpTo(rows, c) \ {EofAt(rows)}
  BY <1>4, <1>6 DEF PassedUpTo
<1>8. U \subseteq 1..c
  BY <1>7, PassedRows
<1>9. U \cup Seen(t) = KeptUpTo(rows, h) \ {EofAt(rows)}
  BY <1>3, <1>7, PassedRows
<1>10. ASSUME NEW n \in 1..h, n <= Len(rows) PROVE rows[n].kind \in {"match", "miss"}
  <2>1. CASE n \in 1..c
    BY <1>10, <2>1 DEF PassedUpTo
  <2>2. CASE n \in (c + 1)..h
    <3>1. n \in 1..Len(rows)
      BY <1>1, <1>10
    <3>2. rows[n].kind \notin {"fault", "panic", "bad"}
      BY <1>2, <2>2, <3>1
    <3> QED BY <1>1, <3>1, <3>2 DEF RowKinds
  <2> QED BY <1>1, <2>1, <2>2
<1>11. sent' = Cardinality(KeptUpTo(rows, h))
  <2>1. PICK r : r = rows
    OBVIOUS
  <2>2. Cardinality(KeptUpTo(r, h)) = Cardinality(KeptUpTo(r, c)) + Len(t)
    BY <1>1, <2>1, ListingLength
  <2>3. sent = Cardinality(KeptUpTo(r, c))
    BY <2>1 DEF PassedUpTo
  <2> QED BY <2>1, <2>2, <2>3
<1>12. PassedUpTo(h)'
  BY <1>4, <1>5, <1>6, <1>9, <1>10, <1>11 DEF PassedUpTo
<1>13. Before(rows, U, Seen(t))
  BY <1>1, <1>2, <1>8 DEF Before
<1>14. DownstreamInOrder'
  BY <1>4, <1>5, <1>6, <1>13 DEF DownstreamInOrder
<1> QED BY <1>12, <1>14

(* An error that passes the limit reaches the handler: the stages behind   *)
(* it are waiting for their input.                                         *)
LEMMA ErrorPasses ==
  ASSUME PipelineTypes, Chain, live[4] = "run", live' = live, queue'[6] = queue[6],
         HasErr(queue'[4])
  PROVE  Poisoned'
<1> USE Numbers
<1>1. live[5] = "run"
  BY DEF Chain, Closed
<1>2. live[6] = "run" \/ HasErr(queue[6])
  BY <1>1 DEF Chain, Closed
<1> QED BY <1>1, <1>2 DEF Poisoned

(* What the limit does with a batch. *)
LEMMA LimitEffects ==
  ASSUME PipelineTypes, LimitBatch
  PROVE  /\ rows' = rows /\ limit' = limit /\ pos' = pos /\ buf' = buf /\ live' = live
         /\ fpMap' = fpMap /\ body' = body /\ queue[4] = <<>> /\ queue[3] # <<>> /\ live[4] = "run"
         /\ queue'[3] = Tail(queue[3])
         /\ \A g \in {1, 2, 5, 6} : queue'[g] = queue[g]
         /\ \E b \in Seq(Entries(rows)) :
              /\ b = queue[3][1]
              /\ \/ /\ limit > 0 /\ sent >= limit
                    /\ queue'[4] = <<>> /\ sent' = sent /\ ctxDone' = ctxDone
                 \/ /\ limit = 0 \/ sent + Len(b) < limit
                    /\ queue'[4] = <<b>> /\ sent' = sent + Len(b) /\ ctxDone' = ctxDone
                 \/ /\ limit > 0 /\ sent < limit /\ sent + Len(b) >= limit
                    /\ queue'[4] = <<SubSeq(b, 1, limit - sent)>> /\ sent' = limit
<1> USE Numbers
<1>1. /\ rows' = rows /\ limit' = limit /\ pos' = pos /\ buf' = buf /\ live' = live
      /\ fpMap' = fpMap /\ body' = body /\ queue[4] = <<>> /\ queue[3] # <<>> /\ live[4] = "run"
  BY DEF LimitBatch, Meets
<1>2. queue[4 - 1] # <<>> /\ 4 \in 2..6
  BY <1>1
<1>3. PICK b : b = Batch(4) /\ b = queue[3][1] /\ b \in Seq(Entries(rows))
  BY <1>2, BatchType
<1>4. queue \in [1..6 -> Seq(Seq(Entries(rows)))]
  BY TypeFacts DEF Queues, Goroutines
<1>5. \A bs : Forward(4, bs) =>
        /\ queue'[4] = bs /\ queue'[3] = Tail(queue[3])
        /\ \A g \in {1, 2, 5, 6} : queue'[g] = queue[g]
  <2> SUFFICES ASSUME NEW bs, Forward(4, bs)
               PROVE  /\ queue'[4] = bs /\ queue'[3] = Tail(queue[3])
                      /\ \A g \in {1, 2, 5, 6} : queue'[g] = queue[g]
    OBVIOUS
  <2>1. queue' = [queue EXCEPT ![3] = Tail(queue[3]), ![4] = bs]
    BY <1>4 DEF Forward
  <2> QED BY <1>4, <2>1
<1>6. \/ limit > 0 /\ sent >= limit /\ Forward(4, <<>>) /\ sent' = sent /\ ctxDone' = ctxDone
      \/ /\ limit = 0 \/ sent + Len(b) < limit
         /\ Forward(4, <<b>>) /\ sent' = sent + Len(b) /\ ctxDone' = ctxDone
      \/ /\ limit > 0 /\ sent < limit /\ sent + Len(b) >= limit
         /\ Forward(4, <<SubSeq(b, 1, limit - sent)>>) /\ sent' = limit
  BY <1>3 DEF LimitBatch, Cut
<1>7. \E bs : Forward(4, bs)
  BY <1>6
<1>8. queue'[3] = Tail(queue[3]) /\ \A g \in {1, 2, 5, 6} : queue'[g] = queue[g]
  BY <1>5, <1>7
<1>9. \/ limit > 0 /\ sent >= limit /\ queue'[4] = <<>> /\ sent' = sent /\ ctxDone' = ctxDone
      \/ /\ limit = 0 \/ sent + Len(b) < limit
         /\ queue'[4] = <<b>> /\ sent' = sent + Len(b) /\ ctxDone' = ctxDone
      \/ /\ limit > 0 /\ sent < limit /\ sent + Len(b) >= limit
         /\ queue'[4] = <<SubSeq(b, 1, limit - sent)>> /\ sent' = limit
  BY <1>5, <1>6, Zenon
<1> QED BY <1>1, <1>3, <1>8, <1>9

(* The limit keeps the flow: it drops, passes or cuts a batch. *)
LEMMA LimitFlow ==
  ASSUME PipelineTypes, Chain, Flow, LimitBatch
  PROVE  Chain' /\ Flow'
<1> USE Numbers
<1>1. /\ rows' = rows /\ limit' = limit /\ pos' = pos /\ buf' = buf /\ live' = live
      /\ fpMap' = fpMap /\ body' = body /\ queue[4] = <<>> /\ queue[3] # <<>> /\ live[4] = "run"
      /\ queue'[3] = Tail(queue[3]) /\ queue'[1] = queue[1] /\ queue'[2] = queue[2]
      /\ queue'[5] = queue[5] /\ queue'[6] = queue[6]
  BY LimitEffects
<1>2. PICK b \in Seq(Entries(rows)) :
        /\ b = queue[3][1]
        /\ \/ limit > 0 /\ sent >= limit /\ queue'[4] = <<>> /\ sent' = sent /\ ctxDone' = ctxDone
           \/ /\ limit = 0 \/ sent + Len(b) < limit
              /\ queue'[4] = <<b>> /\ sent' = sent + Len(b) /\ ctxDone' = ctxDone
           \/ /\ limit > 0 /\ sent < limit /\ sent + Len(b) >= limit
              /\ queue'[4] = <<SubSeq(b, 1, limit - sent)>> /\ sent' = limit
  BY LimitEffects
<1>3. /\ sent \in Nat /\ limit \in Nat /\ Len(b) \in Nat /\ Len(rows) \in Nat
      /\ EofAt(rows') = EofAt(rows)
      /\ queue[3] \in Seq(Seq(Entries(rows)))
  <2>1. queue[3] \in Seq(Seq(Entries(rows)))
    BY TypeFacts
  <2> QED BY <1>1, <2>1, TypeFacts
<1>4. Chain'
  BY <1>1 DEF Chain, Closed
<1>5. CASE Poisoned
  <2>1. ~HasErr(queue[4])
    BY <1>1, EmptyQueue
  <2>2. Poisoned'
    BY <1>1, <1>5, <2>1 DEF Poisoned
  <2> QED BY <1>4, <2>2 DEF Flow
<1>6. ASSUME NEW t \in Seq(Entries(rows)), Err \in ToSet(t), queue'[4] = <<t>> PROVE Poisoned'
  <2>1. HasErr(<<t>>)
    BY <1>6, OneBatchQueue
  <2> QED BY <1>1, <1>6, <2>1, ErrorPasses
<1>7. CASE ~Poisoned
  <2>1. PICK c \in 0..EofAt(rows) :
          DownstreamInOrder /\ PassedUpTo(c) /\ (Reached \/ Failing \/ Running(c))
    BY <1>7 DEF Flow
  <2>2. CASE Reached
    <3>1. limit > 0 /\ sent = limit
      BY <2>2 DEF Reached
    <3>2. queue'[4] = queue[4] /\ sent' = sent
      BY <1>1, <1>2, <1>3, <3>1
    <3>3. DownstreamInOrder' /\ PassedUpTo(c)'
      BY <1>1, <2>1, <3>2, DownstreamKept
    <3>4. Reached'
      BY <1>1, <3>1, <3>2 DEF Reached
    <3> QED BY <1>3, <1>4, <2>1, <3>3, <3>4 DEF Flow
  <2>3. CASE Failing
    <3>1. limit > 0 => sent < limit
      BY <2>3 DEF Failing, BelowLimit
    <3>2. b = <<Err>>
      <4>1. PICK b1 : b1 = <<Err>>
        OBVIOUS
      <4>2. queue[3] = <<b1>>
        BY <2>3, <4>1 DEF Failing
      <4>3. queue[3][1] = b1
        BY <4>2
      <4> QED BY <1>2, <4>1, <4>3
    <3>3. Len(b) = 1 /\ Err \in ToSet(b) /\ b[1] = Err
      BY <3>2 DEF ToSet
    <3>4. CASE queue'[4] = <<b>>
      BY <1>4, <1>6, <3>3, <3>4 DEF Flow
    <3>5. CASE limit > 0 /\ sent < limit /\ sent + Len(b) >= limit
               /\ queue'[4] = <<SubSeq(b, 1, limit - sent)>>
      <4>1. limit - sent = 1
        BY <1>3, <3>3, <3>5
      <4>2. PICK t : t = SubSeq(b, 1, 1)
        OBVIOUS
      <4>3. t \in Seq(Entries(rows)) /\ Len(t) = 1 /\ t[1] = Err
        BY <1>2, <3>3, <4>2, SubSeqProperties
      <4>4. Err \in ToSet(t)
        BY <4>3 DEF ToSet
      <4>5. queue'[4] = <<t>>
        BY <3>5, <4>1, <4>2
      <4> QED BY <1>4, <1>6, <4>3, <4>4, <4>5 DEF Flow
    <3>6. ~(limit > 0 /\ sent >= limit)
      BY <1>3, <3>1
    <3> QED BY <1>2, <3>4, <3>5, <3>6, Zenon
  <2>4. CASE Running(c)
    <3>1. PICK h3, h2, h1 \in 0..EofAt(rows) : Upstream(c, h3, h2, h1)
      BY <2>4 DEF Running
    <3>2. ~ctxDone /\ (limit > 0 => sent < limit)
      BY <2>4 DEF Running, BelowLimit
    <3>3. /\ Len(queue[3]) = 1 /\ Listing(rows, b, c, h3) /\ c <= h3
          /\ \A n \in (c + 1)..h3 : n > Len(rows) \/ rows[n].kind \notin {"fault", "panic"}
      BY <1>1, <1>2, <3>1 DEF Upstream
    <3>4. c \in Nat /\ h3 \in Nat
      BY <1>3 DEF EofAt
    <3>5. CASE /\ limit = 0 \/ sent + Len(b) < limit
               /\ queue'[4] = <<b>> /\ sent' = sent + Len(b) /\ ctxDone' = ctxDone
      <4>1. CASE Err \in ToSet(b)
        BY <1>4, <1>6, <3>5, <4>1 DEF Flow
      <4>2. CASE Err \notin ToSet(b)
        <5>1. PassedUpTo(h3)' /\ DownstreamInOrder'
          BY <1>1, <2>1, <3>3, <3>5, <4>2, PassBatch
        <5>2. queue'[3] = <<>>
          BY <1>1, <1>3, <3>3, OneLeft
        <5>3. h3 <= h3
          BY <3>4
        <5>4. Upstream(h3, h3, h2, h1)'
          BY <1>1, <3>1, <5>2, <5>3 DEF Upstream, Closed
        <5>5. BelowLimit' /\ ~ctxDone'
          BY <1>1, <1>3, <3>2, <3>5 DEF BelowLimit
        <5>6. Running(h3)'
          BY <1>3, <5>4, <5>5 DEF Running
        <5> QED BY <1>3, <1>4, <5>1, <5>6 DEF Flow
      <4> QED BY <4>1, <4>2
    <3>6. CASE /\ limit > 0 /\ sent < limit /\ sent + Len(b) >= limit
               /\ queue'[4] = <<SubSeq(b, 1, limit - sent)>> /\ sent' = limit
      <4>1. PICK m \in 1..Len(b) : m = limit - sent
        BY <1>3, <3>6
      <4>2. PICK r : r = rows
        OBVIOUS
      <4>3. Len(SubSeq(b, 1, m)) = m /\ \E h \in (c + 1)..h3 : Listing(r, SubSeq(b, 1, m), c, h)
        BY <3>3, <3>4, <4>2, CutListing
      <4>4. PICK t : t = SubSeq(b, 1, m)
        OBVIOUS
      <4>5. PICK h \in (c + 1)..h3 : Listing(rows, t, c, h)
        BY <4>2, <4>3, <4>4
      <4>6. t \in Seq(Entries(rows)) /\ Len(t) = m
        BY <1>2, <4>3, <4>4, SubSeqProperties
      <4>7. queue'[4] = <<t>> /\ sent' = sent + Len(t)
        BY <1>3, <3>6, <4>1, <4>4, <4>6
      <4>8. h \in 0..EofAt(rows) /\ c <= h
            /\ \A n \in (c + 1)..h : n > Len(rows) \/ rows[n].kind \notin {"fault", "panic"}
        BY <1>3, <3>3, <3>4 DEF EofAt
      <4>9. CASE Err \in ToSet(t)
        BY <1>4, <1>6, <4>6, <4>7, <4>9 DEF Flow
      <4>10. CASE Err \notin ToSet(t)
        <5>1. PassedUpTo(h)' /\ DownstreamInOrder'
          BY <1>1, <2>1, <4>5, <4>6, <4>7, <4>8, <4>10, PassBatch
        <5>2. Reached'
          BY <1>1, <3>6 DEF Reached
        <5> QED BY <1>3, <1>4, <4>8, <5>1, <5>2 DEF Flow
      <4> QED BY <4>9, <4>10
    <3>7. ~(limit > 0 /\ sent >= limit)
      BY <1>3, <3>2
    <3> QED BY <1>2, <3>5, <3>6, <3>7, Zenon
  <2> QED BY <2>1, <2>2, <2>3, <2>4
<1> QED BY <1>5, <1>7
-----------------------------------------------------------------------------
(* The stages behind the limit. *)

(* Before and unions. *)
LEMMA BeforeUnion ==
  ASSUME NEW r, NEW A, NEW B, NEW C
  PROVE  /\ Before(r, A \cup B, C) <=> Before(r, A, C) /\ Before(r, B, C)
         /\ Before(r, C, A \cup B) <=> Before(r, C, A) /\ Before(r, C, B)
         /\ Before(r, {}, C) /\ Before(r, C, {})
BY DEF Before

(* The rows of the optimizer and behind it, and what moves between them.   *)
LEMMA OptimizeMoves ==
  ASSUME PipelineTypes, DownstreamInOrder, live[5] = "run", queue[5] = <<>>,
         NEW all \in Seq(Entries(rows)), InOrder(rows, all),
         Seen(all) \cup Limited' = Seen(fpMap) \cup Limited, Limited' \subseteq Limited,
         Seen(fpMap) \subseteq Seen(all), Before(rows, Seen(all), Limited'),
         rows' = rows, body' = body, sent' = sent,
         queue'[6] = queue[6], QueueInOrder(rows, queue'[4]), live'[6] = live[6],
         \/ queue'[5] = <<>> /\ fpMap' = all /\ live'[5] = "run"
         \/ SeenIn(queue'[5]) = Seen(all) /\ QueueInOrder(rows, queue'[5])
            /\ (fpMap' = <<>> \/ live'[5] # "run")
  PROVE  DownstreamInOrder' /\ \A c \in 0..EofAt(rows) : PassedUpTo(c) => PassedUpTo(c)'
<1> USE Numbers
<1>1. Written' = Written /\ Exported' = Exported
  BY DEF Written, Exported
<1>2. Collected = Seen(fpMap) /\ Optimized = {}
  BY EmptyQueue DEF Collected, Optimized
<1>3. Seen(<<>>) = {} /\ InOrder(rows, <<>>)
  BY DEF Seen, InOrder
<1>4. \/ Optimized' = {} /\ Collected' = Seen(all)
      \/ Optimized' = Seen(all) /\ Collected' = {}
  BY <1>3, EmptyQueue DEF Collected, Optimized
<1>5. QueueInOrder(rows, queue'[5]) /\ (live'[5] = "run" => InOrder(rows, fpMap'))
  <2>1. PICK r : r = rows
    OBVIOUS
  <2>2. QueueInOrder(r, <<>>)
    BY EmptyQueue
  <2> QED BY <1>3, <2>1, <2>2
<1>6. PICK A : A = Written \cup Exported
  OBVIOUS
<1>7. Before(rows, A, Seen(fpMap)) /\ Before(rows, A, Limited) /\ Before(rows, Written, Exported)
  <2>1. Before(rows, A \cup {}, Seen(fpMap)) /\ Before(rows, A \cup {} \cup Seen(fpMap), Limited)
    BY <1>2, <1>6 DEF DownstreamInOrder
  <2> QED BY <2>1 DEF Before, DownstreamInOrder
<1>8. Before(rows, A, Seen(all)) /\ Before(rows, A, Limited')
  BY <1>7 DEF Before
<1>9. /\ Before(rows, A, Optimized') /\ Before(rows, A \cup Optimized', Collected')
      /\ Before(rows, A \cup Optimized' \cup Collected', Limited')
  BY <1>4, <1>8 DEF Before
<1>10. DownstreamInOrder'
  BY <1>1, <1>5, <1>6, <1>7, <1>9 DEF DownstreamInOrder
<1>11. Optimized' \cup Collected' \cup Limited' = Optimized \cup Collected \cup Limited
  BY <1>2, <1>4
<1>12. ASSUME NEW c \in 0..EofAt(rows), PassedUpTo(c) PROVE PassedUpTo(c)'
  <2>1. Written' \cup Exported' \cup Optimized' \cup Collected' \cup Limited'
          = KeptUpTo(rows, c) \ {EofAt(rows)}
    BY <1>1, <1>11, <1>12 DEF PassedUpTo
  <2> QED BY <1>12, <2>1 DEF PassedUpTo
<1> QED BY <1>10, <1>12

UpstreamUnchanged ==
  /\ rows' = rows /\ limit' = limit /\ sent' = sent
  /\ ctxDone' = ctxDone /\ pos' = pos /\ buf' = buf
  /\ queue'[1] = queue[1] /\ queue'[2] = queue[2] /\ queue'[3] = queue[3]
  /\ live'[1] = live[1] /\ live'[2] = live[2] /\ live'[3] = live[3]

(* It is enough that the rows which have passed stay and are in order. *)
LEMMA FlowMoves ==
  ASSUME Flow, ~Poisoned, UpstreamUnchanged,
         DownstreamInOrder =>
           DownstreamInOrder' /\ \A c \in 0..EofAt(rows) : PassedUpTo(c) => PassedUpTo(c)'
  PROVE  Flow'
<1>1. PICK c \in 0..EofAt(rows) :
        DownstreamInOrder /\ PassedUpTo(c) /\ (Reached \/ Failing \/ Running(c))
  BY DEF Flow
<1>2. /\ Reached' <=> Reached
      /\ Failing' <=> Failing
      /\ Running(c)' <=> Running(c)
  BY UpstreamKept DEF UpstreamUnchanged
<1>3. c \in 0..EofAt(rows')
  BY DEF UpstreamUnchanged
<1> QED BY <1>1, <1>2, <1>3 DEF Flow

(* The optimizer keeps the flow, whether it collects or sends. *)
LEMMA OptimizeFlow ==
  ASSUME PipelineTypes, Chain, Flow, Optimize
  PROVE  Chain' /\ Flow'
<1> USE Numbers
<1>1. /\ live[5] = "run" /\ queue[5] = <<>> /\ queue[4] # <<>> /\ live' = live /\ body' = body
      /\ rows' = rows /\ limit' = limit /\ sent' = sent
      /\ ctxDone' = ctxDone /\ pos' = pos /\ buf' = buf
  BY DEF Optimize, Meets
<1>2. queue[5 - 1] # <<>> /\ 5 \in 2..6
  BY <1>1
<1>3. PICK b : b = Batch(5) /\ b \in Seq(Entries(rows)) /\ b = Head(queue[4])
  <2>1. Batch(5) \in Seq(Entries(rows))
    BY <1>2, BatchType
  <2> QED BY <2>1 DEF Batch
<1>4. PICK all : all = fpMap \o b
  OBVIOUS
<1>5. Len(rows) \in Nat /\ fpMap \in Seq(Entries(rows)) /\ queue[4] \in Seq(Seq(Entries(rows)))
  <2>1. queue[4] \in Seq(Seq(Entries(rows)))
    BY TypeFacts
  <2> QED BY <2>1, TypeFacts
<1>6. /\ all \in Seq(Entries(rows)) /\ Seen(all) = Seen(fpMap) \cup Seen(b)
      /\ Err \in ToSet(fpMap) \/ Err \in ToSet(b) => Err \in ToSet(all)
      /\ InOrder(rows, fpMap) /\ InOrder(rows, b) /\ Before(rows, Seen(fpMap), Seen(b))
           => InOrder(rows, all)
  <2>1. PICK r : r = rows
    OBVIOUS
  <2>2. /\ all \in Seq(Entries(r)) /\ Seen(all) = Seen(fpMap) \cup Seen(b)
        /\ Err \in ToSet(fpMap) \/ Err \in ToSet(b) => Err \in ToSet(all)
        /\ InOrder(r, fpMap) /\ InOrder(r, b) /\ Before(r, Seen(fpMap), Seen(b)) => InOrder(r, all)
    BY <1>3, <1>4, <1>5, <2>1, ConcatSeen
  <2> QED BY <2>1, <2>2
<1>7. PICK bs : /\ Forward(5, bs)
                /\ \/ fpMap' = all /\ bs = <<>>
                   \/ fpMap' = <<>> /\ bs \in Batches(all)
  BY <1>3, <1>4 DEF Optimize
<1>8. /\ queue'[1] = queue[1] /\ queue'[2] = queue[2] /\ queue'[3] = queue[3]
      /\ queue'[4] = Tail(queue[4]) /\ queue'[5] = bs /\ queue'[6] = queue[6]
  <2>1. queue \in [1..6 -> Seq(Seq(Entries(rows)))]
    BY TypeFacts DEF Queues, Goroutines
  <2>2. queue' = [queue EXCEPT ![4] = Tail(queue[4]), ![5] = bs]
    BY <1>7, <2>1 DEF Forward
  <2> QED BY <2>1, <2>2
<1>9. \/ fpMap' = all /\ bs = <<>>
      \/ /\ fpMap' = <<>> /\ SeenIn(bs) = Seen(all) /\ (Err \in ToSet(all) => HasErr(bs))
         /\ InOrder(rows, all) => QueueInOrder(rows, bs)
  <2>1. CASE bs \in Batches(all)
    BY <1>5, <1>6, <1>7, <2>1, BatchesFacts
  <2> QED BY <1>7, <2>1
<1>10. PICK q : q = queue[4]
  OBVIOUS
<1>11. /\ SeenIn(q) = Seen(b) \cup SeenIn(Tail(q))
       /\ HasErr(q) <=> Err \in ToSet(b) \/ HasErr(Tail(q))
       /\ QueueInOrder(rows, q) => /\ InOrder(rows, b) /\ QueueInOrder(rows, Tail(q))
                                   /\ Before(rows, Seen(b), SeenIn(Tail(q)))
  <2>1. PICK r : r = rows
    OBVIOUS
  <2>2. /\ SeenIn(q) = Seen(Head(q)) \cup SeenIn(Tail(q))
        /\ HasErr(q) <=> Err \in ToSet(Head(q)) \/ HasErr(Tail(q))
        /\ QueueInOrder(r, q) => /\ InOrder(r, Head(q)) /\ QueueInOrder(r, Tail(q))
                                 /\ Before(r, Seen(Head(q)), SeenIn(Tail(q)))
    BY <1>1, <1>5, <1>10, HeadAndTail
  <2> QED BY <1>3, <1>10, <2>1, <2>2
<1>12. Chain'
  BY <1>1, <1>8 DEF Chain, Closed
<1>13. CASE Poisoned
  <2>1. ~HasErr(queue[5])
    BY <1>1, EmptyQueue
  <2>2. Poisoned'
    BY <1>1, <1>6, <1>8, <1>9, <1>10, <1>11, <1>13, <2>1 DEF Poisoned
  <2> QED BY <1>12, <2>2 DEF Flow
<1>14. CASE ~Poisoned
  <2>1. ASSUME DownstreamInOrder
        PROVE  DownstreamInOrder' /\ \A c \in 0..EofAt(rows) : PassedUpTo(c) => PassedUpTo(c)'
    <3>1. /\ QueueInOrder(rows, q) /\ InOrder(rows, fpMap) /\ Before(rows, Seen(fpMap), SeenIn(q))
      BY <1>1, <1>10, <2>1, BeforeUnion DEF DownstreamInOrder, Collected, Limited
    <3>2. InOrder(rows, all)
      <4>1. Before(rows, Seen(fpMap), Seen(b))
        BY <1>11, <3>1 DEF Before
      <4> QED BY <1>6, <1>11, <3>1, <4>1
    <3>3. Limited = SeenIn(q) /\ Limited' = SeenIn(Tail(q))
      BY <1>8, <1>10 DEF Limited
    <3>4. Before(rows, Seen(all), Limited')
      BY <1>6, <1>11, <3>1, <3>3 DEF Before
    <3>5. Seen(all) \cup Limited' = Seen(fpMap) \cup Limited /\ Limited' \subseteq Limited
          /\ Seen(fpMap) \subseteq Seen(all)
      BY <1>6, <1>11, <3>3
    <3>6. QueueInOrder(rows, queue'[4])
      BY <1>8, <1>10, <1>11, <3>1
    <3> QED BY <1>1, <1>6, <1>8, <1>9, <2>1, <3>2, <3>4, <3>5, <3>6, OptimizeMoves
  <2>2. UpstreamUnchanged
    BY <1>1, <1>8 DEF UpstreamUnchanged
  <2>3. Flow'
    BY <1>14, <2>1, <2>2, FlowMoves
  <2> QED BY <1>12, <2>3
<1> QED BY <1>13, <1>14

(* What the optimizer holds when its input ends is sent. *)
LEMMA OptimizerEnds ==
  ASSUME PipelineTypes, Chain, Flow, InputEnds(Optimizer)
  PROVE  Chain' /\ Flow'
<1> USE Numbers
<1>1. /\ live[5] = "run" /\ queue[5] = <<>> /\ Closed(4) /\ body' = body /\ fpMap' = fpMap
      /\ rows' = rows /\ limit' = limit /\ sent' = sent
      /\ ctxDone' = ctxDone /\ pos' = pos /\ buf' = buf
  BY DEF InputEnds
<1>2. PICK bs \in Batches(fpMap) : Emit(5, bs)
  BY DEF InputEnds
<1>3. Len(rows) \in Nat /\ fpMap \in Seq(Entries(rows))
  BY TypeFacts
<1>4. /\ SeenIn(bs) = Seen(fpMap) /\ (Err \in ToSet(fpMap) => HasErr(bs))
      /\ InOrder(rows, fpMap) => QueueInOrder(rows, bs)
  BY <1>2, <1>3, BatchesFacts
<1>5. /\ queue'[1] = queue[1] /\ queue'[2] = queue[2] /\ queue'[3] = queue[3]
      /\ queue'[4] = queue[4] /\ queue'[5] = bs /\ queue'[6] = queue[6]
  <2>1. queue \in [1..6 -> Seq(Seq(Entries(rows)))]
    BY TypeFacts DEF Queues, Goroutines
  <2> QED BY <1>2, <2>1 DEF Emit
<1>6. /\ live'[1] = live[1] /\ live'[2] = live[2] /\ live'[3] = live[3]
      /\ live'[4] = live[4] /\ live'[5] = "end" /\ live'[6] = live[6]
  <2>1. End(5)
    BY DEF InputEnds
  <2> QED BY <2>1, EndFacts
<1>7. queue[4] = <<>>
  BY <1>1 DEF Closed
<1>8. SeenIn(queue[4]) = {} /\ ~HasErr(queue[4]) /\ ~HasErr(queue[5])
  BY <1>1, <1>7, EmptyQueue
<1>9. Chain'
  BY <1>1, <1>5, <1>6 DEF Chain, Closed
<1>10. CASE Poisoned
  <2>1. Poisoned'
    BY <1>1, <1>4, <1>5, <1>6, <1>8, <1>10 DEF Poisoned
  <2> QED BY <1>9, <2>1 DEF Flow
<1>11. CASE ~Poisoned
  <2>1. ASSUME DownstreamInOrder
        PROVE  DownstreamInOrder' /\ \A c \in 0..EofAt(rows) : PassedUpTo(c) => PassedUpTo(c)'
    <3>1. InOrder(rows, fpMap) /\ QueueInOrder(rows, queue'[4])
      BY <1>1, <1>5, <2>1 DEF DownstreamInOrder
    <3>2. Limited = {} /\ Limited' = {}
      BY <1>5, <1>8 DEF Limited
    <3>3. Before(rows, Seen(fpMap), Limited')
      BY <3>2 DEF Before
    <3>4. Seen(fpMap) \cup Limited' = Seen(fpMap) \cup Limited /\ Limited' \subseteq Limited
          /\ Seen(fpMap) \subseteq Seen(fpMap)
      BY <3>2
    <3>5. SeenIn(queue'[5]) = Seen(fpMap) /\ QueueInOrder(rows, queue'[5]) /\ live'[5] # "run"
      BY <1>4, <1>5, <1>6, <3>1
    <3> QED BY <1>1, <1>3, <1>5, <1>6, <2>1, <3>1, <3>3, <3>4, <3>5, OptimizeMoves
  <2>2. UpstreamUnchanged
    BY <1>1, <1>5, <1>6 DEF UpstreamUnchanged
  <2>3. Flow'
    BY <1>11, <2>1, <2>2, FlowMoves
  <2> QED BY <1>9, <2>3
<1> QED BY <1>10, <1>11

(* The exporter keeps the flow, and ends early only with an error. *)
LEMMA ExportFlow ==
  ASSUME PipelineTypes, Chain, Flow, Export
  PROVE  Chain' /\ Flow'
<1> USE Numbers
<1>1. /\ live[6] = "run" /\ queue[6] = <<>> /\ queue[5] # <<>> /\ body' = body /\ fpMap' = fpMap
      /\ rows' = rows /\ limit' = limit /\ sent' = sent
      /\ ctxDone' = ctxDone /\ pos' = pos /\ buf' = buf
  BY DEF Export, Meets
<1>2. PICK b \in Seq(Entries(rows)), bs \in Seq(Seq(Entries(rows))) :
        /\ b = Head(queue[5]) /\ Forward(6, bs)
        /\ \/ /\ Err \notin ToSet(b) /\ live' = live /\ SeenIn(bs) = Seen(b)
              /\ InOrder(rows, b) => QueueInOrder(rows, bs)
           \/ HasErr(bs) /\ End(6)
  BY ExportFacts
<1>3. /\ queue'[1] = queue[1] /\ queue'[2] = queue[2] /\ queue'[3] = queue[3]
      /\ queue'[4] = queue[4] /\ queue'[5] = Tail(queue[5]) /\ queue'[6] = bs
  <2>1. queue \in [1..6 -> Seq(Seq(Entries(rows)))]
    BY TypeFacts DEF Queues, Goroutines
  <2>2. queue' = [queue EXCEPT ![5] = Tail(queue[5]), ![6] = bs]
    BY <1>2, <2>1 DEF Forward
  <2> QED BY <2>1, <2>2
<1>4. PICK q : q = queue[5]
  OBVIOUS
<1>5. /\ SeenIn(q) = Seen(b) \cup SeenIn(Tail(q))
      /\ HasErr(q) <=> Err \in ToSet(b) \/ HasErr(Tail(q))
      /\ QueueInOrder(rows, q) => /\ InOrder(rows, b) /\ QueueInOrder(rows, Tail(q))
                                  /\ Before(rows, Seen(b), SeenIn(Tail(q)))
  <2>1. PICK r : r = rows
    OBVIOUS
  <2>2. q \in Seq(Seq(Entries(rows)))
    BY <1>4, TypeFacts
  <2>3. /\ SeenIn(q) = Seen(Head(q)) \cup SeenIn(Tail(q))
        /\ HasErr(q) <=> Err \in ToSet(Head(q)) \/ HasErr(Tail(q))
        /\ QueueInOrder(r, q) => /\ InOrder(r, Head(q)) /\ QueueInOrder(r, Tail(q))
                                 /\ Before(r, Seen(Head(q)), SeenIn(Tail(q)))
    BY <1>1, <1>4, <2>2, HeadAndTail
  <2> QED BY <1>2, <1>4, <2>1, <2>3
<1>6. CASE HasErr(bs) /\ End(6)
  <2>1. live'[3] = live[3] /\ live'[4] = live[4] /\ live'[5] = live[5]
    BY <1>6, EndFacts
  <2>2. Chain'
    BY <1>3, <1>6, <2>1 DEF Chain, Closed
  <2>3. Poisoned'
    BY <1>3, <1>6 DEF Poisoned
  <2> QED BY <2>2, <2>3 DEF Flow
<1>7. CASE /\ Err \notin ToSet(b) /\ live' = live /\ SeenIn(bs) = Seen(b)
           /\ InOrder(rows, b) => QueueInOrder(rows, bs)
  <2>1. Chain'
    BY <1>1, <1>3, <1>7 DEF Chain, Closed
  <2>2. CASE Poisoned
    <3>1. ~HasErr(queue[6])
      BY <1>1, EmptyQueue
    <3>2. HasErr(queue[5]) => HasErr(queue'[5])
      BY <1>3, <1>4, <1>5, <1>7
    <3>3. Poisoned'
      BY <1>1, <1>3, <1>7, <2>2, <3>1, <3>2 DEF Poisoned
    <3> QED BY <2>1, <3>3 DEF Flow
  <2>3. CASE ~Poisoned
    <3>1. Written' = Written /\ Collected' = Collected /\ Limited' = Limited
      BY <1>1, <1>3, <1>7 DEF Written, Collected, Limited
    <3>2. Exported = {}
      BY <1>1, EmptyQueue DEF Exported
    <3>3. Exported' = Seen(b) /\ Optimized' = SeenIn(Tail(q)) /\ Optimized = SeenIn(q)
      BY <1>3, <1>4, <1>7 DEF Exported, Optimized
    <3>4. Exported' \cup Optimized' = Exported \cup Optimized
      BY <1>5, <3>2, <3>3
    <3>5. ASSUME DownstreamInOrder PROVE DownstreamInOrder'
      <4>1. QueueInOrder(rows, q)
        BY <1>4, <3>5 DEF DownstreamInOrder
      <4>2. /\ QueueInOrder(rows, queue'[6]) /\ QueueInOrder(rows, queue'[5])
            /\ Before(rows, Exported', Optimized')
        BY <1>3, <1>4, <1>5, <1>7, <3>3, <4>1
      <4>3. /\ Before(rows, Written \cup Exported, Optimized)
            /\ Before(rows, Written \cup Exported \cup Optimized, Collected)
            /\ Before(rows, Written \cup Exported \cup Optimized \cup Collected, Limited)
        BY <3>5 DEF DownstreamInOrder
      <4>4. Before(rows, Written, Optimized)
        BY <4>3 DEF Before
      <4>5. Before(rows, Written, Exported') /\ Before(rows, Written \cup Exported', Optimized')
        BY <1>5, <3>3, <4>2, <4>4 DEF Before
      <4>6. Written \cup Exported' \cup Optimized' = Written \cup Exported \cup Optimized
        BY <3>4
      <4> QED BY <1>1, <1>3, <1>7, <3>1, <3>5, <4>2, <4>3, <4>5, <4>6 DEF DownstreamInOrder
    <3>6. ASSUME NEW c \in 0..EofAt(rows), PassedUpTo(c) PROVE PassedUpTo(c)'
      <4>1. Written' \cup Exported' \cup Optimized' \cup Collected' \cup Limited'
              = KeptUpTo(rows, c) \ {EofAt(rows)}
        BY <3>1, <3>4, <3>6 DEF PassedUpTo
      <4> QED BY <1>1, <3>6, <4>1 DEF PassedUpTo
    <3>7. UpstreamUnchanged
      BY <1>1, <1>3, <1>7 DEF UpstreamUnchanged
    <3>8. Flow'
      BY <2>3, <3>5, <3>6, <3>7, FlowMoves
    <3> QED BY <2>1, <3>8
  <2> QED BY <2>2, <2>3
<1> QED BY <1>2, <1>6, <1>7

(* The limit or the exporter finds its input closed. *)
LEMMA EndsFlow ==
  ASSUME PipelineTypes, Chain, Flow, InputEnds(Limiter) \/ InputEnds(Exporter)
  PROVE  Chain' /\ Flow'
<1> USE Numbers
<1>1. /\ queue' = queue /\ body' = body /\ fpMap' = fpMap
      /\ rows' = rows /\ limit' = limit /\ sent' = sent
      /\ ctxDone' = ctxDone /\ pos' = pos /\ buf' = buf
  BY DEF InputEnds
<1>2. CASE InputEnds(Limiter)
  <2>1. live[4] = "run" /\ Closed(3) /\ End(4)
    BY <1>2 DEF InputEnds
  <2>2. /\ live'[1] = live[1] /\ live'[2] = live[2] /\ live'[3] = live[3]
        /\ live'[4] = "end" /\ live'[5] = live[5] /\ live'[6] = live[6]
    BY <2>1, EndFacts
  <2>3. Chain'
    BY <1>1, <2>1, <2>2 DEF Chain, Closed
  <2>4. /\ Poisoned' <=> Poisoned
        /\ DownstreamInOrder' <=> DownstreamInOrder
        /\ \A c \in 0..EofAt(rows) : PassedUpTo(c)' <=> PassedUpTo(c)
    BY <1>1, <2>2, DownstreamKept
  <2>5. UpstreamUnchanged
    BY <1>1, <2>2 DEF UpstreamUnchanged
  <2>6. CASE Poisoned
    BY <2>3, <2>4, <2>6 DEF Flow
  <2>7. CASE ~Poisoned
    BY <2>3, <2>4, <2>5, <2>7, FlowMoves
  <2> QED BY <2>6, <2>7
<1>3. CASE InputEnds(Exporter)
  <2>1. live[6] = "run" /\ queue[6] = <<>> /\ Closed(5) /\ End(6)
    BY <1>3 DEF InputEnds
  <2>2. /\ live'[1] = live[1] /\ live'[2] = live[2] /\ live'[3] = live[3]
        /\ live'[4] = live[4] /\ live'[5] = live[5] /\ live'[6] = "end"
    BY <2>1, EndFacts
  <2>3. Chain'
    BY <1>1, <2>1, <2>2 DEF Chain, Closed
  <2>4. ~Poisoned
    <3>1. ~HasErr(queue[6]) /\ ~HasErr(queue[5]) /\ live[5] # "run"
      BY <2>1, EmptyQueue DEF Closed
    <3> QED BY <3>1 DEF Poisoned
  <2>5. Written' = Written /\ Exported' = Exported /\ Optimized' = Optimized
        /\ Collected' = Collected /\ Limited' = Limited
    BY <1>1, <2>2 DEF Written, Exported, Optimized, Collected, Limited
  <2>6. DownstreamInOrder => DownstreamInOrder'
    BY <1>1, <2>2, <2>5 DEF DownstreamInOrder
  <2>7. \A c \in 0..EofAt(rows) : PassedUpTo(c) => PassedUpTo(c)'
    BY <1>1, <2>5 DEF PassedUpTo
  <2>8. UpstreamUnchanged
    BY <1>1, <2>2 DEF UpstreamUnchanged
  <2> QED BY <2>3, <2>4, <2>6, <2>7, <2>8, FlowMoves
<1> QED BY <1>2, <1>3

(* The handler keeps the flow. *)
LEMMA ServeFlow ==
  ASSUME PipelineTypes, Chain, Flow, Serve, answer = "serving", answer' = "serving"
  PROVE  Chain' /\ Flow'
<1> USE Numbers
<1>1. /\ live' = live /\ fpMap' = fpMap /\ rows' = rows /\ limit' = limit /\ sent' = sent
      /\ pos' = pos /\ buf' = buf
  BY DEF Serve
<1>2. PICK e \in Entries(rows) :
        /\ queue[6] # <<>> /\ Head(queue[6]) \in Seq(Entries(rows))
        /\ DOMAIN Head(queue[6]) = {1} /\ Head(queue[6])[1] = e
        /\ queue' \in Queues /\ queue'[6] = Tail(queue[6])
        /\ \A h \in 1..5 : queue'[h] = queue[h]
        /\ e.kind = "row" /\ e.row \in 1..Len(rows) /\ body' = Append(body, e.row)
        /\ ctxDone' = ctxDone
  BY ServeFacts
<1>3. /\ queue'[1] = queue[1] /\ queue'[2] = queue[2] /\ queue'[3] = queue[3]
      /\ queue'[4] = queue[4] /\ queue'[5] = queue[5]
  BY <1>2
<1>4. PICK q \in Seq(Seq(Entries(rows))) : q = queue[6]
  <2>1. queue[6] \in Seq(Seq(Entries(rows)))
    BY TypeFacts
  <2> QED BY <2>1
<1>5. PICK x \in 1..Len(rows) : x = e.row
  BY <1>2
<1>6. Seen(Head(q)) = {x} /\ Err \notin ToSet(Head(q))
  <2>1. PICK b : b = Head(q)
    OBVIOUS
  <2>2. DOMAIN b = {1} /\ b[1] = e /\ e.kind = "row" /\ e.row = x
    BY <1>2, <1>4, <1>5, <2>1
  <2>3. \A n : n \in Seen(b) <=> n = x
    BY <2>2, SeenFacts
  <2>4. Err \notin ToSet(b)
    BY <2>2 DEF ToSet, Err
  <2> QED BY <2>1, <2>3, <2>4
<1>7. /\ SeenIn(q) = {x} \cup SeenIn(Tail(q))
      /\ HasErr(q) <=> HasErr(Tail(q))
      /\ QueueInOrder(rows, q) => /\ QueueInOrder(rows, Tail(q))
                                  /\ Before(rows, {x}, SeenIn(Tail(q)))
  <2>1. PICK r : r = rows
    OBVIOUS
  <2>2. /\ SeenIn(q) = Seen(Head(q)) \cup SeenIn(Tail(q))
        /\ HasErr(q) <=> Err \in ToSet(Head(q)) \/ HasErr(Tail(q))
        /\ QueueInOrder(r, q) => /\ InOrder(r, Head(q)) /\ QueueInOrder(r, Tail(q))
                                 /\ Before(r, Seen(Head(q)), SeenIn(Tail(q)))
    BY <1>2, <1>4, HeadAndTail
  <2> QED BY <1>6, <2>1, <2>2
<1>8. queue'[6] = Tail(q)
  BY <1>2, <1>4
<1>9. HasErr(queue'[6]) <=> HasErr(queue[6])
  BY <1>4, <1>7, <1>8
<1>10. Chain'
  BY <1>1, <1>3, <1>9 DEF Chain, Closed
<1>11. CASE Poisoned
  <2>1. Poisoned'
    BY <1>1, <1>3, <1>9, <1>11 DEF Poisoned
  <2> QED BY <1>10, <2>1 DEF Flow
<1>12. CASE ~Poisoned
  <2>1. Optimized' = Optimized /\ Collected' = Collected /\ Limited' = Limited
    BY <1>1, <1>3 DEF Optimized, Collected, Limited
  <2>2. Exported = {x} \cup Exported' /\ Exported' = SeenIn(Tail(q))
    BY <1>4, <1>7, <1>8 DEF Exported
  <2>3. PICK L \in Nat : /\ L = Len(body) /\ DOMAIN body = 1..L /\ DOMAIN body' = 1..(L + 1)
                         /\ body'[L + 1] = x /\ \A i \in 1..L : body'[i] = body[i]
    <3>1. body \in Seq(1..Len(rows)) /\ body' = Append(body, x)
      BY <1>2, <1>5, TypeFacts
    <3>2. Len(body) \in Nat
      BY <3>1
    <3> QED BY <3>1, <3>2
  <2>4. Written' = Written \cup {x}
    <3>1. \A n : n \in Written' <=> n \in Written \/ n = x
      <4>1. \A i \in 1..(L + 1) : i = L + 1 \/ i \in 1..L
        OBVIOUS
      <4>2. \A i \in 1..L : i \in 1..(L + 1)
        OBVIOUS
      <4>3. L + 1 \in 1..(L + 1)
        OBVIOUS
      <4> QED BY <2>3, <4>1, <4>2, <4>3 DEF Written, ToSet
    <3> QED BY <3>1
  <2>5. ASSUME DownstreamInOrder PROVE DownstreamInOrder'
    <3>1. /\ \A i, j \in DOMAIN body :
               i < j /\ rows[body[i]].fp = rows[body[j]].fp => body[i] < body[j]
          /\ QueueInOrder(rows, q) /\ Before(rows, Written, Exported)
          /\ Before(rows, Written \cup Exported, Optimized)
          /\ Before(rows, Written \cup Exported \cup Optimized, Collected)
          /\ Before(rows, Written \cup Exported \cup Optimized \cup Collected, Limited)
      BY <1>4, <2>5 DEF DownstreamInOrder
    <3>2. ASSUME NEW i \in 1..(L + 1), NEW j \in 1..(L + 1), i < j,
                 rows[body'[i]].fp = rows[body'[j]].fp
          PROVE  body'[i] < body'[j]
      <4>1. i \in 1..L /\ body'[i] = body[i]
        BY <2>3, <3>2
      <4>2. CASE j \in 1..L
        BY <2>3, <3>1, <3>2, <4>1, <4>2
      <4>3. CASE j = L + 1
        <5>1. body[i] \in Written /\ x \in Exported
          BY <2>2, <2>3, <4>1 DEF Written, ToSet
        <5> QED BY <2>3, <3>1, <3>2, <4>1, <4>3, <5>1 DEF Before
      <4> QED BY <4>2, <4>3
    <3>3. QueueInOrder(rows, queue'[6]) /\ Before(rows, {x}, Exported')
      BY <1>7, <1>8, <2>2, <3>1
    <3>4. Before(rows, Written', Exported')
      BY <2>2, <2>4, <3>1, <3>3 DEF Before
    <3>5. Written' \cup Exported' = Written \cup Exported
      BY <2>2, <2>4
    <3> QED BY <1>1, <1>3, <2>1, <2>3, <2>5, <3>1, <3>2, <3>3, <3>4, <3>5 DEF DownstreamInOrder
  <2>6. ASSUME NEW c \in 0..EofAt(rows), PassedUpTo(c) PROVE PassedUpTo(c)'
    <3>1. Written' \cup Exported' \cup Optimized' \cup Collected' \cup Limited'
            = KeptUpTo(rows, c) \ {EofAt(rows)}
      BY <2>1, <2>2, <2>4, <2>6 DEF PassedUpTo
    <3> QED BY <1>1, <2>6, <3>1 DEF PassedUpTo
  <2>7. UpstreamUnchanged
    BY <1>1, <1>2, <1>3 DEF UpstreamUnchanged
  <2>8. Flow'
    BY <1>12, <2>5, <2>6, <2>7, FlowMoves
  <2> QED BY <1>10, <2>8
<1> QED BY <1>11, <1>12
-----------------------------------------------------------------------------
(* The answer. *)

(* The matching rows are finitely many. *)
LEMMA MatchingFinite ==
  ASSUME PipelineTypes, NEW S, S \subseteq Matching
  PROVE  IsFiniteSet(S) /\ Cardinality(S) \in Nat /\ Cardinality(S) <= Cardinality(Matching)
<1>1. Len(rows) \in Nat /\ DOMAIN rows = 1..Len(rows)
  BY TypeFacts
<1>2. IsFiniteSet(1..Len(rows))
  BY <1>1, FirstNumbers
<1>3. Matching \in SUBSET (1..Len(rows))
  BY <1>1 DEF Matching
<1>4. IsFiniteSet(Matching)
  BY <1>2, <1>3, FS_Subset
<1> QED BY <1>4, FS_Subset, FS_CardinalityType

(* The rows up to c that pass are the matching ones among them. *)
LEMMA PassedAreMatching ==
  ASSUME PipelineTypes, NEW c \in 0..EofAt(rows),
         \A n \in 1..c : n <= Len(rows) => rows[n].kind \in {"match", "miss"}
  PROVE  KeptUpTo(rows, c) \ {EofAt(rows)} = {n \in Matching : n <= c}
<1>1. Len(rows) \in Nat /\ DOMAIN rows = 1..Len(rows) /\ c \in Nat
  BY TypeFacts DEF EofAt
<1>2. ASSUME NEW n \in KeptUpTo(rows, c) \ {EofAt(rows)} PROVE n \in Matching /\ n <= c
  <2>1. n \in 1..c /\ n <= Len(rows) /\ n \in 1..Len(rows) /\ Kept(rows, n)
    BY <1>1 DEF KeptUpTo, EofAt
  <2>2. rows[n].kind = "match"
    BY <2>1 DEF Kept
  <2> QED BY <1>1, <2>1, <2>2 DEF Matching
<1>3. ASSUME NEW n \in Matching, n <= c PROVE n \in KeptUpTo(rows, c) \ {EofAt(rows)}
  <2>1. n \in 1..Len(rows) /\ n \in 1..c /\ n # EofAt(rows) /\ rows[n].kind = "match"
    BY <1>1, <1>3 DEF Matching, EofAt
  <2> QED BY <2>1 DEF KeptUpTo, Kept
<1> QED BY <1>2, <1>3

(* The whole result was read. *)
LEMMA AllRead ==
  ASSUME PipelineTypes, NEW c, c = EofAt(rows), PassedUpTo(c)
  PROVE  /\ Faulty = {} /\ KeptUpTo(rows, c) \ {EofAt(rows)} = Matching
         /\ sent = Cardinality(Matching) + 1 /\ Cardinality(Matching) \in Nat
<1>1. Len(rows) \in Nat /\ DOMAIN rows = 1..Len(rows) /\ c = Len(rows) + 1 /\ c \in 0..EofAt(rows)
  BY TypeFacts DEF EofAt
<1>2. \A n \in 1..c : n <= Len(rows) => rows[n].kind \in {"match", "miss"}
  BY DEF PassedUpTo
<1>3. Faulty = {}
  <2>1. \A n \in 1..Len(rows) : n \in 1..c /\ n <= Len(rows)
    BY <1>1
  <2>2. \A n \in DOMAIN rows : rows[n].kind \in {"match", "miss"}
    BY <1>1, <1>2, <2>1
  <2> QED BY <2>2 DEF Faulty
<1>4. KeptUpTo(rows, c) \ {EofAt(rows)} = Matching
  <2>1. \A n \in Matching : n <= c
    BY <1>1 DEF Matching
  <2>2. {n \in Matching : n <= c} = Matching
    BY <2>1
  <2> QED BY <1>1, <1>2, <2>2, PassedAreMatching
<1>5. c \in KeptUpTo(rows, c) /\ c \notin Matching
  BY <1>1 DEF KeptUpTo, Kept, Matching
<1>6. KeptUpTo(rows, c) = Matching \cup {c}
  BY <1>4, <1>5
<1>7. IsFiniteSet(Matching) /\ Cardinality(Matching) \in Nat
  BY MatchingFinite
<1>8. Cardinality(Matching \cup {c}) = Cardinality(Matching) + 1
  BY <1>5, <1>7, FS_AddElement
<1> QED BY <1>3, <1>4, <1>6, <1>7, <1>8 DEF PassedUpTo

(* Fewer matches than the limit are all expected. *)
LEMMA FewMatches ==
  ASSUME PipelineTypes, limit = 0 \/ Cardinality(Matching) < limit
  PROVE  ExpectedOfRows = Matching
<1>1. CASE limit = 0
  BY <1>1 DEF ExpectedOfRows
<1>2. CASE limit # 0 /\ Cardinality(Matching) < limit
  <2>1. ASSUME NEW i \in Matching PROVE Cardinality({j \in Matching : j < i}) < limit
    <3>1. PICK S : S = {j \in Matching : j < i}
      OBVIOUS
    <3>2. S \subseteq Matching
      BY <3>1
    <3>3. Cardinality(S) \in Nat /\ Cardinality(S) <= Cardinality(Matching)
      BY <3>2, MatchingFinite
    <3>4. Cardinality(Matching) \in Nat /\ limit \in Nat
      BY MatchingFinite, TypeFacts
    <3> QED BY <1>2, <3>1, <3>3, <3>4
  <2> QED BY <1>2, <2>1 DEF ExpectedOfRows
<1> QED BY <1>1, <1>2

(* The limit was reached at row c. *)
LEMMA LimitMatches ==
  ASSUME PipelineTypes, NEW c \in Nat, NEW M, M = {n \in Matching : n <= c},
         limit > 0, Cardinality(M) = limit
  PROVE  ExpectedOfRows = M /\ ~(Cardinality(Matching) < limit)
<1>1. /\ M \subseteq Matching /\ IsFiniteSet(M) /\ Cardinality(M) <= Cardinality(Matching)
      /\ Cardinality(Matching) \in Nat /\ limit \in Nat
  <2>1. M \subseteq Matching
    OBVIOUS
  <2> QED BY <2>1, MatchingFinite, TypeFacts
<1>2. \A i \in Matching : i \in Nat
  <2>1. DOMAIN rows = 1..Len(rows) /\ Len(rows) \in Nat
    BY TypeFacts
  <2> QED BY <2>1 DEF Matching
<1>3. ASSUME NEW i \in Matching PROVE Cardinality({j \in Matching : j < i}) < limit <=> i \in M
  <2>1. PICK S : S = {j \in Matching : j < i}
    OBVIOUS
  <2>2. S \subseteq Matching /\ IsFiniteSet(S) /\ Cardinality(S) \in Nat
    <3>1. S \subseteq Matching
      BY <2>1
    <3> QED BY <3>1, MatchingFinite
  <2>3. CASE i \in M
    <3>1. S \subseteq M /\ S # M
      BY <1>2, <2>1, <2>3
    <3>2. Cardinality(S) < Cardinality(M)
      BY <1>1, <2>2, <3>1, FS_Subset
    <3> QED BY <2>1, <2>3, <3>2
  <2>4. CASE i \notin M
    <3>1. M \subseteq S
      BY <1>2, <2>1, <2>4
    <3>2. Cardinality(M) <= Cardinality(S)
      BY <2>2, <3>1, FS_Subset
    <3> QED BY <1>1, <2>1, <2>2, <2>4, <3>2
  <2> QED BY <2>3, <2>4
<1>4. ExpectedOfRows = M
  BY <1>1, <1>3 DEF ExpectedOfRows
<1> QED BY <1>1, <1>4

(* An answer in order holds no row twice. *)
LEMMA NoRowTwice ==
  ASSUME PipelineTypes,
         \A i, j \in DOMAIN body :
           i < j /\ rows[body[i]].fp = rows[body[j]].fp => body[i] < body[j]
  PROVE  Len(body) = Cardinality(ToSet(body))
<1>1. body \in Seq(1..Len(rows)) /\ DOMAIN body = 1..Len(body) /\ Len(body) \in Nat
  BY TypeFacts
<1>2. PICK T : T = ToSet(body)
  OBVIOUS
<1>3. body \in [1..Len(body) -> T] /\ \A n \in T : \E i \in 1..Len(body) : body[i] = n
  BY <1>1, <1>2 DEF ToSet
<1>4. \A i, j \in 1..Len(body) : body[i] = body[j] => i = j
  <2> SUFFICES ASSUME NEW i \in 1..Len(body), NEW j \in 1..Len(body), body[i] = body[j]
               PROVE  i = j
    OBVIOUS
  <2>1. body[i] \in Int
    BY <1>1
  <2>2. ~(i < j) /\ ~(j < i)
    BY <1>1, <2>1
  <2> QED BY <2>2
<1>5. body \in Bijection(1..Len(body), T)
  BY <1>3, <1>4 DEF Bijection, Injection, Surjection, IsInjective
<1>6. IsFiniteSet(1..Len(body)) /\ Cardinality(1..Len(body)) = Len(body)
  BY <1>1, FirstNumbers
<1>7. Cardinality(T) = Len(body)
  BY <1>5, <1>6, FS_Bijection DEF ExistsBijection
<1> QED BY <1>2, <1>7

(* When the exporter's channel is closed without an error, the answer is   *)
(* complete.                                                               *)
LEMMA ClosedMeansComplete ==
  ASSUME PipelineTypes, Chain, Flow, Closed(Exporter)
  PROVE  /\ ToSet(body) = ExpectedOfRows /\ Len(body) = Cardinality(ExpectedOfRows)
         /\ \A i, j \in DOMAIN body :
              (i < j /\ rows[body[i]].fp = rows[body[j]].fp) => body[i] < body[j]
         /\ (limit = 0 \/ Cardinality(Matching) < limit) => Faulty = {}
<1> USE Numbers
<1>1. live[6] # "run" /\ queue[6] = <<>>
  BY DEF Closed
<1>2. ~HasErr(queue[6])
  BY <1>1, EmptyQueue
<1>3. Closed(5) /\ Closed(4) /\ Closed(3)
  BY <1>1, <1>2 DEF Chain, Closed
<1>4. /\ live[5] # "run" /\ queue[5] = <<>> /\ live[4] # "run" /\ queue[4] = <<>>
      /\ live[3] # "run" /\ queue[3] = <<>>
  BY <1>3 DEF Closed
<1>5. ~Poisoned
  BY <1>1, <1>2 DEF Poisoned
<1>6. PICK c \in 0..EofAt(rows) :
        DownstreamInOrder /\ PassedUpTo(c) /\ (Reached \/ Failing \/ Running(c))
  BY <1>5 DEF Flow
<1>7. /\ Len(rows) \in Nat /\ c \in Nat /\ limit \in Nat /\ sent = Cardinality(KeptUpTo(rows, c))
      /\ \A n \in 1..c : n <= Len(rows) => rows[n].kind \in {"match", "miss"}
  BY <1>6, TypeFacts DEF PassedUpTo, EofAt
<1>8. ToSet(body) = KeptUpTo(rows, c) \ {EofAt(rows)}
  <2>1. Exported = {} /\ Optimized = {} /\ Limited = {} /\ Collected = {}
    BY <1>1, <1>4, EmptyQueue DEF Exported, Optimized, Limited, Collected
  <2> QED BY <1>6, <2>1 DEF PassedUpTo, Written
<1>9. \A i, j \in DOMAIN body :
        (i < j /\ rows[body[i]].fp = rows[body[j]].fp) => body[i] < body[j]
  BY <1>6 DEF DownstreamInOrder
<1>10. Len(body) = Cardinality(ToSet(body))
  BY <1>9, NoRowTwice
<1>11. ASSUME c = EofAt(rows), limit = 0 \/ Cardinality(Matching) < limit
       PROVE  ToSet(body) = ExpectedOfRows /\ Faulty = {}
  <2>1. Faulty = {} /\ KeptUpTo(rows, c) \ {EofAt(rows)} = Matching
    BY <1>6, <1>11, AllRead
  <2>2. ExpectedOfRows = Matching
    BY <1>11, FewMatches
  <2> QED BY <1>8, <2>1, <2>2
<1>12. c = EofAt(rows) => sent = Cardinality(Matching) + 1 /\ Cardinality(Matching) \in Nat
  BY <1>6, AllRead
<1>13. ~Failing
  <2> SUFFICES ASSUME Failing PROVE FALSE
    OBVIOUS
  <2>1. PICK b : b = <<Err>>
    OBVIOUS
  <2>2. Len(<<b>>) # Len(<<>>)
    OBVIOUS
  <2>3. <<b>> = <<>>
    BY <1>4, <2>1 DEF Failing
  <2> QED BY <2>2, <2>3, Zenon
<1>14. CASE Reached
  <2>1. limit > 0 /\ sent = limit
    BY <1>14 DEF Reached
  <2>2. CASE c = EofAt(rows)
    <3>1. Cardinality(Matching) < limit
      BY <1>7, <1>12, <2>1, <2>2
    <3> QED BY <1>9, <1>10, <1>11, <2>2, <3>1
  <2>3. CASE c # EofAt(rows)
    <3>1. PICK M : M = {n \in Matching : n <= c}
      OBVIOUS
    <3>2. EofAt(rows) \notin KeptUpTo(rows, c)
      BY <1>7, <2>3 DEF EofAt, KeptUpTo
    <3>3. KeptUpTo(rows, c) \ {EofAt(rows)} = M
      BY <1>7, <3>1, PassedAreMatching
    <3>4. KeptUpTo(rows, c) = M
      BY <3>2, <3>3
    <3>5. Cardinality(M) = limit
      BY <1>7, <2>1, <3>4
    <3>6. ExpectedOfRows = M /\ ~(Cardinality(Matching) < limit)
      BY <1>7, <2>1, <3>1, <3>5, LimitMatches
    <3>7. ToSet(body) = ExpectedOfRows
      BY <1>8, <3>3, <3>6
    <3>8. ~(limit = 0 \/ Cardinality(Matching) < limit)
      BY <1>7, <2>1, <3>6
    <3> QED BY <1>9, <1>10, <3>7, <3>8
  <2> QED BY <2>2, <2>3
<1>15. CASE Running(c)
  <2>1. PICK h3, h2, h1 \in 0..EofAt(rows) : Upstream(c, h3, h2, h1)
    BY <1>15 DEF Running
  <2>2. Len(<<>>) # 1
    OBVIOUS
  <2>3. Closed(2) /\ Closed(1)
    BY <1>4, <2>1 DEF Upstream, Closed
  <2>4. queue[2] = <<>> /\ queue[1] = <<>> /\ live[1] # "run"
    BY <2>3 DEF Closed
  <2>5. h3 = c /\ h2 = h3 /\ h1 = h2
    BY <1>4, <2>1, <2>2, <2>4 DEF Upstream
  <2>6. c = EofAt(rows) \/ (c \in 1..Len(rows) /\ rows[c].kind = "bad")
    BY <2>1, <2>4, <2>5 DEF Upstream
  <2>7. c = EofAt(rows)
    <3> SUFFICES ASSUME c \in 1..Len(rows), rows[c].kind = "bad" PROVE FALSE
      BY <2>6
    <3>1. c \in 1..c /\ c <= Len(rows)
      BY <1>7
    <3> QED BY <1>7, <3>1
  <2>8. limit = 0 \/ Cardinality(Matching) < limit
    <3>1. limit > 0 => sent < limit
      BY <1>15 DEF Running, BelowLimit
    <3> QED BY <1>7, <1>12, <2>7, <3>1
  <2> QED BY <1>9, <1>10, <1>11, <2>7, <2>8
<1> QED BY <1>6, <1>13, <1>14, <1>15
-----------------------------------------------------------------------------
(* A query starts with the mark before the first row. *)
LEMMA PipelineInitIInv == PipelineInit => PipelineIInv
<1> USE Numbers
<1> SUFFICES ASSUME PipelineInit PROVE PipelineIInv
  OBVIOUS
<1>1. PipelineTypes
  BY PipelineTypesInit
<1>2. /\ limit \in Nat /\ sent = 0 /\ pos = 0 /\ buf = <<>> /\ fpMap = <<>> /\ body = <<>>
      /\ queue = [g \in Goroutines |-> <<>>] /\ live = [g \in Goroutines |-> "run"]
      /\ ctxDone = FALSE /\ answer = "serving"
  BY PipelineAssumption DEF PipelineInit
<1>3. \A g \in 1..6 : queue[g] = <<>> /\ live[g] = "run"
  BY <1>2 DEF Goroutines
<1>4. /\ queue[1] = <<>> /\ queue[2] = <<>> /\ queue[3] = <<>> /\ queue[4] = <<>>
      /\ queue[5] = <<>> /\ queue[6] = <<>> /\ live[1] = "run" /\ live[2] = "run" /\ live[3] = "run"
      /\ live[4] = "run" /\ live[5] = "run" /\ live[6] = "run"
  BY <1>3
<1>5. Chain
  BY <1>4 DEF Chain
<1>6. Seen(<<>>) = {} /\ ToSet(<<>>) = {} /\ InOrder(rows, <<>>)
  BY DEF Seen, ToSet, InOrder
<1>7. Written = {} /\ Exported = {} /\ Optimized = {} /\ Collected = {} /\ Limited = {}
  BY <1>2, <1>4, <1>6, EmptyQueue DEF Written, Exported, Optimized, Collected, Limited
<1>8. QueueInOrder(rows, <<>>)
  <2>1. PICK r : r = rows
    OBVIOUS
  <2> QED BY <2>1, EmptyQueue
<1>9. DownstreamInOrder
  <2>1. DOMAIN body = {}
    BY <1>2
  <2>2. Before(rows, {}, {})
    BY DEF Before
  <2> QED BY <1>2, <1>4, <1>6, <1>7, <1>8, <2>1, <2>2 DEF DownstreamInOrder
<1>10. PassedUpTo(0)
  <2>1. 1..0 = {}
    OBVIOUS
  <2>2. KeptUpTo(rows, 0) = {}
    BY <2>1 DEF KeptUpTo
  <2>3. Cardinality({}) = 0
    BY FS_EmptySet
  <2> QED BY <1>2, <1>7, <2>1, <2>2, <2>3 DEF PassedUpTo
<1>11. Len(rows) \in Nat /\ 0 \in 0..EofAt(rows)
  BY <1>1, TypeFacts DEF EofAt
<1>12. Upstream(0, 0, 0, 0)
  <2>1. Raw(rows, buf, 0, 0)
    BY <1>2, RawEmpty
  <2> QED BY <1>2, <1>4, <2>1 DEF Upstream
<1>13. limit > 0 \/ limit = 0
  BY <1>2
<1>14. Running(0)
  BY <1>2, <1>11, <1>12, <1>13 DEF Running, BelowLimit
<1>15. Flow
  BY <1>9, <1>10, <1>11, <1>14 DEF Flow
<1>16. DeliveredIsComplete
  BY <1>2 DEF DeliveredIsComplete
<1> QED BY <1>1, <1>5, <1>15, <1>16, RowsInit DEF PipelineIInv

(* Every step that leaves the query served keeps the flow. *)
LEMMA PipelineFlowNext ==
  ASSUME PipelineTypes, Chain, Flow, PipelineNext, answer = "serving", answer' = "serving", ~gone'
  PROVE  Chain' /\ Flow'
<1> USE Numbers
<1>1. ~ServeEnds /\ ~ClientGone
  BY DEF ServeEnds, ClientGone
<1>2. CASE Serve
  BY <1>2, ServeFlow
<1>3. CASE \E g \in Filter..Exporter : InputEnds(g)
  <2>1. PICK g \in 2..6 : InputEnds(g)
    BY <1>3
  <2>2. CASE g = 2 \/ g = 3
    BY <2>1, <2>2, UpstreamFlow DEF UpstreamStep
  <2>3. CASE g = 5
    BY <2>1, <2>3, OptimizerEnds
  <2>4. CASE g = 4 \/ g = 6
    BY <2>1, <2>4, EndsFlow
  <2> QED BY <2>2, <2>3, <2>4
<1>4. CASE UpstreamStep
  BY <1>4, UpstreamFlow
<1>5. CASE LimitBatch
  BY <1>5, LimitFlow
<1>6. CASE Optimize
  BY <1>6, OptimizeFlow
<1>7. CASE Export
  BY <1>7, ExportFlow
<1>8. (\E g \in {Format} : Drain(g)) => Drain(Format)
  OBVIOUS
<1> QED BY <1>1, <1>2, <1>3, <1>4, <1>5, <1>6, <1>7, <1>8 DEF PipelineNext, Progress, UpstreamStep

(* Every step keeps the invariant. *)
LEMMA PipelineNextIInv ==
  ASSUME PipelineIInv, [PipelineNext]_pipelineVars
  PROVE  PipelineIInv'
<1>1. PipelineTypes /\ PipelineTypes'
  BY PipelineTypesNext DEF PipelineIInv
<1>2. CASE UNCHANGED pipelineVars
  <2>1. /\ rows' = rows /\ limit' = limit /\ pos' = pos /\ buf' = buf /\ queue' = queue
        /\ live' = live /\ sent' = sent /\ fpMap' = fpMap /\ ctxDone' = ctxDone /\ gone' = gone
        /\ body' = body /\ answer' = answer /\ result' = result
    BY <1>2 DEF pipelineVars
  <2>2. (Poisoned' <=> Poisoned) /\ (DownstreamInOrder' <=> DownstreamInOrder)
        /\ \A c \in 0..EofAt(rows) : PassedUpTo(c)' <=> PassedUpTo(c)
    BY <2>1, DownstreamKept
  <2>3. UpstreamUnchanged
    BY <2>1 DEF UpstreamUnchanged
  <2>4. Flow => Flow'
    <3>1. CASE Poisoned
      BY <2>2, <3>1 DEF Flow
    <3>2. CASE ~Poisoned
      BY <2>2, <2>3, <3>2, FlowMoves
    <3> QED BY <3>1, <3>2
  <2>5. Chain => Chain'
    BY <2>1 DEF Chain, Closed
  <2>6. DeliveredIsComplete'
    BY <2>1 DEF PipelineIInv, DeliveredIsComplete, ExpectedOfRows, Matching, Faulty
  <2> QED BY <1>1, <2>1, <2>4, <2>5, <2>6 DEF PipelineIInv
<1>3. CASE PipelineNext
  <2>1. ASSUME answer' = "serving", ~gone' PROVE Chain' /\ Flow'
    <3>1. answer = "serving" /\ ~gone
      BY <1>3, <2>1 DEF PipelineNext, Progress, ScanEof, ScanCancelled, ScanRow, LineFilter,
         LineFormat, LimitBatch, Optimize, Export, Drain, InputEnds, Serve, ServeEnds, ClientGone
    <3> QED BY <1>1, <1>3, <2>1, <3>1, PipelineFlowNext DEF PipelineIInv
  <2>2. ASSUME answer' = "ok", ~gone' PROVE DeliveredIsComplete'
    <3>1. CASE ServeEnds
      <4>1. /\ answer = "serving" /\ ~gone /\ Closed(Exporter)
            /\ rows' = rows /\ limit' = limit /\ body' = body
        BY <2>2, <3>1 DEF ServeEnds
      <4>2. /\ ToSet(body) = ExpectedOfRows /\ Len(body) = Cardinality(ExpectedOfRows)
            /\ \A i, j \in DOMAIN body :
                 (i < j /\ rows[body[i]].fp = rows[body[j]].fp) => body[i] < body[j]
            /\ (limit = 0 \/ Cardinality(Matching) < limit) => Faulty = {}
        BY <1>1, <4>1, ClosedMeansComplete DEF PipelineIInv
      <4>3. ExpectedOfRows' = ExpectedOfRows /\ Matching' = Matching /\ Faulty' = Faulty
        BY <4>1 DEF ExpectedOfRows, Matching, Faulty
      <4> QED BY <4>1, <4>2, <4>3 DEF DeliveredIsComplete
    <3>2. CASE ~ServeEnds
      <4>1. answer = "ok" /\ ~gone /\ rows' = rows /\ limit' = limit /\ body' = body
        BY <1>3, <2>2, <3>2 DEF PipelineNext, Progress, ScanEof, ScanCancelled, ScanRow, LineFilter,
           LineFormat, LimitBatch, Optimize, Export, Drain, InputEnds, Serve, ClientGone
      <4>2. ExpectedOfRows' = ExpectedOfRows /\ Matching' = Matching /\ Faulty' = Faulty
        BY <4>1 DEF ExpectedOfRows, Matching, Faulty
      <4> QED BY <4>1, <4>2 DEF PipelineIInv, DeliveredIsComplete
    <3> QED BY <3>1, <3>2
  <2>3. DeliveredIsComplete'
    BY <2>2 DEF DeliveredIsComplete
  <2>4. result' = result /\ rows' = rows
    BY <1>3 DEF PipelineNext, Progress, ScanEof, ScanCancelled, ScanRow, LineFilter, LineFormat,
       LimitBatch, Optimize, Export, Drain, InputEnds, Serve, ServeEnds, ClientGone
  <2> QED BY <1>1, <2>1, <2>3, <2>4 DEF PipelineIInv
<1> QED BY <1>2, <1>3

(* The invariant of a query, for any result and any sizes. *)
THEOREM PipelineInvariant == PipelineSpec => []PipelineIInv
<1>1. PipelineInit => PipelineIInv
  BY PipelineInitIInv
<1>2. PipelineIInv /\ [PipelineNext]_pipelineVars => PipelineIInv'
  BY PipelineNextIInv
<1> QED BY <1>1, <1>2, PTL DEF PipelineSpec

(* The rows a complete answer takes from the ones that reached the reader  *)
(* are the ones it would take from the result.                             *)
LEMMA ExpectedIsDelivered ==
  ASSUME StartOf(rows, result)
  PROVE  Expected(result) \cap DOMAIN rows = ExpectedOfRows
<1>1. Matches(result) \cap DOMAIN rows = Matching
  BY DEF Matches, Matching, StartOf
<1>2. ASSUME NEW i \in DOMAIN rows
      PROVE  {j \in Matches(result) : j < i} = {j \in Matching : j < i}
  BY DEF Matches, Matching, StartOf
<1>3. CASE limit = 0
  BY <1>1, <1>3 DEF Expected, ExpectedOfRows
<1>4. CASE limit # 0
  <2>1. \A i : i \in Expected(result) <=>
           i \in Matches(result) /\ Cardinality({j \in Matches(result) : j < i}) < limit
    BY <1>4 DEF Expected
  <2>2. \A i : i \in ExpectedOfRows <=>
           i \in Matching /\ Cardinality({j \in Matching : j < i}) < limit
    BY <1>4 DEF ExpectedOfRows
  <2>3. ASSUME NEW i \in DOMAIN rows PROVE i \in Expected(result) <=> i \in ExpectedOfRows
    <3>1. i \in Matches(result) <=> i \in Matching
      BY <1>1
    <3>2. PICK A : A = {j \in Matches(result) : j < i}
      OBVIOUS
    <3>3. A = {j \in Matching : j < i}
      BY <1>2, <3>2
    <3>4. i \in Expected(result) <=> i \in Matches(result) /\ Cardinality(A) < limit
      BY <2>1, <3>2
    <3>5. i \in ExpectedOfRows <=> i \in Matching /\ Cardinality(A) < limit
      BY <2>2, <3>3
    <3> QED BY <3>1, <3>4, <3>5
  <2>4. ExpectedOfRows \subseteq DOMAIN rows
    BY <2>2 DEF Matching
  <2> QED BY <2>3, <2>4
<1> QED BY <1>3, <1>4

(* query_range.go, planner_limit.go, planner_response_optimizer.go,        *)
(* planner_clickhouse_getter.go: an answer 200 to a client that is still   *)
(* there holds exactly the first limit matching rows of the result, as far *)
(* as they reached the reader, each once and each stream in order,         *)
(* whatever the interleaving of the goroutines and wherever the limit      *)
(* cancels the scan; and it never hides a failed row that was needed to    *)
(* fill the limit.  Only a connection that breaks in mid-result shortens   *)
(* it.                                                                     *)
THEOREM AnswersAreComplete == PipelineSpec => []OkMeansComplete
<1>1. PipelineIInv => OkMeansComplete
  <2> SUFFICES ASSUME PipelineIInv, answer = "ok", ~gone PROVE OkMeansComplete
    BY DEF OkMeansComplete
  <2>1. Expected(result) \cap DOMAIN rows = ExpectedOfRows
    BY ExpectedIsDelivered DEF PipelineIInv
  <2>2. Matches(rows) = Matching
    BY DEF Matches, Matching
  <2> QED BY <2>1, <2>2 DEF PipelineIInv, DeliveredIsComplete, OkMeansComplete
<1> QED BY <1>1, PipelineInvariant, PTL

(* Scan sends a batch when it is full and the limit counts up to itself.   *)
LEMMA PipelineBounds ==
  ASSUME PipelineTypes, PipelineTypeOK, [PipelineNext]_pipelineVars
  PROVE  PipelineTypeOK'
<1>1. PipelineTypes'
  BY PipelineTypesNext
<1>2. pos' \in 0..Len(rows') /\ live' \in [Goroutines -> {"run", "drain", "end"}]
  BY <1>1 DEF PipelineTypes
<1>3. Len(buf') < BatchSize
  <2>1. CASE buf' = buf
    BY <2>1 DEF PipelineTypeOK
  <2>2. CASE buf' # buf
    <3>1. ScanRow
      BY <2>2 DEF PipelineNext, Progress, pipelineVars, ScanEof, ScanCancelled, LineFilter,
         LineFormat, LimitBatch, Optimize, Export, Drain, InputEnds, Serve, ServeEnds, ClientGone
    <3>2. PICK now : buf' = <<>> \/ (buf' = now /\ ~(Len(now) >= BatchSize) /\ now \in Seq(Entries(rows)))
      <4>1. PICK e : e = IF rows[pos + 1].kind = "bad" THEN Err ELSE Row(pos + 1)
        OBVIOUS
      <4>2. buf' = <<>> \/ (buf' = Append(buf, e) /\ ~(Len(Append(buf, e)) >= BatchSize))
        BY <3>1, <4>1 DEF ScanRow
      <4>3. buf' \in Seq(Entries(rows'))
        BY <1>1 DEF PipelineTypes
      <4>4. rows' = rows
        BY <3>1 DEF ScanRow
      <4> QED BY <4>2, <4>3, <4>4
    <3>3. BatchSize \in Nat \ {0} /\ Len(<<>>) = 0
      BY PipelineAssumption
    <3> QED BY <3>2, <3>3
  <2> QED BY <2>1, <2>2
<1>4. limit' > 0 => sent' <= limit'
  <2>1. sent \in Nat /\ limit \in Nat /\ (limit > 0 => sent <= limit)
    BY TypeFacts DEF PipelineTypeOK
  <2>2. CASE LimitBatch
    <3>1. PICK b \in Seq(Entries(rows)) :
            \/ sent' = sent
            \/ (limit = 0 \/ sent + Len(b) < limit) /\ sent' = sent + Len(b)
            \/ sent' = limit
      BY <2>2, LimitEffects
    <3>2. limit' = limit
      BY <2>2 DEF LimitBatch
    <3>3. Len(b) \in Nat
      OBVIOUS
    <3> QED BY <2>1, <3>1, <3>2, <3>3
  <2>3. CASE ~LimitBatch
    <3>1. sent' = sent /\ limit' = limit
      BY <2>3 DEF PipelineNext, Progress, pipelineVars, ScanEof, ScanCancelled, ScanRow, LineFilter,
         LineFormat, Optimize, Export, Drain, InputEnds, Serve, ServeEnds, ClientGone
    <3> QED BY <2>1, <3>1
  <2> QED BY <2>2, <2>3
<1>5. answer' \in {"serving", "ok", "error", "overflow"}
  BY DEF PipelineTypeOK, PipelineNext, Progress, pipelineVars, ScanEof, ScanCancelled, ScanRow,
     LineFilter, LineFormat, LimitBatch, Optimize, Export, Drain, InputEnds, Serve, ServeEnds,
     ClientGone
<1> QED BY <1>2, <1>3, <1>4, <1>5 DEF PipelineTypeOK

(* Scan never holds a full batch back, and LimitPlanner's counter never    *)
(* passes the limit.                                                       *)
THEOREM BoundsAreKept == PipelineSpec => []PipelineTypeOK
<1>1. PipelineInit => PipelineTypes /\ PipelineTypeOK
  <2> SUFFICES ASSUME PipelineInit PROVE PipelineTypes /\ PipelineTypeOK
    OBVIOUS
  <2>1. PipelineTypes
    BY PipelineTypesInit
  <2>2. Len(buf) = 0 /\ sent = 0 /\ answer = "serving" /\ limit \in Nat
        /\ BatchSize \in Nat \ {0}
    BY PipelineAssumption DEF PipelineInit
  <2> QED BY <2>1, <2>2 DEF PipelineTypes, PipelineTypeOK
<1>2. PipelineTypes /\ PipelineTypeOK /\ [PipelineNext]_pipelineVars
        => PipelineTypes' /\ PipelineTypeOK'
  BY PipelineTypesNext, PipelineBounds
<1> QED BY <1>1, <1>2, PTL DEF PipelineSpec
-----------------------------------------------------------------------------
(* The live tail. *)

TailTypes ==
  /\ TailTypeOK
  /\ clock \in 0..MaxTime
  /\ res \in Seq(SUBSET Lines)
  /\ delivered \in [Lines -> 0..2]
  /\ sentLines \subseteq Lines

(* What excuses a second copy of a line. *)
Excused(l) ==
  \/ stored[l] = StartNs
  \/ \E k \in Lines : stored[k] + 1 = stored[l] /\ k \in sentLines

InRes(l) == \E i \in 1..Len(res) : l \in res[i]

(* What is on its way, or was written, was taken from the table, and a     *)
(* line that was taken is stored.                                          *)
TakenFromTable ==
  /\ poller # "push" => message = {}
  /\ \A l \in Lines :
       /\ (l \in message \/ InRes(l) \/ delivered[l] > 0) => l \in sentLines
       /\ l \in sentLines => stored[l] # NotStored

(* The position is the start of the tail or follows a line that was taken. *)
PositionIsExplained ==
  from = StartNs \/ \E k \in sentLines : stored[k] + 1 = from

TakenIsPassed ==
  \A l \in sentLines : ~Excused(l) => stored[l] < from

AtMostOnce(l) ==
  /\ delivered[l] <= 1
  /\ delivered[l] = 1 => l \notin message /\ ~InRes(l)
  /\ l \in message => ~InRes(l)
  /\ \A i, j \in 1..Len(res) : l \in res[i] /\ l \in res[j] => i = j

InOnePlace == \A l \in Lines : ~Excused(l) => AtMostOnce(l)

TailIInv ==
  /\ TailTypes
  /\ TakenFromTable
  /\ PositionIsExplained
  /\ TakenIsPassed
  /\ InOnePlace
  /\ PassedLinesHaveCulprit
-----------------------------------------------------------------------------
(* The positions a poll goes through, as a recursive function. *)
IsPosition(g, order, m) ==
  g = [n \in 0..m |-> IF n = 0 THEN from ELSE Moved(g[n - 1], order[n])]

(* The recursive function in NextFrom exists. *)
LEMMA PositionExists ==
  ASSUME NEW order, NEW N \in Nat
  PROVE  \E g : IsPosition(g, order, N)
<1> DEFINE S == {m \in 0..N : \E g : IsPosition(g, order, m)}
<1>1. 0 \in S
  <2> DEFINE g == [n \in 0..0 |-> from]
  <2>1. IsPosition(g, order, 0)
    BY DEF IsPosition
  <2> QED BY <2>1
<1>2. ASSUME NEW m \in 0..(N - 1), m \in S PROVE m + 1 \in S
  <2>1. PICK g : IsPosition(g, order, m)
    BY <1>2
  <2> DEFINE h == [n \in 0..(m + 1) |-> IF n = m + 1 THEN Moved(g[m], order[m + 1]) ELSE g[n]]
  <2>2. ASSUME NEW n \in 0..(m + 1)
        PROVE  h[n] = IF n = 0 THEN from ELSE Moved(h[n - 1], order[n])
    <3>1. CASE n = m + 1
      <4>1. h[n] = Moved(g[m], order[m + 1]) /\ n # 0
        BY <3>1
      <4>2. n - 1 = m /\ h[m] = g[m]
        BY <3>1
      <4> HIDE DEF h
      <4> QED BY <3>1, <4>1, <4>2
    <3>2. CASE n = 0
      <4>1. h[0] = g[0]
        OBVIOUS
      <4>2. g[0] = from
        BY <2>1 DEF IsPosition
      <4> HIDE DEF h
      <4> QED BY <3>2, <4>1, <4>2
    <3>3. CASE n \in 1..m
      <4>1. h[n] = g[n] /\ h[n - 1] = g[n - 1] /\ n # 0 /\ n \in 0..m
        BY <3>3
      <4>2. g[n] = Moved(g[n - 1], order[n])
        BY <2>1, <4>1 DEF IsPosition
      <4> HIDE DEF h
      <4> QED BY <4>1, <4>2
    <3> QED BY <3>1, <3>2, <3>3
  <2>3. h = [n \in 0..(m + 1) |-> h[n]]
    OBVIOUS
  <2> HIDE DEF h
  <2>4. IsPosition(h, order, m + 1)
    BY <2>2, <2>3 DEF IsPosition
  <2> QED BY <2>4
<1>3. N \in S
  <2> HIDE DEF S
  <2> QED BY <1>1, <1>2, UpTo
<1> QED BY <1>3

(* NextFrom: the position never goes back, it comes at least to every line *)
(* of the poll, and it moves only to follow one of them.                   *)
LEMMA NextFromFacts ==
  ASSUME TailTypes, NEW taken \in SUBSET Visible, Cardinality(taken) \in Nat,
         NEW order \in Orders(taken)
  PROVE  /\ NextFrom(order) \in 0..(MaxTime + 1) /\ NextFrom(order) >= from
         /\ \A l \in taken : NextFrom(order) >= stored[l]
         /\ NextFrom(order) = from \/ \E k \in taken : NextFrom(order) = stored[k] + 1
<1> DEFINE N == Cardinality(taken)
           g == CHOOSE f : IsPosition(f, order, N)
           Reaches(m) == /\ g[m] \in 0..(MaxTime + 1) /\ g[m] >= from
                         /\ \A i \in 1..m : g[m] >= stored[order[i]]
                         /\ g[m] = from \/ \E k \in taken : g[m] = stored[k] + 1
           S == {m \in 0..N : Reaches(m)}
<1>1. MaxTime \in Nat /\ from \in 0..(MaxTime + 1)
  BY TailAssumption DEF TailTypes, TailTypeOK
<1>2. \A l \in taken : l \in Lines /\ stored[l] \in 0..MaxTime
  BY TailAssumption DEF TailTypes, TailTypeOK, Visible, NotStored
<1>3. /\ order \in [1..N -> taken] /\ Len(order) = N
      /\ \A l \in taken : \E i \in 1..N : order[i] = l
  <2>1. order \in [1..N -> taken] /\ \A l \in taken : \E i \in 1..N : order[i] = l
    BY DEF Orders
  <2>2. order \in Seq(taken)
    BY <2>1
  <2>3. DOMAIN order = 1..N /\ DOMAIN order = 1..Len(order) /\ Len(order) \in Nat
    BY <2>1, <2>2
  <2>4. Len(order) = N
    BY <2>1, <2>3, LenProperties
  <2> QED BY <2>1, <2>4
<1>4. IsPosition(g, order, N)
  BY PositionExists
<1>5. NextFrom(order) = g[N]
  BY <1>3 DEF NextFrom, IsPosition
<1> HIDE DEF g
<1>6. g[0] = from
  BY <1>4 DEF IsPosition
<1>7. \A n \in 1..N : g[n] = Moved(g[n - 1], order[n])
  <2> SUFFICES ASSUME NEW n \in 1..N PROVE g[n] = Moved(g[n - 1], order[n])
    OBVIOUS
  <2>1. n \in 0..N /\ n # 0
    OBVIOUS
  <2> QED BY <1>4, <2>1 DEF IsPosition
<1>8. 0 \in S
  <2>1. 1..0 = {}
    OBVIOUS
  <2> QED BY <1>1, <1>6, <2>1
<1>9. ASSUME NEW m \in 0..(N - 1), m \in S PROVE m + 1 \in S
  <2>1. Reaches(m)
    BY <1>9
  <2>2. m + 1 \in 1..N /\ (m + 1) - 1 = m /\ m + 1 \in 0..N
    OBVIOUS
  <2>3. g[m + 1] = Moved(g[m], order[m + 1])
    BY <1>7, <2>2
  <2>4. order[m + 1] \in taken /\ stored[order[m + 1]] \in 0..MaxTime
    BY <1>2, <1>3, <2>2
  <2>5. \A i \in 1..m : i \in 1..N /\ stored[order[i]] \in 0..MaxTime
    BY <1>2, <1>3, <2>2
  <2>6. \A i \in 1..(m + 1) : i \in 1..m \/ i = m + 1
    OBVIOUS
  <2>7. CASE g[m] < stored[order[m + 1]]
    <3>1. g[m + 1] = stored[order[m + 1]] + 1
      BY <2>3, <2>7 DEF Moved
    <3>2. g[m + 1] \in 0..(MaxTime + 1) /\ g[m + 1] > g[m] /\ g[m + 1] >= stored[order[m + 1]]
      BY <1>1, <2>1, <2>4, <2>7, <3>1
    <3>3. \A i \in 1..m : g[m + 1] >= stored[order[i]]
      BY <1>1, <2>1, <2>5, <3>2
    <3>4. g[m + 1] >= from
      BY <1>1, <2>1, <3>2
    <3> QED BY <2>2, <2>4, <2>6, <3>1, <3>2, <3>3, <3>4
  <2>8. CASE ~(g[m] < stored[order[m + 1]])
    <3>1. g[m + 1] = g[m]
      BY <2>3, <2>8 DEF Moved
    <3>2. g[m + 1] >= stored[order[m + 1]]
      BY <1>1, <2>1, <2>4, <2>8, <3>1
    <3> QED BY <2>1, <2>2, <2>6, <3>1, <3>2
  <2> QED BY <2>7, <2>8
<1>10. Reaches(N)
  <2> HIDE DEF S
  <2>1. \A m \in 0..N : m \in S
    BY <1>8, <1>9, UpTo
  <2> QED BY <2>1 DEF S
<1>11. \A l \in taken : g[N] >= stored[l]
  BY <1>3, <1>10
<1> QED BY <1>5, <1>10, <1>11
-----------------------------------------------------------------------------
(* A tail starts with the invariant. *)
LEMMA InitTailIInv == TailInit => TailIInv
<1> SUFFICES ASSUME TailInit PROVE TailIInv
  OBVIOUS
<1> USE TailAssumption DEF TailInit
<1>1. TailTypes
  BY DEF TailTypes, TailTypeOK, NotStored
<1>2. TakenFromTable
  BY DEF TakenFromTable, InRes
<1>3. PositionIsExplained /\ TakenIsPassed /\ PassedLinesHaveCulprit
  BY DEF PositionIsExplained, TakenIsPassed, PassedLinesHaveCulprit
<1>4. InOnePlace
  BY DEF InOnePlace, AtMostOnce, InRes
<1> QED BY <1>1, <1>2, <1>3, <1>4 DEF TailIInv

(* What the parts of TailIInv say is untouched by a step that leaves alone the *)
(* table, the position, what was taken, and what is on its way.            *)
LEMMA FlowUntouched ==
  ASSUME TailIInv,
         UNCHANGED <<stored, from, message, res, delivered, sentLines, late, cut>>,
         poller' = poller \/ (poller' \in {"end", "error"} /\ poller = "poll"),
         TailTypes'
  PROVE  TailIInv'
<1> USE DEF TailIInv
<1>1. TakenFromTable'
  BY DEF TakenFromTable, InRes
<1>2. PositionIsExplained' /\ TakenIsPassed' /\ PassedLinesHaveCulprit'
  BY DEF PositionIsExplained, TakenIsPassed, PassedLinesHaveCulprit, Excused
<1>3. InOnePlace'
  BY DEF InOnePlace, AtMostOnce, InRes, Excused
<1> QED BY <1>1, <1>2, <1>3

(* A line that is ingested is not yet passed. *)
LEMMA IngestKeepsTail ==
  ASSUME TailIInv, NEW l \in Lines, NEW ts \in 0..MaxTime, Ingest(l, ts)
  PROVE  TailIInv'
<1> USE DEF TailIInv
<1>1. stored[l] = NotStored /\ l \notin sentLines /\ stored' = [stored EXCEPT ![l] = ts]
  BY DEF Ingest, TakenFromTable
<1>2. \A k \in Lines : k # l => stored'[k] = stored[k]
  BY <1>1 DEF TailTypes, TailTypeOK
<1>3. \A k \in sentLines : k \in Lines /\ k # l /\ stored'[k] = stored[k]
  BY <1>1, <1>2 DEF TailTypes
<1>4. stored'[l] = ts /\ ts # NotStored
  BY <1>1 DEF TailTypes, TailTypeOK, NotStored
<1>5. UNCHANGED <<clock, from, poller, message, res, watcherDone, tailCtxDone,
                  handler, delivered, sentLines, cut>>
  BY DEF Ingest
<1>6. TailTypes'
  BY <1>1, <1>5, TailAssumption DEF TailTypes, TailTypeOK, NotStored
<1>7. TakenFromTable'
  BY <1>2, <1>3, <1>5 DEF TakenFromTable, InRes
<1>8. PositionIsExplained'
  BY <1>3, <1>5 DEF PositionIsExplained
<1>9. \A k \in Lines : k # l => (Excused(k) <=> Excused(k)')
  BY <1>2, <1>3, <1>5 DEF Excused
<1>10. TakenIsPassed'
  BY <1>3, <1>5, <1>9 DEF TakenIsPassed
<1>11. InOnePlace'
  <2> SUFFICES ASSUME NEW k \in Lines, ~Excused(k)'
               PROVE  AtMostOnce(k)'
    BY DEF InOnePlace
  <2>1. AtMostOnce(k)
    <3>1. CASE k # l
      BY <3>1, <1>9 DEF InOnePlace
    <3>2. CASE k = l
      BY <3>2, <1>1 DEF TakenFromTable, TailTypes, AtMostOnce, InRes
    <3> QED BY <3>1, <3>2
  <2> QED BY <2>1, <1>5 DEF AtMostOnce, InRes
<1>12. PassedLinesHaveCulprit'
  BY <1>2, <1>4, <1>5 DEF PassedLinesHaveCulprit, Ingest
<1> QED BY <1>6, <1>7, <1>8, <1>10, <1>11, <1>12

(* A poll takes lines and passes them. *)
LEMMA PollKeepsTail ==
  ASSUME TailIInv, NEW taken \in SUBSET Lines, Poll(taken)
  PROVE  TailIInv'
<1> USE DEF TailIInv
<1>1. taken \in SUBSET Visible
  BY DEF Poll, Newest
<1>2. \A l \in taken : /\ l \in Lines /\ stored[l] \in 0..MaxTime
                      /\ stored[l] >= from /\ stored[l] < clock
  BY <1>1, TailAssumption DEF TailTypes, TailTypeOK, Visible, NotStored
<1>3. /\ poller = "poll" /\ message = {} /\ message' = taken /\ poller' = "push"
      /\ sentLines' = sentLines \cup taken
      /\ cut' = cut \cup (Visible \ taken)
      /\ UNCHANGED <<clock, stored, res, handler, delivered, late>>
  BY DEF Poll, TakenFromTable
<1>4. /\ from' \in 0..(MaxTime + 1) /\ from' >= from
      /\ \A l \in taken : from' >= stored[l]
      /\ from' = from \/ \E k \in taken : from' = stored[k] + 1
  <2>1. PICK order \in Orders(taken) : from' = NextFrom(order)
    BY DEF Poll
  <2>2. Cardinality(taken) \in Nat
    BY TailAssumption, FS_Subset, FS_CardinalityType
  <2> QED BY <1>1, <2>1, <2>2, NextFromFacts
<1>5. from \in 0..(MaxTime + 1)
  BY DEF TailTypes, TailTypeOK
<1>6. TailTypes'
  BY <1>2, <1>3, <1>4 DEF TailTypes, TailTypeOK
<1>7. TakenFromTable'
  <2>1. \A l \in taken : stored[l] # NotStored
    BY <1>2 DEF NotStored
  <2> QED BY <1>3, <2>1 DEF TakenFromTable, InRes
<1>8. PositionIsExplained'
  BY <1>2, <1>3, <1>4 DEF PositionIsExplained
<1>9. \A l \in Lines : Excused(l) => Excused(l)'
  BY <1>3 DEF Excused
(* A line at the very position of the poll is excused, by the line that    *)
(* the position follows.                                                   *)
<1>10. \A l \in taken : stored[l] = from => Excused(l)
  BY <1>2, TailAssumption DEF PositionIsExplained, Excused, TailTypes
<1>11. TakenIsPassed'
  <2> SUFFICES ASSUME NEW l \in sentLines', ~Excused(l)' PROVE stored[l] < from'
    BY <1>3 DEF TakenIsPassed
  <2>1. l \in Lines /\ stored[l] \in Int /\ ~Excused(l)
    BY <1>2, <1>3, <1>9, TailAssumption DEF TailTypes, TailTypeOK, NotStored
  <2>2. CASE l \in taken
    <3>1. stored[l] \in 0..MaxTime /\ stored[l] >= from /\ from' >= stored[l]
      BY <2>2, <1>2, <1>4
    <3>2. from' # stored[l]
      <4>1. CASE from' = from
        BY <2>1, <2>2, <3>1, <4>1, <1>5, <1>10
      <4>2. CASE \E k \in taken : from' = stored[k] + 1
        <5>1. PICK k \in taken : from' = stored[k] + 1
          BY <4>2
        <5>2. k \in Lines /\ k \in sentLines' /\ stored'[k] = stored[k] /\ stored'[l] = stored[l]
          BY <1>2, <1>3, <5>1
        <5> QED BY <2>1, <5>1, <5>2 DEF Excused
      <4> QED BY <1>4, <4>1, <4>2
    <3> QED BY <1>4, <3>1, <3>2
  <2>3. CASE l \in sentLines
    BY <2>1, <2>3, <1>4, <1>5 DEF TakenIsPassed
  <2> QED BY <2>2, <2>3, <1>3
<1>12. InOnePlace'
  <2> SUFFICES ASSUME NEW l \in Lines, ~Excused(l)' PROVE AtMostOnce(l)'
    BY DEF InOnePlace
  <2>1. ~Excused(l) /\ AtMostOnce(l)
    BY <1>9 DEF InOnePlace
  <2>2. l \in taken => ~InRes(l) /\ delivered[l] # 1
    <3> SUFFICES ASSUME l \in taken PROVE l \notin sentLines /\ delivered[l] \in 0..2
      BY DEF TakenFromTable
    <3>1. l \notin sentLines
      BY <1>2, <1>5, <2>1 DEF TakenIsPassed
    <3> QED BY <3>1 DEF TailTypes
  <2> QED BY <2>1, <2>2, <1>3 DEF AtMostOnce, InRes
<1>13. PassedLinesHaveCulprit'
  <2> SUFFICES ASSUME NEW l \in Lines, stored[l] # NotStored, stored[l] < from',
                      l \notin sentLines \cup taken
               PROVE  l \in late \cup cut \cup (Visible \ taken)
    BY <1>3 DEF PassedLinesHaveCulprit
  <2>1. CASE stored[l] < from
    BY <2>1 DEF PassedLinesHaveCulprit
  <2>2. CASE ~(stored[l] < from)
    <3>1. PICK k \in taken : from' = stored[k] + 1
      BY <2>2, <1>4
    <3>2. stored[l] \in Int /\ clock \in Nat
      BY TailAssumption DEF TailTypes, TailTypeOK, NotStored
    <3>3. stored[l] >= from /\ stored[l] < clock
      BY <2>2, <3>1, <3>2, <1>2, <1>5
    <3> QED BY <3>3 DEF Visible
  <2> QED BY <2>1, <2>2
<1> QED BY <1>6, <1>7, <1>8, <1>11, <1>12, <1>13

(* The poller's push: the lines move from the message to the channel.  An  *)
(* error carries no line.                                                  *)
LEMMA PushKeepsTail ==
  ASSUME TailIInv, Push \/ PushError
  PROVE  TailIInv'
<1> USE DEF TailIInv
<1>1. /\ Len(res) < WatcherBuf /\ res' = Append(res, message)
      /\ message' = {} /\ poller' \in {"poll", "failed"}
      /\ UNCHANGED <<clock, stored, from, handler, delivered, sentLines, late, cut>>
  BY DEF Push, PushError, HasRoom, TakenFromTable
<1>2. message \in SUBSET Lines /\ res \in Seq(SUBSET Lines) /\ Len(res) \in Nat
  BY DEF TailTypes, TailTypeOK
<1>3. /\ res' \in Seq(SUBSET Lines) /\ Len(res') = Len(res) + 1
      /\ \A i \in 1..Len(res) : res'[i] = res[i]
      /\ res'[Len(res) + 1] = message
  BY <1>1, <1>2
<1>4. TailTypes'
  BY <1>1, <1>2, <1>3, TailAssumption DEF TailTypes, TailTypeOK
<1>5. \A l \in Lines : InRes(l)' <=> InRes(l) \/ l \in message
  BY <1>2, <1>3 DEF InRes
<1>6. TakenFromTable'
  BY <1>1, <1>5 DEF TakenFromTable
<1>7. PositionIsExplained' /\ TakenIsPassed' /\ PassedLinesHaveCulprit'
  BY <1>1 DEF PositionIsExplained, TakenIsPassed, PassedLinesHaveCulprit, Excused
<1>8. InOnePlace'
  <2> SUFFICES ASSUME NEW l \in Lines, ~Excused(l)' PROVE AtMostOnce(l)'
    BY DEF InOnePlace
  <2>1. AtMostOnce(l)
    BY <1>1 DEF InOnePlace, Excused
  <2>2. ASSUME NEW i \in 1..Len(res'), NEW j \in 1..Len(res'),
               l \in res'[i], l \in res'[j]
        PROVE  i = j
    <3>1. CASE l \in message
      BY <2>1, <2>2, <3>1, <1>2, <1>3 DEF AtMostOnce, InRes
    <3>2. CASE l \notin message
      BY <2>1, <2>2, <3>2, <1>2, <1>3 DEF AtMostOnce
    <3> QED BY <3>1, <3>2
  <2>3. delivered[l] = 1 => ~InRes(l)'
    BY <2>1, <1>5 DEF AtMostOnce
  <2> QED BY <2>1, <2>2, <2>3, <1>1 DEF AtMostOnce
<1> QED BY <1>4, <1>6, <1>7, <1>8

(* The head of the channel leaves it; it is written to the socket, or not. *)
LEMMA TakeFromWatcher ==
  ASSUME TailIInv, res # <<>>, res' = Tail(res),
         UNCHANGED <<clock, stored, from, poller, message, sentLines, late, cut>>,
         handler' \in {"serve", "drain"},
         \/ UNCHANGED delivered
         \/ delivered' = [l \in Lines |-> IF l \in Head(res) /\ delivered[l] < 2
                                           THEN delivered[l] + 1 ELSE delivered[l]]
  PROVE  TailIInv'
<1> USE DEF TailIInv
<1>1. /\ res' \in Seq(SUBSET Lines) /\ Len(res') = Len(res) - 1 /\ Len(res) \in Nat
      /\ Len(res) >= 1
      /\ \A i \in 1..Len(res') : i + 1 \in 1..Len(res) /\ res'[i] = res[i + 1]
      /\ Head(res) = res[1]
  BY DEF TailTypes
<1>2. \A l \in Lines : /\ delivered[l] \in 0..2 /\ delivered'[l] \in 0..2
                       /\ delivered'[l] = delivered[l]
                          \/ (l \in res[1] /\ delivered'[l] = delivered[l] + 1)
  BY <1>1 DEF TailTypes
<1>3. delivered' \in [Lines -> 0..2]
  <2>1. CASE UNCHANGED delivered
    BY <2>1 DEF TailTypes
  <2>2. CASE delivered' = [l \in Lines |-> IF l \in Head(res) /\ delivered[l] < 2
                                            THEN delivered[l] + 1 ELSE delivered[l]]
    BY <1>2, <2>2
  <2> QED BY <2>1, <2>2
<1>4. TailTypes'
  BY <1>1, <1>3, TailAssumption DEF TailTypes, TailTypeOK
<1>5. \A l \in Lines : InRes(l)' => InRes(l)
  BY <1>1 DEF InRes
<1>6. \A l \in Lines : l \in res[1] => InRes(l)
  BY <1>1 DEF InRes
<1>7. TakenFromTable'
  <2> SUFFICES ASSUME NEW l \in Lines
               PROVE  (l \in message \/ InRes(l)' \/ delivered'[l] > 0) => l \in sentLines
    BY DEF TakenFromTable
  <2> QED BY <1>2, <1>5, <1>6 DEF TakenFromTable
<1>8. PositionIsExplained' /\ TakenIsPassed' /\ PassedLinesHaveCulprit'
  BY DEF PositionIsExplained, TakenIsPassed, PassedLinesHaveCulprit, Excused
<1>9. InOnePlace'
  <2> SUFFICES ASSUME NEW l \in Lines, ~Excused(l)' PROVE AtMostOnce(l)'
    BY DEF InOnePlace
  <2>1. AtMostOnce(l)
    BY DEF InOnePlace, Excused
  <2>2. \A i, j \in 1..Len(res') : l \in res'[i] /\ l \in res'[j] => i = j
    BY <2>1, <1>1 DEF AtMostOnce
  <2>3. l \in message => ~InRes(l)'
    BY <2>1, <1>5 DEF AtMostOnce
  <2>4. CASE delivered'[l] = delivered[l]
    BY <2>1, <2>2, <2>3, <2>4, <1>5 DEF AtMostOnce
  <2>5. CASE l \in res[1] /\ delivered'[l] = delivered[l] + 1
    <3>1. delivered[l] = 0 /\ l \notin message
      BY <2>1, <2>5, <1>2, <1>6 DEF AtMostOnce
    <3>2. ~InRes(l)'
      BY <2>1, <2>5, <1>1 DEF AtMostOnce, InRes
    <3> QED BY <2>2, <2>5, <3>1, <3>2 DEF AtMostOnce
  <2> QED BY <2>4, <2>5, <1>2
<1> QED BY <1>4, <1>7, <1>8, <1>9
-----------------------------------------------------------------------------
(* Every step keeps the invariant. *)
LEMMA NextTailIInv == TailIInv /\ [TailNext]_tailVars => TailIInv'
<1> SUFFICES ASSUME TailIInv, [TailNext]_tailVars PROVE TailIInv'
  OBVIOUS
<1> USE TailAssumption
<1>1. CASE UNCHANGED tailVars
  BY <1>1, FlowUntouched DEF tailVars, TailIInv, TailTypes, TailTypeOK
<1>2. CASE PollFails \/ PollStops
  <2>1. TailTypes'
    BY <1>2 DEF PollFails, PollStops, EndTail, TailIInv, TailTypes, TailTypeOK
  <2> QED BY <1>2, <2>1, FlowUntouched DEF PollFails, PollStops, EndTail
<1>3. CASE Push \/ PushError
  BY <1>3, PushKeepsTail
<1>4. CASE HandlerReturns
  <2>1. TailTypes'
    BY <1>4 DEF HandlerReturns, LeaveHandler, TailIInv, TailTypes, TailTypeOK
  <2> QED BY <1>4, <2>1, FlowUntouched DEF HandlerReturns
<1>5. CASE DrainWatcher
  BY <1>5, TakeFromWatcher DEF DrainWatcher, TailIInv, TailTypes, TailTypeOK
<1>6. CASE AdvanceClock
  <2>1. TailTypes'
    BY <1>6 DEF AdvanceClock, TailIInv, TailTypes, TailTypeOK
  <2> QED BY <1>6, <2>1, FlowUntouched DEF AdvanceClock
<1>7. CASE WriteMessage
  BY <1>7, TakeFromWatcher DEF WriteMessage, TailIInv, TailTypes, TailTypeOK
<1>8. CASE WriteFails
  BY <1>8, TakeFromWatcher DEF WriteFails, LeaveHandler
<1>9. CASE ClientCloses
  <2>1. TailTypes'
    BY <1>9 DEF ClientCloses, TailIInv, TailTypes, TailTypeOK
  <2> QED BY <1>9, <2>1, FlowUntouched DEF ClientCloses
<1>10. CASE \E l \in Lines, ts \in 0..MaxTime : Ingest(l, ts)
  BY <1>10, IngestKeepsTail
<1>11. CASE \E taken \in SUBSET Lines : Poll(taken)
  BY <1>11, PollKeepsTail
<1>12. CASE PollErrs
  <2>1. TailTypes'
    BY <1>12 DEF PollErrs, TailIInv, TailTypes, TailTypeOK
  <2> QED BY <1>12, <2>1, FlowUntouched DEF PollErrs
<1> QED BY <1>1, <1>2, <1>3, <1>4, <1>5, <1>6, <1>7, <1>8, <1>9, <1>10, <1>11, <1>12
        DEF TailNext, TailStep

(* TailIInv holds in every state of a tail: lines ingested behind the poller,  *)
(* full channels, failing writes and clients that leave included.          *)
THEOREM TailInvariant == TailSpec => []TailIInv
<1>1. TailInit => TailIInv
  BY InitTailIInv
<1>2. TailIInv /\ [TailNext]_tailVars => TailIInv'
  BY NextTailIInv
<1> QED BY <1>1, <1>2, PTL DEF TailSpec

(* Tail: whatever the limit of a poll and the size of the channel, a line  *)
(* that the position has passed was taken, came late or was cut off by the *)
(* limit, and a line is written a second time only when it lies exactly    *)
(* where a poll started.                                                   *)
THEOREM TailLossExplained == TailSpec => []TailLossHasCulprit
<1>1. TailIInv => TailLossHasCulprit
  <2> SUFFICES ASSUME TailIInv PROVE TailLossHasCulprit
    OBVIOUS
  <2>1. ASSUME NEW l \in Lines, delivered[l] > 1 PROVE Excused(l)
    BY <2>1 DEF TailIInv, InOnePlace, AtMostOnce, TailTypes
  <2>2. RepeatsOnlyAtThePosition
    BY <2>1 DEF RepeatsOnlyAtThePosition, Excused
  <2> QED BY <2>2 DEF TailIInv, TailTypes, TailLossHasCulprit
<1> QED BY <1>1, TailInvariant, PTL
=============================================================================
