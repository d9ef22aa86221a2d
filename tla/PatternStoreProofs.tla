------------------------- MODULE PatternStoreProofs -------------------------
(***************************************************************************)
(* Proofs about PatternStore, for any writers, goroutines, lines of one    *)
(* token count, similarity and number of rounds.                           *)
(*                                                                         *)
(* IInv says of every cluster and of every row of the table that it        *)
(* matches the line that founded it and, until a synchronisation replaces  *)
(* its tokens, every line it counts (GoodCluster, GoodRow).  The first     *)
(* makes the founding lines of a row's clusters distinct: row.add opens a  *)
(* new cluster only when none takes the line.  A goroutine between the     *)
(* read and the write of addSample holds both read locks, so the clusters  *)
(* it has matched are still where it saw them (ReadersSee).                *)
(***************************************************************************)
EXTENDS PatternStore, FiniteSetTheorems, FunctionTheorems, WellFoundedInduction, TLAPS

TokenSet == {Gen} \cup UNION {ToSet(l) : l \in Lines}
SampleIds == {s \in Adders \X Nat : s[2] \in DOMAIN LinesOf[s[1]]}

Cluster == [pid : Lines, tokens : Seq(TokenSet), iter : Nat, cost : Nat,
            samples : Seq(SampleIds), idle : BOOLEAN]
TableRow == [pid : Lines, tokens : Seq(TokenSet), iter : Nat, cost : Nat,
             samples : SUBSET SampleIds]

Sightings == UNION {[D -> Seq(SampleIds)] : D \in SUBSET Nat}
AdderState == [pc : {"idle", "check", "add", "sample"}, next : Nat \ {0}, row : Nat,
               saw : Sightings]

GenCount(tokens) == Cardinality({i \in DOMAIN tokens : tokens[i] = Gen})

(* A pattern that is at most as new as the clock, matches its founding     *)
(* line and keeps within the budget; and, unless it is one of S, has       *)
(* generalized what its costs say and matches the lines it counts.         *)
GoodPattern(c, counted, S, now) ==
  /\ Len(c.tokens) = Len(c.pid) /\ Matches(c.tokens, c.pid)
  /\ c.cost <= Budget /\ c.iter <= now
  /\ c.pid \notin S => /\ GenCount(c.tokens) <= c.cost
                       /\ \A s \in counted : Matches(c.tokens, Line(s))

GoodCluster(c, S, now) == c \in Cluster /\ GoodPattern(c, ToSet(c.samples), S, now)
GoodRow(r, S, now) == r \in TableRow /\ GoodPattern(r, r.samples, S, now)

DistinctPids(row) == \A i, j \in DOMAIN row : row[i].pid = row[j].pid => i = j

Types ==
  /\ clusters \in [Writers -> Seq(Cluster)] /\ clock \in Nat
  /\ IsFiniteSet(table)
  /\ sync \in [Writers -> [found : Nat, wanted : SUBSET Lines, since : Nat]]
  /\ rowGen \in [Writers -> Nat]
  /\ adder \in [Adders -> AdderState]
  /\ \A a \in Adders : adder[a].pc # "idle" => adder[a].next \in DOMAIN LinesOf[a]

PatternsAreGood ==
  /\ \A w \in Writers : /\ \A i \in DOMAIN clusters[w] :
                             GoodCluster(clusters[w][i], synced, clock)
                        /\ DistinctPids(clusters[w])
  /\ \A r \in table : GoodRow(r, synced, clock)

Sees(a) ==
  LET row == clusters[WriterOf[a]] IN
  /\ ~Syncing(WriterOf[a])
  /\ DOMAIN adder[a].saw \subseteq DOMAIN row /\ DOMAIN adder[a].saw # {}
  /\ \A i \in DOMAIN adder[a].saw :
       /\ adder[a].saw[i] \in Seq(SampleIds)
       /\ Matches(row[i].tokens, Line(Sample(a)))
       /\ row[i].pid \notin synced =>
            \A s \in ToSet(adder[a].saw[i]) : Matches(row[i].tokens, Line(s))

ReadersSee == \A a \in Adders : adder[a].pc = "sample" => Sees(a)

(* What a synchronisation that runs found is still there, and what it      *)
(* wants is newer than the cluster, unless a line has changed that since.  *)
Knows(w) ==
  /\ sync[w].found - 1 <= Len(clusters[w]) /\ sync[w].since <= clock
  /\ \A i \in DOMAIN clusters[w] : clusters[w][i].pid \in sync[w].wanted =>
       \/ clusters[w][i].iter > sync[w].since
       \/ \E q \in table : q.pid = clusters[w][i].pid /\ q.iter > clusters[w][i].iter

SyncKnows == \A w \in Writers : Syncing(w) => Knows(w)

HeldBy(w, s) == \E i \in DOMAIN clusters[w] : s \in ToSet(clusters[w][i].samples)

Accounted ==
  \A s \in settled : \/ \E w \in Writers : HeldBy(w, s)
                     \/ \E r \in table : s \in r.samples
                     \/ s \in lost

IInv ==
  /\ Types
  /\ PatternsAreGood
  /\ ReadersSee
  /\ SyncKnows
  /\ Accounted
-----------------------------------------------------------------------------
(* Facts about lines and patterns. *)

LEMMA LineFacts ==
  ASSUME NEW l \in Lines
  PROVE  /\ Len(l) \in Nat /\ DOMAIN l = 1..Len(l)
         /\ \A i \in DOMAIN l : l[i] \in TokenSet /\ l[i] # Gen
         /\ l \in Seq(TokenSet)
         /\ \A m \in Lines : Len(m) = Len(l) /\ DOMAIN m = DOMAIN l
<1>1. l \in Seq(ToSet(l)) /\ Gen \notin ToSet(l)
  BY PatternAssumption
<1>2. Len(l) \in Nat /\ DOMAIN l = 1..Len(l)
  BY <1>1
<1>3. \A i \in DOMAIN l : l[i] \in ToSet(l)
  BY DEF ToSet
<1>4. \A i \in DOMAIN l : l[i] \in TokenSet /\ l[i] # Gen
  BY <1>1, <1>3 DEF TokenSet
<1>5. l \in Seq(TokenSet)
  BY <1>1, <1>2, <1>4
<1>6. ASSUME NEW m \in Lines PROVE Len(m) = Len(l) /\ DOMAIN m = DOMAIN l
  <2>1. m \in Seq(ToSet(m)) /\ Len(m) = Len(l)
    BY PatternAssumption
  <2> QED BY <2>1, <1>2
<1> QED BY <1>2, <1>4, <1>5, <1>6

LEMMA SampleLines == \A s \in SampleIds : Line(s) \in Lines
<1> SUFFICES ASSUME NEW s \in SampleIds PROVE Line(s) \in Lines
  OBVIOUS
<1>1. s[1] \in Adders /\ s[2] \in DOMAIN LinesOf[s[1]]
  BY DEF SampleIds
<1>2. LinesOf[s[1]][s[2]] \in ToSet(LinesOf[s[1]])
  BY <1>1 DEF ToSet
<1> QED BY <1>1, <1>2 DEF Line, Lines

(* What a goroutine adds when it is not idle. *)
LEMMA AdderSample ==
  ASSUME Types, NEW a \in Adders, adder[a].pc # "idle"
  PROVE  Sample(a) \in SampleIds /\ Line(Sample(a)) \in Lines
<1>1. adder[a].next \in Nat /\ adder[a].next \in DOMAIN LinesOf[a]
  BY DEF Types, AdderState
<1>2. Sample(a) \in SampleIds
  BY <1>1 DEF Sample, SampleIds
<1> QED BY <1>2, SampleLines

(* More synchronised patterns and a later clock only make it easier. *)
LEMMA GoodWeaker ==
  ASSUME NEW c, NEW counted, NEW S, NEW T, NEW m \in Nat, NEW n \in Nat,
         S \subseteq T, m <= n, c.iter \in Nat, GoodPattern(c, counted, S, m)
  PROVE  GoodPattern(c, counted, T, n)
<1> QED BY DEF GoodPattern

LEMMA GenCountFacts ==
  ASSUME NEW tokens \in Seq(TokenSet)
  PROVE  /\ IsFiniteSet({i \in DOMAIN tokens : tokens[i] = Gen})
         /\ GenCount(tokens) \in Nat
<1>1. IsFiniteSet(DOMAIN tokens)
  BY FS_Interval
<1>2. IsFiniteSet({i \in DOMAIN tokens : tokens[i] = Gen})
  BY <1>1, FS_Subset
<1> QED BY <1>2, FS_CardinalityType DEF GenCount

LEMMA DifferingFacts ==
  ASSUME NEW c, NEW line \in Lines
  PROVE  IsFiniteSet(Differing(c, line)) /\ Cardinality(Differing(c, line)) \in Nat
<1>1. IsFiniteSet(DOMAIN line)
  BY LineFacts, FS_Interval
<1>2. IsFiniteSet(Differing(c, line))
  BY <1>1, FS_Subset DEF Differing
<1> QED BY <1>2, FS_CardinalityType

(* Cluster.generalize: the cluster takes the line, and keeps matching all  *)
(* that it matched.                                                        *)
LEMMA GeneralizeGood ==
  ASSUME clock \in Nat, NEW S, NEW c, GoodCluster(c, S, clock),
         NEW s \in SampleIds, WithinBudget(c, Line(s))
  PROVE  LET g == Generalize(c, Line(s), s)
         IN  /\ GoodCluster(g, S, clock + 1)
             /\ g.pid = c.pid /\ (g.iter = c.iter \/ g.iter = clock + 1)
             /\ ToSet(g.samples) = ToSet(c.samples) \cup {s}
<1> DEFINE line == Line(s)
           g == Generalize(c, line, s)
           d == Differing(c, line)
<1>1. line \in Lines /\ c \in Cluster
  BY SampleLines DEF GoodCluster
<1>2. /\ c.pid \in Lines /\ c.tokens \in Seq(TokenSet) /\ c.iter \in Nat /\ c.cost \in Nat
      /\ c.samples \in Seq(SampleIds) /\ c.idle \in BOOLEAN
  BY <1>1 DEF Cluster
<1>3. /\ Len(line) \in Nat /\ DOMAIN line = 1..Len(line)
      /\ Len(c.tokens) = Len(line) /\ DOMAIN c.tokens = DOMAIN line
      /\ DOMAIN c.pid = DOMAIN line /\ Len(c.pid) = Len(line)
  BY <1>1, <1>2, LineFacts DEF GoodCluster, GoodPattern
<1>4. Cardinality(d) \in Nat /\ IsFiniteSet(d) /\ d \subseteq DOMAIN line
  BY <1>1, DifferingFacts DEF Differing
<1>5. PICK tk : tk = [i \in DOMAIN line |-> IF i \in d THEN Gen ELSE c.tokens[i]]
  OBVIOUS
<1>6. tk \in Seq(TokenSet) /\ Len(tk) = Len(line) /\ DOMAIN tk = DOMAIN line
  <2>1. \A i \in DOMAIN line : tk[i] \in TokenSet
    BY <1>2, <1>3, <1>5 DEF TokenSet
  <2> QED BY <1>3, <1>5, <2>1
<1>7. PICK it \in Nat : it = (IF d = {} THEN c.iter ELSE clock + 1)
  BY <1>2
<1>8. PICK cst \in Nat : cst = c.cost + Cardinality(d)
  BY <1>2, <1>4
<1>9. PICK sm : sm = Append(c.samples, s)
  OBVIOUS
<1>10. sm \in Seq(SampleIds) /\ ToSet(sm) = ToSet(c.samples) \cup {s}
  <2>1. /\ sm \in Seq(SampleIds) /\ Len(sm) = Len(c.samples) + 1
        /\ \A i \in 1..Len(c.samples) : sm[i] = c.samples[i]
        /\ sm[Len(c.samples) + 1] = s
    BY <1>2, <1>9
  <2>2. DOMAIN sm = 1..(Len(c.samples) + 1) /\ DOMAIN c.samples = 1..Len(c.samples)
        /\ Len(c.samples) \in Nat
    BY <1>2, <2>1
  <2> QED BY <2>1, <2>2 DEF ToSet
<1>11. /\ g.pid = c.pid /\ g.tokens = tk /\ g.iter = it /\ g.cost = cst
       /\ g.samples = sm /\ g.idle = c.idle /\ g \in Cluster
  <2>1. g = [c EXCEPT !.tokens = tk, !.cost = cst, !.iter = it, !.samples = sm]
    BY <1>5, <1>7, <1>8, <1>9 DEF Generalize
  <2> HIDE DEF g, d, line
  <2> QED BY <1>1, <1>2, <1>6, <1>10, <2>1 DEF Cluster
<1> HIDE DEF g
<1>12. ASSUME NEW l \in Lines, Matches(c.tokens, l) PROVE Matches(tk, l)
  BY <1>1, <1>3, <1>5, <1>12, LineFacts DEF Matches
<1>13. Matches(tk, line)
  BY <1>5 DEF Matches, Differing
<1>14. cst <= Budget
  BY <1>2, <1>4, <1>8 DEF WithinBudget
<1>15. ASSUME c.pid \notin S PROVE GenCount(tk) <= cst
  <2> DEFINE old == {i \in DOMAIN c.tokens : c.tokens[i] = Gen}
  <2>1. {i \in DOMAIN tk : tk[i] = Gen} = old \cup d
    BY <1>3, <1>4, <1>5, <1>6
  <2>2. IsFiniteSet(old) /\ Cardinality(old) \in Nat /\ Cardinality(old) <= c.cost
    BY <1>2, <1>15, GenCountFacts DEF GoodCluster, GoodPattern, GenCount
  <2>3. /\ Cardinality(old \cup d)
             = Cardinality(old) + Cardinality(d) - Cardinality(old \cap d)
        /\ IsFiniteSet(old \cap d)
    BY <1>4, <2>2, FS_Union, FS_Intersection
  <2>4. Cardinality(old \cap d) \in Nat
    BY <2>3, FS_CardinalityType
  <2>5. GenCount(tk) = Cardinality(old \cup d)
    BY <2>1 DEF GenCount
  <2> HIDE DEF old, d
  <2> QED BY <1>2, <1>4, <1>8, <2>2, <2>3, <2>4, <2>5
<1>16. ASSUME c.pid \notin S, NEW r \in ToSet(sm) PROVE Matches(tk, Line(r))
  <2>1. CASE r = s
    BY <1>13, <2>1
  <2>2. CASE r \in ToSet(c.samples)
    <3>1. r \in SampleIds
      BY <1>2, <2>2 DEF ToSet
    <3> QED BY <1>12, <1>16, <2>2, <3>1, SampleLines DEF GoodCluster, GoodPattern
  <2> QED BY <1>10, <1>16, <2>1, <2>2
<1>17. it <= clock + 1
  BY <1>2, <1>7 DEF GoodCluster, GoodPattern
<1>18. Matches(tk, c.pid)
  BY <1>2, <1>12 DEF GoodCluster, GoodPattern
<1>19. GoodCluster(g, S, clock + 1)
  BY <1>3, <1>6, <1>11, <1>14, <1>15, <1>16, <1>17, <1>18 DEF GoodCluster, GoodPattern
<1> QED BY <1>7, <1>10, <1>11, <1>19 DEF g
-----------------------------------------------------------------------------
(* What a step leaves alone. *)

(* A step that gives one writer another row of good clusters. *)
LEMMA PatternsStay ==
  ASSUME Types, PatternsAreGood, NEW w \in Writers, NEW row \in Seq(Cluster),
         clusters' = [clusters EXCEPT ![w] = row],
         \A i \in DOMAIN row : GoodCluster(row[i], synced', clock'), DistinctPids(row),
         \A r \in table' \ table : GoodRow(r, synced', clock'),
         clock' \in Nat, clock <= clock', synced \subseteq synced'
  PROVE  /\ PatternsAreGood' /\ clusters' \in [Writers -> Seq(Cluster)]
         /\ clusters'[w] = row
         /\ \A u \in Writers : u # w => clusters'[u] = clusters[u]
<1>1. clusters \in [Writers -> Seq(Cluster)] /\ clock \in Nat
  BY DEF Types
<1>2. /\ clusters' \in [Writers -> Seq(Cluster)] /\ clusters'[w] = row
      /\ \A u \in Writers : u # w => clusters'[u] = clusters[u]
  BY <1>1
<1>3. ASSUME NEW u \in Writers
      PROVE  /\ \A i \in DOMAIN clusters'[u] : GoodCluster(clusters'[u][i], synced', clock')
             /\ DistinctPids(clusters'[u])
  <2>1. CASE u = w
    BY <1>2, <2>1
  <2>2. CASE u # w
    <3>1. ASSUME NEW i \in DOMAIN clusters[u]
          PROVE  GoodCluster(clusters[u][i], synced', clock')
      <4>1. PICK c : c = clusters[u][i]
        OBVIOUS
      <4>2. GoodCluster(c, synced, clock) /\ c.iter \in Nat
        BY <4>1, <3>1 DEF PatternsAreGood, GoodCluster, Cluster
      <4>3. GoodPattern(c, ToSet(c.samples), synced', clock')
        BY <1>1, <4>2, GoodWeaker DEF GoodCluster
      <4> QED BY <4>1, <4>2, <4>3 DEF GoodCluster
    <3> QED BY <1>2, <2>2, <3>1 DEF PatternsAreGood
  <2> QED BY <2>1, <2>2
<1>4. ASSUME NEW r \in table' PROVE GoodRow(r, synced', clock')
  <2>1. CASE r \in table
    <3>1. GoodRow(r, synced, clock) /\ r.iter \in Nat
      BY <2>1 DEF PatternsAreGood, GoodRow, TableRow
    <3>2. GoodPattern(r, r.samples, synced', clock')
      BY <1>1, <3>1, GoodWeaker DEF GoodRow
    <3> QED BY <3>1, <3>2 DEF GoodRow
  <2> QED BY <1>4, <2>1
<1>5. PatternsAreGood'
  BY <1>3, <1>4 DEF PatternsAreGood
<1> QED BY <1>2, <1>5

(* A goroutine that is about to write its sample keeps what it saw. *)
LEMMA SeesStays ==
  ASSUME NEW b \in Adders, Sees(b), adder'[b] = adder[b],
         sync'[WriterOf[b]] = sync[WriterOf[b]], synced \subseteq synced',
         DOMAIN clusters'[WriterOf[b]] = DOMAIN clusters[WriterOf[b]],
         \A i \in DOMAIN clusters[WriterOf[b]] :
           /\ clusters'[WriterOf[b]][i].tokens = clusters[WriterOf[b]][i].tokens
           /\ clusters'[WriterOf[b]][i].pid = clusters[WriterOf[b]][i].pid
  PROVE  Sees(b)'
<1>1. Sample(b)' = Sample(b) /\ Syncing(WriterOf[b])' = Syncing(WriterOf[b])
  BY DEF Sample, Syncing
<1> QED BY <1>1 DEF Sees

(* A synchronisation keeps what it knows while the clusters it compared    *)
(* keep their iteration or take a later one.                               *)
LEMMA KnowsStays ==
  ASSUME Types, NEW u \in Writers, Knows(u), sync'[u] = sync[u],
         clock' \in Nat, clock <= clock', table \subseteq table',
         Len(clusters'[u]) \in Nat, Len(clusters'[u]) >= Len(clusters[u]),
         \A i \in DOMAIN clusters'[u] :
           \/ clusters'[u][i].iter > sync[u].since
           \/ /\ i \in DOMAIN clusters[u]
              /\ clusters'[u][i].iter = clusters[u][i].iter
              /\ clusters'[u][i].pid = clusters[u][i].pid
  PROVE  Knows(u)'
<1>1. /\ clock \in Nat /\ sync[u].since \in Nat /\ sync[u].found \in Nat
      /\ Len(clusters[u]) \in Nat
  BY DEF Types
<1>2. sync'[u].found - 1 <= Len(clusters'[u]) /\ sync'[u].since <= clock'
  BY <1>1 DEF Knows
<1>3. ASSUME NEW i \in DOMAIN clusters'[u], clusters'[u][i].pid \in sync'[u].wanted
      PROVE  \/ clusters'[u][i].iter > sync'[u].since
             \/ \E q \in table' : /\ q.pid = clusters'[u][i].pid
                                  /\ q.iter > clusters'[u][i].iter
  BY <1>3 DEF Knows
<1> QED BY <1>2, <1>3 DEF Knows

(* A step of a goroutine that leaves everything else alone. *)
LEMMA OnlyAdder ==
  ASSUME IInv, Types', NEW a \in Adders,
         UNCHANGED <<clusters, table, clock, sync, settled, lost, synced>>,
         \A b \in Adders : b # a => adder'[b] = adder[b],
         adder'[a].pc = "sample" => Sees(a)'
  PROVE  IInv'
<1>1. PatternsAreGood' /\ Accounted'
  BY DEF IInv, PatternsAreGood, Accounted, HeldBy
<1>2. ReadersSee'
  BY SeesStays DEF IInv, ReadersSee
<1>3. SyncKnows'
  BY DEF IInv, SyncKnows, Knows, Syncing
<1> QED BY <1>1, <1>2, <1>3 DEF IInv
-----------------------------------------------------------------------------
LEMMA InitIInv == PatternInit => IInv
<1> SUFFICES ASSUME PatternInit PROVE IInv
  OBVIOUS
<1> USE DEF PatternInit
<1>1. Types
  <2>1. IsFiniteSet(table)
    BY FS_EmptySet
  <2>2. clusters \in [Writers -> Seq(Cluster)] /\ clock \in Nat
    OBVIOUS
  <2>3. sync \in [Writers -> [found : Nat, wanted : SUBSET Lines, since : Nat]]
    BY DEF NotSyncing
  <2>4. adder \in [Adders -> AdderState]
    <3>1. <<>> \in [{} -> Seq(SampleIds)]
      OBVIOUS
    <3>2. <<>> \in Sightings
      BY <3>1 DEF Sightings
    <3> QED BY <3>2 DEF Idle, AdderState
  <2> QED BY <2>1, <2>2, <2>3, <2>4 DEF Types, Idle
<1>2. PatternsAreGood
  BY DEF PatternsAreGood, DistinctPids
<1>3. ReadersSee
  BY DEF ReadersSee, Idle
<1>4. SyncKnows
  BY DEF SyncKnows, Syncing, NotSyncing
<1>5. Accounted
  BY DEF Accounted
<1> QED BY <1>1, <1>2, <1>3, <1>4, <1>5 DEF IInv

LEMMA FindRowIInv ==
  ASSUME IInv, NEW a \in Adders, FindRow(a)
  PROVE  IInv'
<1> USE DEF IInv
<1>1. /\ adder[a].pc = "idle" /\ adder[a].next <= Len(LinesOf[a])
      /\ UNCHANGED <<clusters, table, clock, sync, settled, lost, synced>>
  BY DEF FindRow
<1>2. /\ adder' \in [Adders -> AdderState]
      /\ adder'[a].pc = "check" /\ adder'[a].next = adder[a].next
      /\ \A b \in Adders : b # a => adder'[b] = adder[b]
  <2>1. rowGen[WriterOf[a]] \in Nat
    BY PatternAssumption DEF Types
  <2> QED BY <2>1 DEF FindRow, Types, AdderState
<1>3. adder[a].next \in DOMAIN LinesOf[a]
  <2>1. LinesOf[a] \in Seq(Lines)
    BY PatternAssumption
  <2>2. adder[a].next \in Nat \ {0}
    BY DEF Types, AdderState
  <2> QED BY <1>1, <2>1, <2>2
<1>4. Types'
  BY <1>1, <1>2, <1>3 DEF Types, FindRow
<1> QED BY <1>1, <1>2, <1>4, OnlyAdder

(* checkMatch: what the goroutine has matched, it has really seen. *)
LEMMA CheckMatchIInv ==
  ASSUME IInv, NEW a \in Adders, CheckMatch(a)
  PROVE  IInv'
<1> USE DEF IInv
<1> DEFINE w == WriterOf[a]
           row == clusters[w]
           hits == {i \in DOMAIN row : Matches(row[i].tokens, Line(Sample(a)))}
<1>1. /\ adder[a].pc = "check" /\ ~Syncing(w)
      /\ UNCHANGED <<clusters, table, clock, sync, settled, lost, synced>>
      /\ w \in Writers
  BY PatternAssumption DEF CheckMatch
<1>2. PICK saw : saw = [i \in hits |-> row[i].samples]
  OBVIOUS
<1>3. PICK pc : pc = (IF hits = {} THEN "add" ELSE "sample")
  OBVIOUS
<1>4. /\ adder' \in [Adders -> AdderState]
      /\ adder'[a].pc = pc /\ adder'[a].next = adder[a].next /\ adder'[a].saw = saw
      /\ \A b \in Adders : b # a => adder'[b] = adder[b]
  <2>1. adder' = [adder EXCEPT ![a].pc = pc, ![a].saw = saw]
    BY <1>2, <1>3 DEF CheckMatch
  <2>2. row \in Seq(Cluster)
    BY <1>1 DEF Types
  <2>3. hits \in SUBSET Nat /\ \A i \in hits : row[i] \in Cluster
    BY <2>2
  <2>4. \A i \in hits : row[i].samples \in Seq(SampleIds)
    BY <2>3 DEF Cluster
  <2>5. saw \in [hits -> Seq(SampleIds)]
    BY <1>2, <2>4
  <2>6. saw \in Sightings
    BY <2>3, <2>5 DEF Sightings
  <2>7. pc \in {"idle", "check", "add", "sample"}
    BY <1>3
  <2> HIDE DEF w, row, hits
  <2> QED BY <2>1, <2>6, <2>7 DEF Types, AdderState
<1>5. Types'
  BY <1>1, <1>4 DEF Types, CheckMatch
<1>6. ASSUME pc = "sample" PROVE Sees(a)'
  <2>1. Sample(a)' = Sample(a)
    BY <1>4 DEF Sample
  <2>2. DOMAIN saw \subseteq DOMAIN row /\ DOMAIN saw # {}
    BY <1>2, <1>3, <1>6
  <2>3. ASSUME NEW i \in DOMAIN saw
        PROVE  /\ saw[i] \in Seq(SampleIds)
               /\ Matches(row[i].tokens, Line(Sample(a)))
               /\ row[i].pid \notin synced =>
                    \A s \in ToSet(saw[i]) : Matches(row[i].tokens, Line(s))
    <3>1. i \in DOMAIN row /\ saw[i] = row[i].samples
      BY <1>2
    <3>2. GoodCluster(row[i], synced, clock)
      BY <1>1, <3>1 DEF PatternsAreGood
    <3> QED BY <1>2, <3>1, <3>2 DEF GoodCluster, GoodPattern, Cluster
  <2>4. ~Syncing(w)'
    BY <1>1 DEF Syncing
  <2> QED BY <1>1, <1>4, <2>1, <2>2, <2>3, <2>4 DEF Sees
<1> QED BY <1>1, <1>4, <1>5, <1>6, OnlyAdder

(* Add has returned: the goroutine is at its next line. *)
LEMMA ReturnedFacts ==
  ASSUME Types, NEW a \in Adders, adder' = [adder EXCEPT ![a] = Returned(a)]
  PROVE  /\ adder' \in [Adders -> AdderState] /\ adder'[a].pc = "idle"
         /\ \A b \in Adders : b # a => adder'[b] = adder[b]
<1>1. <<>> \in Sightings
  <2>1. <<>> \in [{} -> Seq(SampleIds)]
    OBVIOUS
  <2> QED BY <2>1 DEF Sightings
<1>2. adder[a].next + 1 \in Nat \ {0}
  BY DEF Types, AdderState
<1>3. Returned(a) \in AdderState /\ Returned(a).pc = "idle"
  BY <1>1, <1>2 DEF Returned, Idle, AdderState
<1> QED BY <1>3 DEF Types

(* The write of addSample: the clusters that matched take the line, and    *)
(* what they lose by it is in lost.                                        *)
LEMMA AddSampleIInv ==
  ASSUME IInv, NEW a \in Adders, AddSample(a)
  PROVE  IInv'
<1> USE DEF IInv
<1>1. PICK w \in Writers : w = WriterOf[a]
  BY PatternAssumption
<1>2. PICK row \in Seq(Cluster) : row = clusters[w]
  BY DEF Types
<1>3. PICK saw : saw = adder[a].saw
  OBVIOUS
<1>4. PICK s \in SampleIds : s = Sample(a) /\ Line(s) \in Lines
  BY AdderSample DEF AddSample
<1> DEFINE fresh == [i \in DOMAIN row |->
                       IF i \in DOMAIN saw THEN [row[i] EXCEPT !.samples = Append(saw[i], s)]
                       ELSE row[i]]
           raced == UNION {ToSet(row[i].samples) \ ToSet(saw[i]) : i \in DOMAIN saw}
<1>5. /\ adder[a].pc = "sample" /\ clusters' = [clusters EXCEPT ![w] = fresh]
      /\ lost' = lost \cup raced /\ settled' = settled \cup {s}
      /\ adder' = [adder EXCEPT ![a] = Returned(a)]
      /\ UNCHANGED <<rowGen, table, clock, sync, synced>>
  BY <1>1, <1>2, <1>3, <1>4 DEF AddSample, Types
<1>6. /\ ~Syncing(w) /\ DOMAIN saw \subseteq DOMAIN row /\ DOMAIN saw # {}
      /\ \A i \in DOMAIN saw :
           /\ saw[i] \in Seq(SampleIds)
           /\ Matches(row[i].tokens, Line(s))
           /\ row[i].pid \notin synced =>
                \A r \in ToSet(saw[i]) : Matches(row[i].tokens, Line(r))
  BY <1>1, <1>2, <1>3, <1>4, <1>5 DEF ReadersSee, Sees
<1>7. ASSUME NEW i \in DOMAIN row
      PROVE  /\ fresh[i] \in Cluster
             /\ fresh[i].pid = row[i].pid /\ fresh[i].tokens = row[i].tokens
             /\ fresh[i].iter = row[i].iter /\ fresh[i].cost = row[i].cost
             /\ i \in DOMAIN saw => ToSet(fresh[i].samples) = ToSet(saw[i]) \cup {s}
             /\ i \notin DOMAIN saw => fresh[i] = row[i]
  <2>1. PICK c \in Cluster : c = row[i]
    BY <1>7
  <2>2. CASE i \notin DOMAIN saw
    BY <2>1, <2>2
  <2>3. CASE i \in DOMAIN saw
    <3>1. PICK sm : sm = Append(saw[i], s)
      OBVIOUS
    <3>2. /\ sm \in Seq(SampleIds) /\ Len(sm) = Len(saw[i]) + 1
          /\ \A j \in 1..Len(saw[i]) : sm[j] = saw[i][j]
          /\ sm[Len(saw[i]) + 1] = s /\ saw[i] \in Seq(SampleIds)
      BY <1>6, <2>3, <3>1
    <3>3. DOMAIN sm = 1..(Len(saw[i]) + 1) /\ DOMAIN saw[i] = 1..Len(saw[i])
          /\ Len(saw[i]) \in Nat
      BY <3>2
    <3>4. ToSet(sm) = ToSet(saw[i]) \cup {s}
      <4>1. ASSUME NEW x \in ToSet(sm) PROVE x \in ToSet(saw[i]) \cup {s}
        <5>1. PICK j \in 1..(Len(saw[i]) + 1) : x = sm[j]
          BY <3>3 DEF ToSet
        <5>2. j \in 1..Len(saw[i]) \/ j = Len(saw[i]) + 1
          BY <3>3
        <5> QED BY <3>2, <3>3, <5>1, <5>2 DEF ToSet
      <4>2. ASSUME NEW x \in ToSet(saw[i]) PROVE x \in ToSet(sm)
        <5>1. PICK j \in 1..Len(saw[i]) : x = saw[i][j]
          BY <3>3 DEF ToSet
        <5>2. j \in 1..(Len(saw[i]) + 1) /\ sm[j] = x
          BY <3>2, <3>3, <5>1
        <5> QED BY <3>3, <5>2 DEF ToSet
      <4>3. s \in ToSet(sm)
        <5>1. Len(saw[i]) + 1 \in DOMAIN sm
          BY <3>3
        <5> QED BY <3>2, <5>1 DEF ToSet
      <4> QED BY <4>1, <4>2, <4>3
    <3>5. fresh[i] = [c EXCEPT !.samples = sm]
      BY <2>1, <2>3, <3>1
    <3> QED BY <2>1, <2>3, <3>2, <3>4, <3>5 DEF Cluster
  <2> QED BY <2>2, <2>3
<1>8. fresh \in Seq(Cluster) /\ DOMAIN fresh = DOMAIN row /\ Len(fresh) = Len(row)
  BY <1>7
<1>9. ASSUME NEW i \in DOMAIN fresh PROVE GoodCluster(fresh[i], synced', clock')
  <2>1. GoodCluster(row[i], synced, clock)
    BY <1>2, <1>8 DEF PatternsAreGood
  <2>2. CASE i \notin DOMAIN saw
    BY <1>5, <1>7, <1>8, <2>1, <2>2
  <2>3. CASE i \in DOMAIN saw
    <3>1. row[i].pid \notin synced =>
            \A r \in ToSet(fresh[i].samples) : Matches(row[i].tokens, Line(r))
      <4>1. ToSet(fresh[i].samples) = ToSet(saw[i]) \cup {s}
        BY <1>7, <1>8, <2>3
      <4> HIDE DEF fresh
      <4> QED BY <1>6, <2>3, <4>1
    <3> HIDE DEF fresh
    <3> QED BY <1>5, <1>7, <1>8, <2>1, <3>1 DEF GoodCluster, GoodPattern
  <2> QED BY <2>2, <2>3
<1>10. DistinctPids(fresh)
  <2>1. DistinctPids(row)
    BY <1>2 DEF PatternsAreGood
  <2> QED BY <1>7, <1>8, <2>1 DEF DistinctPids
<1> HIDE DEF fresh, raced
<1>11. /\ PatternsAreGood' /\ clusters' \in [Writers -> Seq(Cluster)]
       /\ clusters'[w] = fresh
       /\ \A u \in Writers : u # w => clusters'[u] = clusters[u]
  <2>1. clock' \in Nat /\ clock <= clock' /\ synced \subseteq synced' /\ table' \ table = {}
    BY <1>5 DEF Types
  <2> QED BY <1>5, <1>8, <1>9, <1>10, <2>1, PatternsStay
<1>12. /\ adder' \in [Adders -> AdderState] /\ adder'[a].pc = "idle"
       /\ \A b \in Adders : b # a => adder'[b] = adder[b]
  BY <1>5, ReturnedFacts
<1>13. Types'
  BY <1>5, <1>11, <1>12 DEF Types
<1>14. ReadersSee'
  <2> SUFFICES ASSUME NEW b \in Adders, adder'[b].pc = "sample" PROVE Sees(b)'
    BY DEF ReadersSee
  <2>1. b # a /\ adder'[b] = adder[b] /\ Sees(b) /\ WriterOf[b] \in Writers
    BY <1>12, PatternAssumption DEF ReadersSee
  <2>2. /\ DOMAIN clusters'[WriterOf[b]] = DOMAIN clusters[WriterOf[b]]
        /\ \A i \in DOMAIN clusters[WriterOf[b]] :
             /\ clusters'[WriterOf[b]][i].tokens = clusters[WriterOf[b]][i].tokens
             /\ clusters'[WriterOf[b]][i].pid = clusters[WriterOf[b]][i].pid
    BY <1>2, <1>7, <1>8, <1>11, <2>1
  <2> QED BY <1>5, <2>1, <2>2, SeesStays
<1>15. SyncKnows'
  <2> SUFFICES ASSUME NEW u \in Writers, Syncing(u)' PROVE Knows(u)'
    BY DEF SyncKnows
  <2>1. Syncing(u) /\ u # w
    BY <1>5, <1>6 DEF Syncing
  <2> QED BY <1>5, <1>11, <2>1 DEF SyncKnows, Knows
<1>16. Accounted'
  <2> SUFFICES ASSUME NEW r \in settled'
               PROVE  \/ \E u \in Writers : HeldBy(u, r)'
                      \/ \E q \in table' : r \in q.samples
                      \/ r \in lost'
    BY DEF Accounted
  <2>1. CASE r = s
    <3>1. PICK i \in DOMAIN saw : i \in DOMAIN row
      BY <1>6
    <3>2. r \in ToSet(fresh[i].samples)
      BY <1>7, <2>1, <3>1
    <3> QED BY <1>8, <1>11, <3>1, <3>2 DEF HeldBy
  <2>2. CASE r \in settled /\ \E u \in Writers : HeldBy(u, r)
    <3>1. PICK u \in Writers : HeldBy(u, r)
      BY <2>2
    <3>2. CASE u # w
      BY <1>11, <3>1, <3>2 DEF HeldBy
    <3>3. CASE u = w
      <4>1. PICK i \in DOMAIN row : r \in ToSet(row[i].samples)
        BY <1>2, <3>1, <3>3 DEF HeldBy
      <4>2. CASE i \in DOMAIN saw /\ r \notin ToSet(saw[i])
        BY <1>5, <4>1, <4>2 DEF raced
      <4>3. CASE i \notin DOMAIN saw \/ r \in ToSet(saw[i])
        BY <1>7, <1>8, <1>11, <4>1, <4>3 DEF HeldBy
      <4> QED BY <4>2, <4>3
    <3> QED BY <3>2, <3>3
  <2> QED BY <1>5, <2>1, <2>2 DEF Accounted
<1> QED BY <1>11, <1>13, <1>14, <1>15, <1>16

LEMMA LeastOf ==
  ASSUME NEW S \in SUBSET Nat, S # {}
  PROVE  Min(S) \in S
<1>1. PICK x \in S : \A y \in S : <<y, x>> \notin OpToRel(<, Nat)
  BY NatLessThanWellFounded, WFMin
<1>2. \A y \in S : ~(y < x)
  BY <1>1 DEF OpToRel
<1>3. \A y \in S : x =< y
  BY <1>2
<1> QED BY <1>3 DEF Min

(* The cluster that row.add opens for a line. *)
LEMMA NewClusterGood ==
  ASSUME Types, NEW a \in Adders, adder[a].pc # "idle", NEW S
  PROVE  LET c == NewLogCluster(a)
         IN  /\ GoodCluster(c, S, clock + 1) /\ c.pid = Line(Sample(a))
             /\ c.iter = clock + 1 /\ Sample(a) \in ToSet(c.samples)
<1>1. PICK s \in SampleIds : s = Sample(a) /\ Line(s) \in Lines
  BY AdderSample
<1>2. PICK l \in Lines : l = Line(s)
  BY <1>1
<1>3. PICK sm : sm = <<s>>
  OBVIOUS
<1>4. sm \in Seq(SampleIds) /\ ToSet(sm) = {s}
  BY <1>3 DEF ToSet
<1>5. clock + 1 \in Nat /\ Budget \in Nat
  BY PatternAssumption DEF Types
<1>6. FALSE \in BOOLEAN
  BY Zenon
<1>7. l \in Seq(TokenSet)
  BY LineFacts
<1>8. PICK c : c = [pid |-> l, tokens |-> l, iter |-> clock + 1, cost |-> 0,
                    samples |-> sm, idle |-> FALSE]
  OBVIOUS
<1>9. c = NewLogCluster(a)
  BY <1>1, <1>2, <1>3, <1>8 DEF NewLogCluster
<1>10. c \in Cluster
  BY <1>4, <1>5, <1>6, <1>7, <1>8 DEF Cluster
<1>11. Matches(l, l)
  BY DEF Matches
<1>12. GenCount(l) = 0
  <2>1. {i \in DOMAIN l : l[i] = Gen} = {}
    BY LineFacts
  <2> QED BY <2>1, FS_EmptySet DEF GenCount
<1>13. GoodCluster(c, S, clock + 1)
  BY <1>2, <1>4, <1>5, <1>8, <1>10, <1>11, <1>12 DEF GoodCluster, GoodPattern
<1>14. c.pid = Line(Sample(a)) /\ c.iter = clock + 1 /\ c.samples = sm
  BY <1>1, <1>2, <1>8
<1>15. Sample(a) \in ToSet(c.samples)
  BY <1>1, <1>4, <1>14
<1> QED BY <1>9, <1>13, <1>14, <1>15

(* What row.add makes of a row: the same clusters, one of which may have   *)
(* taken the line s, or a further one.                                     *)
TookLine(row, new, s) ==
  /\ new \in Seq(Cluster) /\ DistinctPids(new) /\ Len(row) <= Len(new)
  /\ \A i \in DOMAIN new : GoodCluster(new[i], synced, clock + 1)
  /\ \A i \in DOMAIN row : /\ i \in DOMAIN new
                           /\ ToSet(row[i].samples) \subseteq ToSet(new[i].samples)
  /\ \A i \in DOMAIN new : \/ new[i].iter = clock + 1
                           \/ /\ i \in DOMAIN row
                              /\ new[i].iter = row[i].iter /\ new[i].pid = row[i].pid
  /\ \E i \in DOMAIN new : s \in ToSet(new[i].samples)

GoodClusters(row, now) == /\ row \in Seq(Cluster) /\ DistinctPids(row)
                          /\ \A i \in DOMAIN row : GoodCluster(row[i], synced, now)

LEMMA GoodLater ==
  ASSUME clock \in Nat, NEW row, GoodClusters(row, clock)
  PROVE  GoodClusters(row, clock + 1)
<1>1. ASSUME NEW i \in DOMAIN row PROVE GoodCluster(row[i], synced, clock + 1)
  <2>1. PICK c : c = row[i]
    OBVIOUS
  <2>2. GoodCluster(c, synced, clock) /\ c.iter \in Nat
    BY <1>1, <2>1 DEF GoodClusters, GoodCluster, Cluster
  <2>3. GoodPattern(c, ToSet(c.samples), synced, clock + 1)
    BY <2>2, GoodWeaker DEF GoodCluster
  <2> QED BY <2>1, <2>2, <2>3 DEF GoodCluster
<1> QED BY <1>1 DEF GoodClusters

(* A cluster that the line founded would have taken it, so a further one   *)
(* has a founding line of its own.                                         *)
LEMMA AppendedTakes ==
  ASSUME clock \in Nat, NEW row, GoodClusters(row, clock), NEW s \in SampleIds,
         \A i \in DOMAIN row : ~WithinBudget(row[i], Line(s)),
         NEW c, GoodCluster(c, synced, clock + 1), c.pid = Line(s), c.iter = clock + 1,
         s \in ToSet(c.samples)
  PROVE  TookLine(row, Append(row, c), s)
<1>1. row \in Seq(Cluster) /\ c \in Cluster /\ Len(row) \in Nat /\ DOMAIN row = 1..Len(row)
  BY DEF GoodClusters, GoodCluster
<1>2. PICK new : new = Append(row, c)
  OBVIOUS
<1>3. PICK n \in Nat : n = Len(row) /\ DOMAIN row = 1..n
  BY <1>1
<1>4. /\ new \in Seq(Cluster) /\ DOMAIN new = 1..(n + 1) /\ Len(new) = n + 1
      /\ \A i \in 1..n : new[i] = row[i]
      /\ new[n + 1] = c
  BY <1>1, <1>2, <1>3
<1>5. ASSUME NEW i \in 1..n PROVE row[i].pid # c.pid
  <2> SUFFICES ASSUME row[i].pid = Line(s) PROVE WithinBudget(row[i], Line(s))
    BY <1>3
  <2>1. GoodCluster(row[i], synced, clock) /\ row[i] \in Cluster
    BY <1>1, <1>3 DEF GoodClusters
  <2>2. Matches(row[i].tokens, Line(s)) /\ row[i].cost <= Budget
    BY <2>1 DEF GoodCluster, GoodPattern
  <2>3. Differing(row[i], Line(s)) = {}
    BY <2>2 DEF Matches, Differing
  <2>4. row[i].cost \in Nat
    BY <2>1 DEF Cluster
  <2>5. Cardinality(Differing(row[i], Line(s))) = 0
    BY <2>3, FS_EmptySet
  <2> QED BY <2>2, <2>4, <2>5 DEF WithinBudget
<1>6. \A i \in 1..(n + 1) : i \in 1..n \/ i = n + 1
  OBVIOUS
<1>7. DistinctPids(new)
  <2>1. DistinctPids(row)
    BY DEF GoodClusters
  <2>2. \A i, j \in 1..n : new[i].pid = new[j].pid => i = j
    BY <1>3, <1>4, <2>1 DEF DistinctPids
  <2>3. \A i \in 1..n : new[i].pid # new[n + 1].pid
    BY <1>4, <1>5
  <2> QED BY <1>4, <1>6, <2>2, <2>3 DEF DistinctPids
<1>8. \A i \in 1..n : GoodCluster(row[i], synced, clock + 1)
  BY <1>3, GoodLater DEF GoodClusters
<1>9. \A i \in DOMAIN new : GoodCluster(new[i], synced, clock + 1)
  BY <1>4, <1>6, <1>8
<1>10. \A i \in DOMAIN row : /\ i \in DOMAIN new
                             /\ ToSet(row[i].samples) \subseteq ToSet(new[i].samples)
  BY <1>3, <1>4
<1>11. \A i \in DOMAIN new : \/ new[i].iter = clock + 1
                             \/ /\ i \in DOMAIN row
                                /\ new[i].iter = row[i].iter /\ new[i].pid = row[i].pid
  BY <1>3, <1>4, <1>6
<1>12. \E i \in DOMAIN new : s \in ToSet(new[i].samples)
  BY <1>4
<1>13. Len(row) <= Len(new)
  BY <1>3, <1>4
<1> QED BY <1>2, <1>4, <1>7, <1>9, <1>10, <1>11, <1>12, <1>13 DEF TookLine

LEMMA GeneralizedTakes ==
  ASSUME clock \in Nat, NEW row, GoodClusters(row, clock), NEW s \in SampleIds,
         NEW m \in DOMAIN row, WithinBudget(row[m], Line(s))
  PROVE  TookLine(row, [row EXCEPT ![m] = Generalize(row[m], Line(s), s)], s)
<1>1. row \in Seq(Cluster) /\ DistinctPids(row) /\ Len(row) \in Nat
  BY DEF GoodClusters
<1>2. PICK c : c = row[m]
  OBVIOUS
<1>3. PICK g : g = Generalize(c, Line(s), s)
  OBVIOUS
<1>4. GoodCluster(c, synced, clock)
  BY <1>2 DEF GoodClusters
<1>5. /\ GoodCluster(g, synced, clock + 1)
      /\ g.pid = c.pid /\ (g.iter = c.iter \/ g.iter = clock + 1)
      /\ ToSet(g.samples) = ToSet(c.samples) \cup {s}
  BY <1>2, <1>3, <1>4, GeneralizeGood
<1>6. g \in Cluster
  BY <1>5 DEF GoodCluster
<1>7. PICK new : new = [row EXCEPT ![m] = g]
  OBVIOUS
<1>8. /\ new \in Seq(Cluster) /\ DOMAIN new = DOMAIN row /\ Len(new) = Len(row)
      /\ new[m] = g /\ \A i \in DOMAIN row : i # m => new[i] = row[i]
  BY <1>1, <1>6, <1>7
<1>9. DistinctPids(new)
  BY <1>1, <1>2, <1>5, <1>8 DEF DistinctPids
<1>10. \A i \in DOMAIN new : GoodCluster(new[i], synced, clock + 1)
  BY <1>5, <1>8, GoodLater DEF GoodClusters
<1>11. \A i \in DOMAIN new : \/ new[i].iter = clock + 1
                             \/ /\ i \in DOMAIN row
                                /\ new[i].iter = row[i].iter /\ new[i].pid = row[i].pid
  BY <1>2, <1>5, <1>8
<1>12. \A i \in DOMAIN row : /\ i \in DOMAIN new
                             /\ ToSet(row[i].samples) \subseteq ToSet(new[i].samples)
  BY <1>2, <1>5, <1>8
<1>13. s \in ToSet(new[m].samples) /\ m \in DOMAIN new
  BY <1>5, <1>8
<1>14. Len(row) <= Len(new)
  BY <1>1, <1>8
<1> QED BY <1>2, <1>3, <1>7, <1>8, <1>9, <1>10, <1>11, <1>12, <1>13, <1>14 DEF TookLine

(* row.add on a row that is still there. *)
LEMMA AddedRow ==
  ASSUME IInv, NEW a \in Adders, AddToRow(a), NEW w \in Writers, w = WriterOf[a],
         adder[a].row = rowGen[w]
  PROVE  /\ \E new : /\ TookLine(clusters[w], new, Sample(a))
                     /\ clusters' = [clusters EXCEPT ![w] = new]
         /\ UNCHANGED lost
<1> USE DEF IInv
<1>1. PICK row : row = clusters[w]
  OBVIOUS
<1>2. GoodClusters(row, clock) /\ clock \in Nat /\ row \in Seq(Cluster)
  BY <1>1 DEF Types, PatternsAreGood, GoodClusters
<1>3. PICK s \in SampleIds : s = Sample(a) /\ Line(s) \in Lines
  BY AdderSample DEF AddToRow
<1>4. PICK fits : fits = {i \in DOMAIN row : WithinBudget(row[i], Line(s))}
  OBVIOUS
<1>5. /\ clusters' = [clusters EXCEPT ![w] =
                        IF fits = {} THEN Append(row, NewLogCluster(a))
                        ELSE [row EXCEPT ![Min(fits)] = Generalize(row[Min(fits)], Line(s), s)]]
      /\ UNCHANGED lost
  <2> DEFINE W == WriterOf[a]
             F == {i \in DOMAIN clusters[W] : WithinBudget(clusters[W][i], Line(Sample(a)))}
             R == IF F = {} THEN Append(clusters[W], NewLogCluster(a))
                  ELSE [clusters[W] EXCEPT ![Min(F)] =
                          Generalize(clusters[W][Min(F)], Line(Sample(a)), Sample(a))]
  <2>1. clusters' = [clusters EXCEPT ![W] = R] /\ UNCHANGED lost
    <3>1. \/ adder[a].row # rowGen[W]
          \/ clusters' = [clusters EXCEPT ![W] = R] /\ UNCHANGED lost
      BY DEF AddToRow
    <3> QED BY <3>1
  <2>2. W = w /\ F = fits
    BY <1>1, <1>3, <1>4
  <2> QED BY <1>1, <1>3, <2>1, <2>2
<1>6. CASE fits = {}
  <2>1. PICK c : c = NewLogCluster(a)
    OBVIOUS
  <2>2. /\ GoodCluster(c, synced, clock + 1) /\ c.pid = Line(s)
        /\ c.iter = clock + 1 /\ s \in ToSet(c.samples)
    BY <1>3, <2>1, NewClusterGood DEF AddToRow
  <2>3. \A i \in DOMAIN row : ~WithinBudget(row[i], Line(s))
    BY <1>4, <1>6
  <2>4. TookLine(row, Append(row, c), s)
    BY <1>2, <2>2, <2>3, AppendedTakes
  <2> QED BY <1>1, <1>3, <1>5, <1>6, <2>1, <2>4
<1>7. CASE fits # {}
  <2>1. fits \in SUBSET Nat
    BY <1>2, <1>4
  <2>2. PICK m : m = Min(fits)
    OBVIOUS
  <2>3. m \in DOMAIN row /\ WithinBudget(row[m], Line(s))
    BY <1>4, <1>7, <2>1, <2>2, LeastOf
  <2>4. TookLine(row, [row EXCEPT ![m] = Generalize(row[m], Line(s), s)], s)
    BY <1>2, <2>3, GeneralizedTakes
  <2> QED BY <1>1, <1>3, <1>5, <1>7, <2>2, <2>4
<1> QED BY <1>6, <1>7

(* Add leaves the lock between its look-up of the row and row.add: the row *)
(* may be gone, and the line with it, or synchronised meanwhile.           *)
LEMMA AddToRowIInv ==
  ASSUME IInv, NEW a \in Adders, AddToRow(a)
  PROVE  IInv'
<1> USE DEF IInv
<1>1. PICK w \in Writers : w = WriterOf[a]
  BY PatternAssumption
<1>2. PICK s : s = Sample(a)
  OBVIOUS
<1>3. /\ adder[a].pc = "add" /\ NoReader(w) /\ clock' = clock + 1
      /\ settled' = settled \cup {s} /\ adder' = [adder EXCEPT ![a] = Returned(a)]
      /\ UNCHANGED <<rowGen, table, sync, synced>>
  BY <1>1, <1>2 DEF AddToRow
<1>4. clock \in Nat /\ clock' \in Nat /\ clock <= clock' /\ synced \subseteq synced'
      /\ table' \ table = {}
  BY <1>3 DEF Types
<1>5. /\ adder' \in [Adders -> AdderState] /\ adder'[a].pc = "idle"
      /\ \A b \in Adders : b # a => adder'[b] = adder[b]
  BY <1>3, ReturnedFacts
<1>6. ASSUME NEW b \in Adders, adder'[b].pc = "sample"
      PROVE  /\ WriterOf[b] # w /\ WriterOf[b] \in Writers
             /\ adder'[b] = adder[b] /\ Sees(b)
  BY <1>3, <1>5, <1>6, PatternAssumption DEF NoReader, ReadersSee
<1>7. CASE lost' = lost \cup {s} /\ UNCHANGED clusters
  <2>1. Types'
    BY <1>3, <1>4, <1>5, <1>7 DEF Types
  <2>2. PatternsAreGood'
    <3>1. clusters[w] \in Seq(Cluster) /\ clusters' = [clusters EXCEPT ![w] = clusters[w]]
      BY <1>7 DEF Types
    <3>2. \A i \in DOMAIN clusters[w] : GoodCluster(clusters[w][i], synced', clock')
      <4> SUFFICES ASSUME NEW c, GoodCluster(c, synced, clock)
                   PROVE  GoodCluster(c, synced', clock')
        BY DEF PatternsAreGood
      <4>1. c.iter \in Nat
        BY DEF GoodCluster, Cluster
      <4> QED BY <1>4, <4>1, GoodWeaker DEF GoodCluster
    <3>3. DistinctPids(clusters[w])
      BY DEF PatternsAreGood
    <3> QED BY <1>4, <3>1, <3>2, <3>3, PatternsStay
  <2>3. ReadersSee'
    BY <1>3, <1>6, <1>7, SeesStays DEF ReadersSee
  <2>4. SyncKnows'
    <3> SUFFICES ASSUME NEW u \in Writers, Syncing(u)' PROVE Knows(u)'
      BY DEF SyncKnows
    <3>1. Knows(u) /\ sync[u].since \in Nat
      BY <1>3 DEF SyncKnows, Syncing, Types
    <3> QED BY <1>3, <1>4, <1>7, <3>1 DEF Knows
  <2>5. Accounted'
    BY <1>3, <1>7 DEF Accounted, HeldBy
  <2> QED BY <2>1, <2>2, <2>3, <2>4, <2>5
<1>8. CASE ~(lost' = lost \cup {s} /\ UNCHANGED clusters)
  <2>1. adder[a].row = rowGen[w]
    BY <1>1, <1>2, <1>8 DEF AddToRow
  <2>2. PICK new : /\ TookLine(clusters[w], new, s) /\ clusters' = [clusters EXCEPT ![w] = new]
                   /\ UNCHANGED lost
    BY <1>1, <1>2, <2>1, AddedRow
  <2>3. /\ new \in Seq(Cluster) /\ DistinctPids(new)
        /\ \A i \in DOMAIN new : GoodCluster(new[i], synced', clock')
        /\ Len(new) \in Nat /\ Len(clusters[w]) <= Len(new)
        /\ \A i \in DOMAIN clusters[w] :
             /\ i \in DOMAIN new
             /\ ToSet(clusters[w][i].samples) \subseteq ToSet(new[i].samples)
        /\ \A i \in DOMAIN new :
             \/ new[i].iter = clock + 1
             \/ /\ i \in DOMAIN clusters[w]
                /\ new[i].iter = clusters[w][i].iter /\ new[i].pid = clusters[w][i].pid
        /\ \E i \in DOMAIN new : s \in ToSet(new[i].samples)
    <3>1. new \in Seq(Cluster) /\ Len(new) \in Nat
      BY <2>2 DEF TookLine
    <3>2. \A i \in DOMAIN new : GoodCluster(new[i], synced', clock')
      BY <1>3, <2>2 DEF TookLine
    <3> QED BY <2>2, <3>1, <3>2 DEF TookLine
  <2>4. /\ PatternsAreGood' /\ clusters' \in [Writers -> Seq(Cluster)]
        /\ clusters'[w] = new
        /\ \A u \in Writers : u # w => clusters'[u] = clusters[u]
    BY <1>3, <1>4, <2>2, <2>3, PatternsStay
  <2>5. Types'
    BY <1>3, <1>4, <1>5, <2>4 DEF Types
  <2>6. ReadersSee'
    BY <1>3, <1>6, <2>4, SeesStays DEF ReadersSee
  <2>7. SyncKnows'
    <3> SUFFICES ASSUME NEW u \in Writers, Syncing(u)' PROVE Knows(u)'
      BY DEF SyncKnows
    <3>1. Knows(u) /\ sync[u].since \in Nat /\ sync[u].since <= clock
      BY <1>3 DEF SyncKnows, Syncing, Types, Knows
    <3>2. CASE u # w
      <4>1. Len(clusters[u]) \in Nat /\ clusters'[u] = clusters[u] /\ sync'[u] = sync[u]
        BY <1>3, <2>4, <3>2 DEF Types
      <4> QED BY <1>3, <1>4, <3>1, <4>1, KnowsStays
    <3>3. CASE u = w
      <4>1. Len(clusters'[u]) \in Nat /\ Len(clusters'[u]) >= Len(clusters[u])
        <5>1. Len(clusters[u]) \in Nat
          BY DEF Types
        <5> QED BY <2>3, <2>4, <3>3, <5>1
      <4>2. \A i \in DOMAIN clusters'[u] :
              \/ clusters'[u][i].iter > sync[u].since
              \/ /\ i \in DOMAIN clusters[u]
                 /\ clusters'[u][i].iter = clusters[u][i].iter
                 /\ clusters'[u][i].pid = clusters[u][i].pid
        BY <1>4, <2>3, <2>4, <3>1, <3>3
      <4> QED BY <1>3, <1>4, <3>1, <4>1, <4>2, KnowsStays
    <3> QED BY <3>2, <3>3
  <2>8. Accounted'
    <3>1. HeldBy(w, s)'
      BY <2>3, <2>4 DEF HeldBy
    <3>2. ASSUME NEW u \in Writers, NEW r, HeldBy(u, r) PROVE HeldBy(u, r)'
      BY <2>3, <2>4, <3>2 DEF HeldBy
    <3> QED BY <1>3, <2>2, <3>1, <3>2 DEF Accounted
  <2> QED BY <2>4, <2>5, <2>6, <2>7, <2>8
<1> QED BY <1>7, <1>8

(* A sequence that lists a finite set without repetition lists all of it. *)
LEMMA Enumerates ==
  ASSUME NEW S, IsFiniteSet(S), NEW f \in SetToSeqs(S)
  PROVE  /\ f \in Seq(S) /\ \A x \in S : \E i \in DOMAIN f : f[i] = x
         /\ \A i, j \in DOMAIN f : f[i] = f[j] => i = j
<1>1. PICK n \in Nat : n = Cardinality(S)
  BY FS_CardinalityType
<1>2. f \in [1..n -> S] /\ \A i, j \in 1..n : i # j => f[i] # f[j]
  BY <1>1 DEF SetToSeqs
<1>3. f \in Injection(1..n, S)
  BY <1>2 DEF Injection, IsInjective
<1>4. Cardinality(1..n) = n
  BY FS_Interval
<1>5. f \in Surjection(1..n, S)
  BY <1>1, <1>3, <1>4, FS_Injection
<1>6. \A x \in S : \E i \in 1..n : f[i] = x
  BY <1>5 DEF Surjection
<1> QED BY <1>2, <1>6

(* A routine that has the clusterer's lock to itself and gives its writer  *)
(* another row of good clusters.                                           *)
LEMMA RoundStep ==
  ASSUME IInv, NEW w \in Writers, Round(w), NEW row, GoodClusters(row, clock),
         clusters' = [clusters EXCEPT ![w] = row],
         UNCHANGED <<adder, clock, sync, settled, synced>>,
         rowGen' \in [Writers -> Nat], IsFiniteSet(table'), table \subseteq table',
         \A r \in table' \ table : GoodRow(r, synced, clock), lost \subseteq lost',
         \A s : HeldBy(w, s) => \/ \E i \in DOMAIN row : s \in ToSet(row[i].samples)
                                \/ \E r \in table' : s \in r.samples
                                \/ s \in lost'
  PROVE  IInv'
<1> USE DEF IInv
<1>1. clock \in Nat /\ clock' \in Nat /\ clock <= clock' /\ synced \subseteq synced'
  BY DEF Types
<1>2. /\ row \in Seq(Cluster) /\ DistinctPids(row)
      /\ \A i \in DOMAIN row : GoodCluster(row[i], synced', clock')
      /\ \A r \in table' \ table : GoodRow(r, synced', clock')
  BY DEF GoodClusters
<1>3. /\ PatternsAreGood' /\ clusters' \in [Writers -> Seq(Cluster)]
      /\ clusters'[w] = row
      /\ \A u \in Writers : u # w => clusters'[u] = clusters[u]
  BY <1>1, <1>2, PatternsStay
<1>4. Types'
  BY <1>3 DEF Types
<1>5. ReadersSee'
  <2> SUFFICES ASSUME NEW b \in Adders, adder'[b].pc = "sample" PROVE Sees(b)'
    BY DEF ReadersSee
  <2>1. Sees(b) /\ WriterOf[b] # w /\ WriterOf[b] \in Writers /\ adder'[b] = adder[b]
    BY PatternAssumption DEF Round, NoReader, ReadersSee
  <2>2. clusters'[WriterOf[b]] = clusters[WriterOf[b]]
    BY <1>3, <2>1
  <2> QED BY <2>1, <2>2, SeesStays
<1>6. SyncKnows'
  <2> SUFFICES ASSUME NEW u \in Writers, Syncing(u)' PROVE Knows(u)'
    BY DEF SyncKnows
  <2>1. Knows(u) /\ u # w /\ sync'[u] = sync[u]
    BY DEF SyncKnows, Syncing, Round
  <2>2. clusters'[u] = clusters[u] /\ Len(clusters[u]) \in Nat
    BY <1>3, <2>1 DEF Types
  <2> QED BY <1>1, <2>1, <2>2, KnowsStays
<1>7. Accounted'
  <2> SUFFICES ASSUME NEW s \in settled
               PROVE  \/ \E u \in Writers : HeldBy(u, s)'
                      \/ \E r \in table' : s \in r.samples
                      \/ s \in lost'
    BY DEF Accounted
  <2>1. ASSUME NEW u \in Writers, u # w, HeldBy(u, s) PROVE HeldBy(u, s)'
    BY <1>3, <2>1 DEF HeldBy
  <2>2. (\E i \in DOMAIN row : s \in ToSet(row[i].samples)) => HeldBy(w, s)'
    BY <1>3 DEF HeldBy
  <2> QED BY <2>1, <2>2 DEF Accounted
<1> QED BY <1>3, <1>4, <1>5, <1>6, <1>7

(* The row of the table that RunFlush inserts for a cluster. *)
RowOf(c) == [pid |-> c.pid, tokens |-> c.tokens, iter |-> c.iter, cost |-> c.cost,
             samples |-> ToSet(c.samples)]

LEMMA RowOfGood ==
  ASSUME NEW c, NEW S, NEW now, GoodCluster(c, S, now)
  PROVE  GoodRow(RowOf(c), S, now)
<1>1. c \in Cluster /\ GoodPattern(c, ToSet(c.samples), S, now)
  BY DEF GoodCluster
<1>2. PICK r : r = RowOf(c)
  OBVIOUS
<1>3. PICK sm : sm = ToSet(c.samples)
  OBVIOUS
<1>4. sm \in SUBSET SampleIds
  <2>1. c.samples \in Seq(SampleIds)
    BY <1>1 DEF Cluster
  <2> QED BY <1>3, <2>1 DEF ToSet
<1>5. r = [pid |-> c.pid, tokens |-> c.tokens, iter |-> c.iter, cost |-> c.cost, samples |-> sm]
  BY <1>2, <1>3 DEF RowOf
<1>6. r \in TableRow
  BY <1>1, <1>4, <1>5 DEF TableRow, Cluster
<1> QED BY <1>1, <1>2, <1>3, <1>5, <1>6 DEF GoodRow, GoodPattern

(* A cluster that has given its samples away, or become idle. *)
LEMMA FewerSamplesGood ==
  ASSUME NEW c, NEW d \in Cluster, NEW S, NEW now, GoodCluster(c, S, now),
         d.pid = c.pid, d.tokens = c.tokens, d.iter = c.iter, d.cost = c.cost,
         ToSet(d.samples) \subseteq ToSet(c.samples)
  PROVE  GoodCluster(d, S, now)
<1> QED BY DEF GoodCluster, GoodPattern

(* RunFlush: what leaves the clusters is in the table or, when the insert  *)
(* fails, lost.                                                            *)
LEMMA FlushIInv ==
  ASSUME IInv, NEW w \in Writers, Flush(w)
  PROVE  IInv'
<1> USE DEF IInv
<1>1. PICK old \in Seq(Cluster) : old = clusters[w]
  BY DEF Types
<1>2. PICK n \in Nat : DOMAIN old = 1..n /\ Len(old) = n
  OBVIOUS
<1>3. PICK out : out = {i \in DOMAIN old : Flushed(old[i])}
  OBVIOUS
<1>4. PICK new : new = {RowOf(c) : c \in {old[i] : i \in out}}
  OBVIOUS
<1>5. PICK row : row = [i \in DOMAIN old |->
                          IF Flushed(old[i]) THEN [old[i] EXCEPT !.samples = <<>>, !.idle = FALSE]
                          ELSE old[i]]
  OBVIOUS
<1>6. /\ clusters' = [clusters EXCEPT ![w] = row]
      /\ \/ table' = table \cup new /\ UNCHANGED lost
         \/ lost' = lost \cup UNION {r.samples : r \in new} /\ UNCHANGED table
      /\ Round(w) /\ UNCHANGED <<rowGen, adder, clock, sync, settled, synced>>
  <2>1. clusters' = [clusters EXCEPT ![w] = row]
    BY <1>1, <1>5 DEF Flush
  <2>2. new = {RowOf(c) : c \in {clusters[w][i] :
                 i \in {j \in DOMAIN clusters[w] : Len(clusters[w][j].samples) >= FlushMin}}}
    BY <1>1, <1>3, <1>4 DEF Flushed
  <2>3. \/ table' = table \cup new /\ UNCHANGED lost
        \/ lost' = lost \cup UNION {r.samples : r \in new} /\ UNCHANGED table
    BY <2>2, Zenon DEF Flush, RowOf
  <2>4. Round(w) /\ UNCHANGED <<rowGen, adder, clock, sync, settled, synced>>
    BY DEF Flush
  <2> QED BY <2>1, <2>3, <2>4
<1>7. DistinctPids(old) /\ \A i \in DOMAIN old : GoodCluster(old[i], synced, clock)
  BY <1>1 DEF PatternsAreGood
<1>8. ASSUME NEW i \in DOMAIN old
      PROVE  /\ row[i] \in Cluster /\ row[i].pid = old[i].pid
             /\ GoodCluster(row[i], synced, clock)
             /\ i \notin out => row[i] = old[i]
  <2>1. PICK c \in Cluster : c = old[i]
    BY <1>8
  <2>2. CASE i \notin out
    BY <1>3, <1>5, <1>7, <2>1, <2>2
  <2>3. CASE i \in out
    <3>1. FALSE \in BOOLEAN
      BY Zenon
    <3>2. PICK e : e = <<>>
      OBVIOUS
    <3>3. e \in Seq(SampleIds) /\ ToSet(e) = {}
      BY <3>2 DEF ToSet
    <3>4. row[i] = [c EXCEPT !.samples = e, !.idle = FALSE]
      BY <1>3, <1>5, <2>1, <2>3, <3>2
    <3>5. /\ row[i] \in Cluster /\ row[i].pid = c.pid /\ row[i].tokens = c.tokens
          /\ row[i].iter = c.iter /\ row[i].cost = c.cost /\ row[i].samples = e
      BY <3>1, <3>3, <3>4 DEF Cluster
    <3>6. GoodCluster(c, synced, clock) /\ ToSet(row[i].samples) \subseteq ToSet(c.samples)
      BY <1>7, <2>1, <3>3, <3>5
    <3>7. PICK d \in Cluster : d = row[i]
      BY <3>5
    <3>8. GoodCluster(d, synced, clock)
      BY <3>5, <3>6, <3>7, FewerSamplesGood
    <3> QED BY <2>1, <2>3, <3>5, <3>7, <3>8
  <2> QED BY <2>2, <2>3
<1>9. GoodClusters(row, clock) /\ DOMAIN row = DOMAIN old
  <2>1. DOMAIN row = 1..n /\ \A i \in 1..n : row[i] \in Cluster
    BY <1>2, <1>5, <1>8
  <2>2. row \in Seq(Cluster)
    <3>1. PICK F : F = row
      OBVIOUS
    <3>2. F = [i \in 1..n |-> F[i]]
      BY <1>2, <1>5, <3>1
    <3>3. F \in [1..n -> Cluster]
      BY <2>1, <3>1, <3>2
    <3> QED BY <3>1, <3>3
  <2>3. DistinctPids(row)
    BY <1>2, <1>7, <1>8, <2>1 DEF DistinctPids
  <2> QED BY <1>2, <1>8, <2>1, <2>2, <2>3 DEF GoodClusters
<1>10. IsFiniteSet(new)
  <2>1. IsFiniteSet(out)
    <3>1. IsFiniteSet(1..n)
      BY FS_Interval
    <3> QED BY <1>2, <1>3, <3>1, FS_Subset
  <2>2. PICK f : f = [i \in out |-> RowOf(old[i])]
    OBVIOUS
  <2>3. f \in Surjection(out, new)
    BY <1>4, <2>2 DEF Surjection
  <2> QED BY <2>1, <2>3, FS_Surjection
<1>11. IsFiniteSet(table') /\ table \subseteq table'
  <2>1. IsFiniteSet(table) /\ IsFiniteSet(table \cup new)
    BY <1>10, FS_Union DEF Types
  <2> QED BY <1>6, <2>1
<1>12. ASSUME NEW r \in new PROVE GoodRow(r, synced, clock)
  <2>1. PICK i \in out : r = RowOf(old[i])
    BY <1>4
  <2> QED BY <1>3, <1>7, <2>1, RowOfGood
<1>13. ASSUME NEW s, HeldBy(w, s)
       PROVE  \/ \E i \in DOMAIN row : s \in ToSet(row[i].samples)
              \/ \E r \in table' : s \in r.samples
              \/ s \in lost'
  <2>1. PICK i \in DOMAIN old : s \in ToSet(old[i].samples)
    BY <1>1, <1>13 DEF HeldBy
  <2>2. CASE i \notin out
    BY <1>8, <1>9, <2>1, <2>2
  <2>3. CASE i \in out
    <3>1. RowOf(old[i]) \in new /\ RowOf(old[i]).samples = ToSet(old[i].samples)
      BY <1>4, <2>3 DEF RowOf
    <3>2. PICK r \in new : s \in r.samples
      BY <2>1, <3>1
    <3> QED BY <1>6, <3>2
  <2> QED BY <2>2, <2>3
<1>14. rowGen' \in [Writers -> Nat] /\ lost \subseteq lost'
  BY <1>6 DEF Types
<1>15. \A r \in table' \ table : GoodRow(r, synced, clock)
  BY <1>6, <1>12
<1> QED BY <1>6, <1>9, <1>11, <1>13, <1>14, <1>15, RoundStep

(* Idle clusters change nothing but that. *)
LEMMA FiveMinutesPassIInv ==
  ASSUME IInv, NEW w \in Writers, FiveMinutesPass(w)
  PROVE  IInv'
<1> USE DEF IInv
<1>1. PICK old \in Seq(Cluster) : old = clusters[w]
  BY DEF Types
<1>2. PICK n \in Nat : DOMAIN old = 1..n /\ Len(old) = n
  OBVIOUS
<1>3. PICK row : row = [i \in 1..n |-> [old[i] EXCEPT !.idle = TRUE]]
  OBVIOUS
<1>4. /\ clusters' = [clusters EXCEPT ![w] = row]
      /\ UNCHANGED <<rowGen, adder, table, clock, sync, settled, lost, synced>>
  BY <1>1, <1>2, <1>3 DEF FiveMinutesPass
<1>5. DistinctPids(old) /\ \A i \in 1..n : GoodCluster(old[i], synced, clock)
  BY <1>1, <1>2 DEF PatternsAreGood
<1>6. ASSUME NEW i \in 1..n
      PROVE  /\ row[i] \in Cluster /\ row[i].pid = old[i].pid /\ row[i].tokens = old[i].tokens
             /\ row[i].iter = old[i].iter /\ row[i].samples = old[i].samples
             /\ GoodCluster(row[i], synced, clock)
  <2>1. PICK c \in Cluster : c = old[i]
    BY <1>2
  <2>2. TRUE \in BOOLEAN
    BY Zenon
  <2>3. PICK d : d = row[i]
    OBVIOUS
  <2>4. d = [c EXCEPT !.idle = TRUE]
    BY <1>3, <2>1, <2>3
  <2>5. /\ d \in Cluster /\ d.pid = c.pid /\ d.tokens = c.tokens
        /\ d.iter = c.iter /\ d.cost = c.cost /\ d.samples = c.samples
    BY <2>2, <2>4 DEF Cluster
  <2>6. GoodCluster(d, synced, clock)
    BY <1>5, <2>1, <2>5, FewerSamplesGood
  <2> QED BY <2>1, <2>3, <2>5, <2>6
<1>7. row \in Seq(Cluster) /\ DOMAIN row = 1..n /\ Len(row) = n
  BY <1>3, <1>6
<1>8. DistinctPids(row)
  BY <1>2, <1>5, <1>6, <1>7 DEF DistinctPids
<1>9. clock \in Nat /\ clock' \in Nat /\ clock <= clock' /\ synced \subseteq synced'
      /\ table' \ table = {} /\ table \subseteq table'
  BY <1>4 DEF Types
<1>10. /\ PatternsAreGood' /\ clusters' \in [Writers -> Seq(Cluster)]
       /\ clusters'[w] = row
       /\ \A u \in Writers : u # w => clusters'[u] = clusters[u]
  <2>1. \A i \in DOMAIN row : GoodCluster(row[i], synced', clock')
    BY <1>4, <1>6, <1>7
  <2> QED BY <1>4, <1>7, <1>8, <1>9, <2>1, PatternsStay
<1>11. Types'
  BY <1>4, <1>10 DEF Types
<1>12. ASSUME NEW u \in Writers
       PROVE  /\ DOMAIN clusters'[u] = DOMAIN clusters[u]
              /\ Len(clusters'[u]) = Len(clusters[u]) /\ Len(clusters[u]) \in Nat
              /\ \A i \in DOMAIN clusters[u] :
                   /\ clusters'[u][i].tokens = clusters[u][i].tokens
                   /\ clusters'[u][i].pid = clusters[u][i].pid
                   /\ clusters'[u][i].iter = clusters[u][i].iter
                   /\ clusters'[u][i].samples = clusters[u][i].samples
  <2>1. CASE u = w
    BY <1>1, <1>2, <1>6, <1>7, <1>10, <2>1
  <2>2. CASE u # w
    <3>1. Len(clusters[u]) \in Nat
      BY DEF Types
    <3> QED BY <1>10, <2>2, <3>1
  <2> QED BY <2>1, <2>2
<1>13. ReadersSee'
  <2> SUFFICES ASSUME NEW b \in Adders, adder'[b].pc = "sample" PROVE Sees(b)'
    BY DEF ReadersSee
  <2>1. Sees(b) /\ WriterOf[b] \in Writers /\ adder'[b] = adder[b]
    BY <1>4, PatternAssumption DEF ReadersSee
  <2> QED BY <1>4, <1>12, <2>1, SeesStays
<1>14. SyncKnows'
  <2> SUFFICES ASSUME NEW u \in Writers, Syncing(u)' PROVE Knows(u)'
    BY DEF SyncKnows
  <2>1. Knows(u) /\ sync'[u] = sync[u]
    BY <1>4 DEF SyncKnows, Syncing
  <2>2. Len(clusters'[u]) \in Nat /\ Len(clusters'[u]) >= Len(clusters[u])
    BY <1>12
  <2> QED BY <1>9, <1>12, <2>1, <2>2, KnowsStays
<1>15. Accounted'
  <2>1. \A u \in Writers : \A s : HeldBy(u, s) => HeldBy(u, s)'
    BY <1>12 DEF HeldBy
  <2> QED BY <1>4, <2>1 DEF Accounted
<1> QED BY <1>10, <1>11, <1>13, <1>14, <1>15

(* cleanup: the clusters that stay are those that were there. *)
LEMMA CleanupIInv ==
  ASSUME IInv, NEW w \in Writers, Cleanup(w)
  PROVE  IInv'
<1> USE DEF IInv
<1>1. PICK old \in Seq(Cluster) : old = clusters[w]
  BY DEF Types
<1>2. PICK n \in Nat : DOMAIN old = 1..n /\ Len(old) = n
  OBVIOUS
<1>3. PICK idle : idle = {i \in DOMAIN old : old[i].idle}
  OBVIOUS
<1>4. PICK D : D = 1..n \ idle
  OBVIOUS
<1>5. PICK kept \in At(old, D) :
        /\ clusters' = [clusters EXCEPT ![w] = kept]
        /\ rowGen' = [rowGen EXCEPT ![w] = IF kept = <<>> THEN @ + 1 ELSE @]
        /\ lost' = lost \cup UNION {ToSet(old[i].samples) : i \in idle}
        /\ Round(w) /\ UNCHANGED <<adder, table, clock, sync, settled, synced>>
  <2> DEFINE I == {i \in DOMAIN clusters[w] : clusters[w][i].idle}
  <2>1. \E kept \in At(clusters[w], DOMAIN clusters[w] \ I) :
          /\ clusters' = [clusters EXCEPT ![w] = kept]
          /\ rowGen' = [rowGen EXCEPT ![w] = IF kept = <<>> THEN @ + 1 ELSE @]
    BY DEF Cleanup
  <2>2. /\ lost' = lost \cup UNION {ToSet(clusters[w][i].samples) : i \in I}
        /\ Round(w) /\ UNCHANGED <<adder, table, clock, sync, settled, synced>>
    BY DEF Cleanup
  <2>3. I = idle /\ DOMAIN clusters[w] \ I = D
    BY <1>1, <1>2, <1>3, <1>4
  <2>4. lost' = lost \cup UNION {ToSet(old[i].samples) : i \in idle}
    BY <1>1, <2>2, <2>3
  <2> HIDE DEF I
  <2>5. PICK k \in At(clusters[w], DOMAIN clusters[w] \ I) :
          /\ clusters' = [clusters EXCEPT ![w] = k]
          /\ rowGen' = [rowGen EXCEPT ![w] = IF k = <<>> THEN @ + 1 ELSE @]
    BY <2>1
  <2>6. k \in At(old, D)
    BY <1>1, <2>3
  <2> QED BY <2>2, <2>4, <2>5, <2>6, Zenon
<1>6. PICK f \in SetToSeqs(D) : kept = [j \in DOMAIN f |-> old[f[j]]]
  BY DEF At
<1>7. IsFiniteSet(D)
  <2>1. IsFiniteSet(1..n) /\ D \in SUBSET (1..n)
    BY <1>4, FS_Interval
  <2> QED BY <2>1, FS_Subset
<1>8. /\ f \in Seq(D) /\ \A x \in D : \E i \in DOMAIN f : f[i] = x
      /\ \A i, j \in DOMAIN f : f[i] = f[j] => i = j
  BY <1>7, Enumerates
<1>9. PICK k \in Nat : DOMAIN f = 1..k
  BY <1>8
<1>10. \A j \in 1..k : f[j] \in 1..n /\ kept[j] = old[f[j]] /\ kept[j] \in Cluster
  BY <1>2, <1>4, <1>6, <1>8, <1>9
<1>11. kept \in Seq(Cluster) /\ DOMAIN kept = 1..k
  BY <1>6, <1>9, <1>10
<1>12. DistinctPids(old) /\ \A i \in 1..n : GoodCluster(old[i], synced, clock)
  BY <1>1, <1>2 DEF PatternsAreGood
<1>13. DistinctPids(kept)
  BY <1>2, <1>8, <1>9, <1>10, <1>11, <1>12 DEF DistinctPids
<1>14. GoodClusters(kept, clock)
  BY <1>10, <1>11, <1>12, <1>13 DEF GoodClusters
<1>15. rowGen' \in [Writers -> Nat] /\ lost \subseteq lost' /\ IsFiniteSet(table')
       /\ table \subseteq table' /\ table' \ table = {}
  BY <1>5 DEF Types
<1>16. ASSUME NEW s, HeldBy(w, s)
       PROVE  (\E i \in DOMAIN kept : s \in ToSet(kept[i].samples)) \/ s \in lost'
  <2>1. PICK i \in 1..n : s \in ToSet(old[i].samples)
    BY <1>1, <1>2, <1>16 DEF HeldBy
  <2>2. CASE i \in idle
    BY <1>5, <2>1, <2>2
  <2>3. CASE i \notin idle
    BY <1>4, <1>8, <1>9, <1>10, <1>11, <2>1, <2>3
  <2> QED BY <2>2, <2>3
<1> QED BY <1>5, <1>14, <1>15, <1>16, RoundStep

(* SyncPatterns asks for the patterns that are newer than the clusters.    *)
LEMMA SyncBeginsIInv ==
  ASSUME IInv, NEW w \in Writers, SyncBegins(w)
  PROVE  IInv'
<1> USE DEF IInv
<1>1. PICK found \in Nat : found = 1 + Len(clusters[w])
  BY DEF Types
<1>2. PICK wanted : wanted = Wanted(w)
  OBVIOUS
<1>3. PICK new : new = [found |-> found, wanted |-> wanted, since |-> clock]
  OBVIOUS
<1>4. /\ sync' = [sync EXCEPT ![w] = new]
      /\ Round(w) /\ UNCHANGED <<clusters, rowGen, adder, table, clock, settled, lost, synced>>
  BY <1>1, <1>2, <1>3 DEF SyncBegins
<1>5. ASSUME NEW id \in wanted
      PROVE  \E q \in table : /\ q.pid = id
                              /\ \A i \in DOMAIN clusters[w] :
                                   clusters[w][i].pid = id => q.iter > clusters[w][i].iter
  BY <1>2 DEF Wanted, Latest, IsNewer
<1>6. wanted \in SUBSET Lines
  BY <1>5 DEF PatternsAreGood, GoodRow, TableRow
<1>7. clock \in Nat
  BY DEF Types
<1>8. /\ sync' \in [Writers -> [found : Nat, wanted : SUBSET Lines, since : Nat]]
      /\ sync'[w] = new /\ \A u \in Writers : u # w => sync'[u] = sync[u]
  BY <1>3, <1>4, <1>6, <1>7 DEF Types
<1>9. Types'
  BY <1>4, <1>8 DEF Types
<1>10. PatternsAreGood' /\ Accounted'
  BY <1>4 DEF PatternsAreGood, Accounted, HeldBy
<1>11. ReadersSee'
  <2> SUFFICES ASSUME NEW b \in Adders, adder'[b].pc = "sample" PROVE Sees(b)'
    BY DEF ReadersSee
  <2>1. Sees(b) /\ WriterOf[b] # w /\ WriterOf[b] \in Writers /\ adder'[b] = adder[b]
    BY <1>4, PatternAssumption DEF Round, NoReader, ReadersSee
  <2> QED BY <1>4, <1>8, <2>1, SeesStays
<1>12. SyncKnows'
  <2> SUFFICES ASSUME NEW u \in Writers, Syncing(u)' PROVE Knows(u)'
    BY DEF SyncKnows
  <2>1. CASE u # w
    <3>1. Knows(u) /\ sync'[u] = sync[u] /\ Len(clusters[u]) \in Nat
      BY <1>8, <2>1 DEF SyncKnows, Syncing, Types
    <3> QED BY <1>4, <1>7, <3>1, KnowsStays
  <2>2. CASE u = w
    <3>1. new.found - 1 <= Len(clusters[w]) /\ new.since <= clock
      <4>1. Len(clusters[w]) \in Nat
        BY DEF Types
      <4> QED BY <1>1, <1>3, <1>7, <4>1
    <3>2. ASSUME NEW i \in DOMAIN clusters[w], clusters[w][i].pid \in new.wanted
          PROVE  \E q \in table : q.pid = clusters[w][i].pid /\ q.iter > clusters[w][i].iter
      BY <1>3, <1>5, <3>2
    <3> QED BY <1>4, <1>8, <2>2, <3>1, <3>2 DEF Knows
  <2> QED BY <2>1, <2>2
<1> QED BY <1>9, <1>10, <1>11, <1>12

(* What GetPatterns returns: rows of the table, one per pattern, none of   *)
(* them older than another row of its pattern.                             *)
LEMMA GetPatternsFacts ==
  ASSUME IInv, NEW ids, NEW P \in GetPatterns(ids)
  PROVE  /\ P \subseteq table /\ IsFiniteSet(P)
         /\ \A r \in P : /\ r.pid \in ids /\ r.iter \in Nat /\ GoodRow(r, synced, clock)
                         /\ \A q \in table : q.pid = r.pid => q.iter <= r.iter
         /\ \A r, q \in P : r.pid = q.pid => r = q
<1>1. /\ P \in SUBSET {r \in Latest : r.pid \in ids}
      /\ \A id \in ids : \E r \in P : r.pid = id /\ \A q \in P : q.pid = id => q = r
  BY Zenon DEF GetPatterns
<1>2. P \subseteq table /\ \A r \in P : /\ r.pid \in ids
                                        /\ \A q \in table : q.pid = r.pid => q.iter <= r.iter
  BY <1>1 DEF Latest
<1>3. IsFiniteSet(P)
  BY <1>2, FS_Subset DEF IInv, Types
<1>4. \A r \in P : r.iter \in Nat /\ GoodRow(r, synced, clock)
  BY <1>2 DEF IInv, PatternsAreGood, GoodRow, TableRow
<1>5. ASSUME NEW r \in P, NEW q \in P, r.pid = q.pid PROVE r = q
  BY <1>1, <1>2, <1>5
<1> QED BY <1>2, <1>3, <1>4, <1>5

(* LogCluster.sync: a cluster whose pattern is replaced is from then on    *)
(* one of the synchronised ones.                                           *)
LEMMA SyncClusterGood ==
  ASSUME NEW c, NEW P, NEW S, NEW T, NEW now \in Nat,
         GoodCluster(c, S, now), S \subseteq T, \A r \in P : GoodRow(r, S, now),
         \A r \in P : r.pid = c.pid => c.pid \in T
  PROVE  LET d == SyncCluster(c, P)
         IN  /\ GoodCluster(d, T, now) /\ d.pid = c.pid /\ d.samples = c.samples
             /\ \/ d.iter = c.iter
                \/ \E r \in P : r.pid = c.pid /\ d.iter = r.iter
<1>1. c \in Cluster /\ GoodPattern(c, ToSet(c.samples), S, now) /\ c.iter \in Nat
  BY DEF GoodCluster, Cluster
<1>2. CASE ~\E r \in P : r.pid = c.pid
  <2>1. SyncCluster(c, P) = c
    BY <1>2 DEF SyncCluster
  <2>2. GoodCluster(c, T, now)
    BY <1>1, GoodWeaker DEF GoodCluster
  <2> QED BY <2>1, <2>2
<1>3. CASE \E r \in P : r.pid = c.pid
  <2>1. PICK r \in P : r.pid = c.pid /\ r = CHOOSE q \in P : q.pid = c.pid
    BY <1>3
  <2>2. PICK d : d = SyncCluster(c, P)
    OBVIOUS
  <2>3. d = [c EXCEPT !.tokens = r.tokens, !.iter = r.iter]
    BY <1>3, <2>1, <2>2 DEF SyncCluster
  <2>4. r \in TableRow /\ GoodPattern(r, r.samples, S, now)
    BY DEF GoodRow
  <2>5. /\ d \in Cluster /\ d.pid = c.pid /\ d.samples = c.samples /\ d.cost = c.cost
        /\ d.tokens = r.tokens /\ d.iter = r.iter
    BY <1>1, <2>3, <2>4 DEF Cluster, TableRow
  <2>6. GoodCluster(d, T, now)
    BY <1>1, <2>1, <2>4, <2>5 DEF GoodCluster, GoodPattern
  <2> QED BY <2>1, <2>2, <2>5, <2>6
<1> QED BY <1>2, <1>3

LEMMA LoadLogClusterGood ==
  ASSUME NEW r, NEW S, NEW T, NEW now \in Nat, GoodRow(r, S, now), S \subseteq T
  PROVE  GoodCluster(LoadLogCluster(r), T, now) /\ LoadLogCluster(r).pid = r.pid
<1>1. r \in TableRow /\ GoodPattern(r, r.samples, S, now) /\ r.iter \in Nat
  BY DEF GoodRow, TableRow
<1>2. PICK e : e = <<>>
  OBVIOUS
<1>3. e \in Seq(SampleIds) /\ ToSet(e) = {}
  BY <1>2 DEF ToSet
<1>4. FALSE \in BOOLEAN
  BY Zenon
<1>5. PICK c : c = [pid |-> r.pid, tokens |-> r.tokens, iter |-> r.iter, cost |-> r.cost,
                    samples |-> e, idle |-> FALSE]
  OBVIOUS
<1>6. c = LoadLogCluster(r)
  BY <1>2, <1>5 DEF LoadLogCluster
<1>7. c \in Cluster
  BY <1>1, <1>3, <1>4, <1>5 DEF Cluster, TableRow
<1>8. GoodCluster(c, T, now) /\ c.pid = r.pid
  BY <1>1, <1>3, <1>5, <1>7 DEF GoodCluster, GoodPattern
<1> QED BY <1>6, <1>8

(* An iteration of writer w that a step replaces. *)
NotTakenBack(w, row) ==
  \A i \in DOMAIN clusters[w] :
    (i \in DOMAIN row /\ row[i].pid = clusters[w][i].pid)
      => \/ row[i].iter >= clusters[w][i].iter
         \/ Syncing(w) /\ clusters[w][i].iter > sync[w].since

(* What SyncPatterns makes of the row. *)
Synchronised(w, row) ==
  /\ row \in Seq(Cluster) /\ DistinctPids(row)
  /\ \A i \in DOMAIN row : GoodCluster(row[i], synced', clock)
  /\ \A s : HeldBy(w, s) => \/ \E i \in DOMAIN row : s \in ToSet(row[i].samples)
                            \/ s \in lost'
  /\ NotTakenBack(w, row)

LEMMA SyncedRow ==
  ASSUME IInv, NEW w \in Writers, SyncPatterns(w)
  PROVE  /\ \E row : Synchronised(w, row) /\ clusters' = [clusters EXCEPT ![w] = row]
         /\ synced \subseteq synced' /\ lost \subseteq lost'
<1> USE DEF IInv
<1>1. PICK old \in Seq(Cluster) : old = clusters[w]
  BY DEF Types
<1>2. PICK n \in Nat : DOMAIN old = 1..n /\ Len(old) = n
  OBVIOUS
<1>3. PICK P \in GetPatterns(sync[w].wanted) :
        \E kept \in {clusters[w]} \cup
                      (IF Unknown(w, P) = {} THEN {}
                       ELSE {SubSeq(clusters[w], 1, sync[w].found - 1)}) :
        \E new \in SetToSeqs(Unknown(w, P)) :
          /\ clusters' = [clusters EXCEPT ![w] =
               [i \in DOMAIN kept |-> SyncCluster(kept[i], P)]
                 \o [i \in DOMAIN new |-> LoadLogCluster(new[i])]]
          /\ synced' = synced \cup ({c.pid : c \in ToSet(kept)} \cap {r.pid : r \in P})
          /\ lost' = lost \cup UNION {ToSet(c.samples) : c \in ToSet(clusters[w]) \ ToSet(kept)}
  BY Zenon DEF SyncPatterns
<1>4. PICK kept \in {clusters[w]} \cup
                      (IF Unknown(w, P) = {} THEN {}
                       ELSE {SubSeq(clusters[w], 1, sync[w].found - 1)}) :
        \E new \in SetToSeqs(Unknown(w, P)) :
          /\ clusters' = [clusters EXCEPT ![w] =
               [i \in DOMAIN kept |-> SyncCluster(kept[i], P)]
                 \o [i \in DOMAIN new |-> LoadLogCluster(new[i])]]
          /\ synced' = synced \cup ({c.pid : c \in ToSet(kept)} \cap {r.pid : r \in P})
          /\ lost' = lost \cup UNION {ToSet(c.samples) : c \in ToSet(clusters[w]) \ ToSet(kept)}
  BY <1>3, Zenon
<1>5. PICK new \in SetToSeqs(Unknown(w, P)) :
        /\ clusters' = [clusters EXCEPT ![w] =
             [i \in DOMAIN kept |-> SyncCluster(kept[i], P)]
               \o [i \in DOMAIN new |-> LoadLogCluster(new[i])]]
        /\ synced' = synced \cup ({c.pid : c \in ToSet(kept)} \cap {r.pid : r \in P})
        /\ lost' = lost \cup UNION {ToSet(c.samples) : c \in ToSet(clusters[w]) \ ToSet(kept)}
  BY <1>4, Zenon
<1>6. /\ P \subseteq table /\ IsFiniteSet(P)
      /\ \A r \in P : /\ r.pid \in sync[w].wanted /\ r.iter \in Nat
                      /\ GoodRow(r, synced, clock)
                      /\ \A q \in table : q.pid = r.pid => q.iter <= r.iter
      /\ \A r, q \in P : r.pid = q.pid => r = q
  BY GetPatternsFacts
<1>7. PICK U : U = Unknown(w, P)
  OBVIOUS
<1>8. IsFiniteSet(U) /\ U \subseteq P /\ \A r \in U, i \in 1..n : old[i].pid # r.pid
  <2>1. U \in SUBSET P /\ \A r \in U, i \in 1..n : old[i].pid # r.pid
    BY <1>1, <1>2, <1>7 DEF Unknown
  <2> QED BY <1>6, <2>1, FS_Subset
<1>9. new \in Seq(U) /\ \A i, j \in DOMAIN new : new[i] = new[j] => i = j
  BY <1>7, <1>8, Enumerates
<1>10. PICK m \in Nat : DOMAIN new = 1..m
  BY <1>9
<1>11. Syncing(w) /\ Knows(w)
  BY DEF SyncPatterns, SyncKnows
<1>12. PICK k \in 0..n : DOMAIN kept = 1..k /\ \A i \in 1..k : kept[i] = old[i]
  <2>1. CASE kept = old
    BY <1>2, <2>1
  <2>2. CASE kept = SubSeq(old, 1, sync[w].found - 1)
    <3>1. PICK h : h = sync[w].found - 1
      OBVIOUS
    <3>2. h \in 0..n
      <4>1. sync[w].found \in Nat /\ sync[w].found # 0 /\ h <= Len(clusters[w])
        BY <1>11, <3>1 DEF Knows, Syncing, Types
      <4> QED BY <1>1, <1>2, <3>1, <4>1
    <3>3. kept = [i \in 1..h |-> old[i]]
      BY <1>2, <2>2, <3>1, <3>2
    <3> QED BY <3>2, <3>3
  <2> QED BY <1>1, <1>4, <2>1, <2>2
<1>13. clock \in Nat /\ synced \subseteq synced' /\ lost \subseteq lost'
  BY <1>5 DEF Types
<1>14. DistinctPids(old) /\ \A i \in 1..n : GoodCluster(old[i], synced, clock) /\ old[i] \in Cluster
  BY <1>1, <1>2 DEF PatternsAreGood
<1>15. PICK lft : lft = [i \in 1..k |-> SyncCluster(old[i], P)]
  OBVIOUS
<1>16. PICK rgt : rgt = [i \in 1..m |-> LoadLogCluster(new[i])]
  OBVIOUS
<1>17. PICK row : row = lft \o rgt
  OBVIOUS
<1>18. clusters' = [clusters EXCEPT ![w] = row]
  <2>1. [i \in DOMAIN kept |-> SyncCluster(kept[i], P)] = lft
    BY <1>12, <1>15
  <2>2. [i \in DOMAIN new |-> LoadLogCluster(new[i])] = rgt
    BY <1>10, <1>16
  <2> QED BY <1>5, <1>17, <2>1, <2>2
<1>19. ASSUME NEW i \in 1..k
       PROVE  /\ GoodCluster(lft[i], synced', clock) /\ lft[i] \in Cluster
              /\ lft[i].pid = old[i].pid /\ lft[i].samples = old[i].samples
              /\ \/ lft[i].iter = old[i].iter
                 \/ \E r \in P : r.pid = old[i].pid /\ lft[i].iter = r.iter
  <2>1. PICK c : c = old[i]
    OBVIOUS
  <2>2. GoodCluster(c, synced, clock) /\ lft[i] = SyncCluster(c, P)
    BY <1>12, <1>14, <1>15, <2>1
  <2>3. c.pid \in {x.pid : x \in ToSet(kept)}
    <3>1. c \in ToSet(kept)
      BY <1>12, <2>1 DEF ToSet
    <3> QED BY <3>1
  <2>4. \A r \in P : r.pid = c.pid => c.pid \in synced'
    BY <1>5, <2>3
  <2>5. PICK d : d = SyncCluster(c, P)
    OBVIOUS
  <2>6. /\ GoodCluster(d, synced', clock) /\ d.pid = c.pid /\ d.samples = c.samples
        /\ \/ d.iter = c.iter
           \/ \E r \in P : r.pid = c.pid /\ d.iter = r.iter
    <3>1. PICK S, T : S = synced /\ T = synced'
      OBVIOUS
    <3>2. S \subseteq T /\ \A r \in P : GoodRow(r, S, clock)
      BY <1>6, <1>13, <3>1
    <3>3. GoodCluster(c, S, clock) /\ \A r \in P : r.pid = c.pid => c.pid \in T
      BY <2>2, <2>4, <3>1
    <3>4. LET e == SyncCluster(c, P)
          IN  /\ GoodCluster(e, T, clock) /\ e.pid = c.pid /\ e.samples = c.samples
              /\ \/ e.iter = c.iter
                 \/ \E r \in P : r.pid = c.pid /\ e.iter = r.iter
      BY <1>13, <3>2, <3>3, SyncClusterGood
    <3> QED BY <2>5, <3>1, <3>4
  <2>7. d \in Cluster
    BY <2>6 DEF GoodCluster
  <2> QED BY <2>1, <2>2, <2>5, <2>6, <2>7
<1>20. ASSUME NEW i \in 1..m
       PROVE  /\ GoodCluster(rgt[i], synced', clock) /\ rgt[i] \in Cluster
              /\ rgt[i].pid = new[i].pid /\ new[i] \in U
  <2>1. new[i] \in U /\ GoodRow(new[i], synced, clock) /\ rgt[i] = LoadLogCluster(new[i])
    BY <1>6, <1>8, <1>9, <1>10, <1>16
  <2>2. GoodCluster(rgt[i], synced', clock) /\ rgt[i].pid = new[i].pid
    BY <1>13, <2>1, LoadLogClusterGood
  <2> QED BY <2>1, <2>2 DEF GoodCluster
<1>21. /\ row \in Seq(Cluster) /\ DOMAIN row = 1..(k + m)
       /\ \A i \in 1..k : row[i] = lft[i]
       /\ \A i \in 1..m : row[k + i] = rgt[i]
  <2>1. lft \in Seq(Cluster) /\ Len(lft) = k
    BY <1>15, <1>19
  <2>2. rgt \in Seq(Cluster) /\ Len(rgt) = m
    BY <1>16, <1>20
  <2> QED BY <1>17, <2>1, <2>2
<1>22. ASSUME NEW i \in 1..(k + m), i \notin 1..k
       PROVE  \E j \in 1..m : i = k + j /\ row[i] = rgt[j]
  <2>1. PICK j : j = i - k
    OBVIOUS
  <2>2. j \in 1..m /\ i = k + j
    BY <1>22, <2>1
  <2> QED BY <1>21, <2>2
<1>23. ASSUME NEW i \in DOMAIN row PROVE GoodCluster(row[i], synced', clock)
  <2>1. CASE i \in 1..k
    BY <1>19, <1>21, <2>1
  <2>2. CASE i \notin 1..k
    <3>1. PICK j \in 1..m : row[i] = rgt[j]
      BY <1>21, <1>22, <2>2
    <3> QED BY <1>20, <3>1
  <2> QED BY <2>1, <2>2
<1>24. DistinctPids(row)
  <2>1. ASSUME NEW i \in 1..k, NEW j \in 1..k, lft[i].pid = lft[j].pid PROVE i = j
    BY <1>2, <1>12, <1>14, <1>19, <2>1 DEF DistinctPids
  <2>2. ASSUME NEW i \in 1..k, NEW j \in 1..m PROVE lft[i].pid # rgt[j].pid
    <3>1. lft[i].pid = old[i].pid /\ i \in 1..n
      BY <1>12, <1>19
    <3>2. rgt[j].pid = new[j].pid /\ new[j] \in U
      BY <1>20
    <3> QED BY <1>8, <3>1, <3>2
  <2>3. ASSUME NEW i \in 1..m, NEW j \in 1..m, rgt[i].pid = rgt[j].pid PROVE i = j
    <3>1. new[i] \in P /\ new[j] \in P /\ new[i].pid = new[j].pid
      BY <1>8, <1>20, <2>3
    <3> QED BY <1>6, <1>9, <1>10, <3>1
  <2> SUFFICES ASSUME NEW i \in 1..(k + m), NEW j \in 1..(k + m), row[i].pid = row[j].pid
               PROVE  i = j
    BY <1>21 DEF DistinctPids
  <2>4. CASE i \in 1..k /\ j \in 1..k
    BY <1>21, <2>1, <2>4
  <2>5. CASE i \in 1..k /\ j \notin 1..k
    <3>1. PICK b \in 1..m : row[j] = rgt[b]
      BY <1>22, <2>5
    <3>2. row[i] = lft[i]
      BY <1>21, <2>5
    <3> QED BY <2>2, <2>5, <3>1, <3>2
  <2>6. CASE i \notin 1..k /\ j \in 1..k
    <3>1. PICK a \in 1..m : row[i] = rgt[a]
      BY <1>22, <2>6
    <3>2. row[j] = lft[j]
      BY <1>21, <2>6
    <3> QED BY <2>2, <2>6, <3>1, <3>2
  <2>7. CASE i \notin 1..k /\ j \notin 1..k
    <3>1. PICK a \in 1..m : i = k + a /\ row[i] = rgt[a]
      BY <1>22, <2>7
    <3>2. PICK b \in 1..m : j = k + b /\ row[j] = rgt[b]
      BY <1>22, <2>7
    <3>3. a = b
      BY <2>3, <3>1, <3>2
    <3> QED BY <3>1, <3>2, <3>3
  <2> QED BY <2>4, <2>5, <2>6, <2>7
<1>25. ASSUME NEW s, HeldBy(w, s)
       PROVE  (\E i \in DOMAIN row : s \in ToSet(row[i].samples)) \/ s \in lost'
  <2>1. PICK i \in 1..n : s \in ToSet(old[i].samples)
    BY <1>1, <1>2, <1>25 DEF HeldBy
  <2>2. CASE old[i] \in ToSet(kept)
    <3>1. PICK j \in 1..k : old[i] = old[j]
      BY <1>12, <2>2 DEF ToSet
    <3>2. s \in ToSet(row[j].samples) /\ j \in DOMAIN row
      BY <1>19, <1>21, <2>1, <3>1
    <3> QED BY <3>2
  <2>3. CASE old[i] \notin ToSet(kept)
    <3>1. old[i] \in ToSet(clusters[w])
      BY <1>1, <1>2 DEF ToSet
    <3> QED BY <1>5, <2>1, <2>3, <3>1
  <2> QED BY <2>2, <2>3
<1>26. NotTakenBack(w, row)
  <2> SUFFICES ASSUME NEW i \in 1..n, i \in 1..(k + m), row[i].pid = old[i].pid
               PROVE  \/ row[i].iter >= old[i].iter
                      \/ old[i].iter > sync[w].since
    BY <1>1, <1>2, <1>11, <1>21 DEF NotTakenBack
  <2>1. i \in 1..k
    <3> SUFFICES ASSUME i \notin 1..k PROVE FALSE
      OBVIOUS
    <3>1. PICK j \in 1..m : row[i] = rgt[j]
      BY <1>22
    <3>2. rgt[j].pid = new[j].pid /\ new[j] \in U
      BY <1>20
    <3> QED BY <1>8, <3>1, <3>2
  <2>2. old[i].iter \in Nat
    BY <1>14 DEF Cluster
  <2>3. CASE row[i].iter = old[i].iter
    BY <2>2, <2>3
  <2>4. ASSUME NEW r \in P, r.pid = old[i].pid, row[i].iter = r.iter
        PROVE  \/ row[i].iter >= old[i].iter
               \/ old[i].iter > sync[w].since
    <3>1. CASE old[i].iter > sync[w].since
      BY <3>1
    <3>2. CASE \E q \in table : q.pid = old[i].pid /\ q.iter > old[i].iter
      <4>1. PICK q \in table : q.pid = old[i].pid /\ q.iter > old[i].iter
        BY <3>2
      <4>2. q.iter <= r.iter /\ r.iter \in Nat
        BY <1>6, <2>4, <4>1
      <4>3. q.iter \in Nat
        BY DEF PatternsAreGood, GoodRow, TableRow
      <4> QED BY <2>2, <2>4, <4>1, <4>2, <4>3
    <3> QED BY <1>1, <1>2, <1>6, <1>11, <2>4, <3>1, <3>2 DEF Knows
  <2> QED BY <1>19, <1>21, <2>1, <2>3, <2>4
<1>27. Synchronised(w, row)
  BY <1>21, <1>23, <1>24, <1>25, <1>26 DEF Synchronised
<1> QED BY <1>13, <1>18, <1>27

LEMMA SyncPatternsIInv ==
  ASSUME IInv, NEW w \in Writers, SyncPatterns(w)
  PROVE  IInv'
<1> USE DEF IInv
<1>1. /\ sync' = [sync EXCEPT ![w] = NotSyncing]
      /\ UNCHANGED <<rowGen, adder, table, clock, settled>> /\ Syncing(w)
  BY DEF SyncPatterns
<1>2. PICK row : Synchronised(w, row) /\ clusters' = [clusters EXCEPT ![w] = row]
  BY SyncedRow
<1>3. synced \subseteq synced' /\ lost \subseteq lost'
  BY SyncedRow
<1>4. clock \in Nat /\ clock' \in Nat /\ clock <= clock' /\ table' \ table = {}
      /\ table \subseteq table'
  BY <1>1 DEF Types
<1>5. /\ PatternsAreGood' /\ clusters' \in [Writers -> Seq(Cluster)]
      /\ clusters'[w] = row
      /\ \A u \in Writers : u # w => clusters'[u] = clusters[u]
  <2>1. row \in Seq(Cluster) /\ DistinctPids(row)
    BY <1>2 DEF Synchronised
  <2>2. \A i \in DOMAIN row : GoodCluster(row[i], synced', clock')
    BY <1>1, <1>2 DEF Synchronised
  <2> QED BY <1>2, <1>3, <1>4, <2>1, <2>2, PatternsStay
<1>6. /\ sync' \in [Writers -> [found : Nat, wanted : SUBSET Lines, since : Nat]]
      /\ ~Syncing(w)' /\ \A u \in Writers : u # w => sync'[u] = sync[u]
  BY <1>1 DEF Types, NotSyncing, Syncing
<1>7. Types'
  BY <1>1, <1>5, <1>6 DEF Types
<1>8. ReadersSee'
  <2> SUFFICES ASSUME NEW b \in Adders, adder'[b].pc = "sample" PROVE Sees(b)'
    BY DEF ReadersSee
  <2>1. Sees(b) /\ WriterOf[b] \in Writers /\ adder'[b] = adder[b]
    BY <1>1, PatternAssumption DEF ReadersSee
  <2>2. WriterOf[b] # w
    BY <1>1, <2>1 DEF Sees
  <2> QED BY <1>3, <1>5, <1>6, <2>1, <2>2, SeesStays
<1>9. SyncKnows'
  <2> SUFFICES ASSUME NEW u \in Writers, Syncing(u)' PROVE Knows(u)'
    BY DEF SyncKnows
  <2>1. u # w
    BY <1>6
  <2>2. Knows(u) /\ sync'[u] = sync[u] /\ clusters'[u] = clusters[u]
    BY <1>5, <1>6, <2>1 DEF SyncKnows, Syncing
  <2>3. Len(clusters[u]) \in Nat
    BY DEF Types
  <2> QED BY <1>4, <2>2, <2>3, KnowsStays
<1>10. Accounted'
  <2> SUFFICES ASSUME NEW s \in settled
               PROVE  \/ \E u \in Writers : HeldBy(u, s)'
                      \/ \E r \in table' : s \in r.samples
                      \/ s \in lost'
    BY <1>1 DEF Accounted
  <2>1. ASSUME NEW u \in Writers, u # w, HeldBy(u, s) PROVE HeldBy(u, s)'
    BY <1>5, <2>1 DEF HeldBy
  <2>2. HeldBy(w, s) => HeldBy(w, s)' \/ s \in lost'
    BY <1>2, <1>5 DEF HeldBy, Synchronised
  <2> QED BY <1>1, <1>3, <2>1, <2>2 DEF Accounted
<1> QED BY <1>5, <1>7, <1>8, <1>9, <1>10

LEMMA SyncFailsIInv ==
  ASSUME IInv, NEW w \in Writers, SyncFails(w)
  PROVE  IInv'
<1> USE DEF IInv
<1>1. /\ sync' = [sync EXCEPT ![w] = NotSyncing] /\ Syncing(w)
      /\ UNCHANGED <<clusters, rowGen, adder, table, clock, settled, lost, synced>>
  BY DEF SyncFails
<1>2. /\ sync' \in [Writers -> [found : Nat, wanted : SUBSET Lines, since : Nat]]
      /\ ~Syncing(w)' /\ \A u \in Writers : u # w => sync'[u] = sync[u]
  BY <1>1 DEF Types, NotSyncing, Syncing
<1>3. Types' /\ PatternsAreGood' /\ Accounted'
  BY <1>1, <1>2 DEF Types, PatternsAreGood, Accounted, HeldBy
<1>4. ReadersSee'
  <2> SUFFICES ASSUME NEW b \in Adders, adder'[b].pc = "sample" PROVE Sees(b)'
    BY DEF ReadersSee
  <2>1. Sees(b) /\ WriterOf[b] \in Writers /\ adder'[b] = adder[b]
    BY <1>1, PatternAssumption DEF ReadersSee
  <2>2. WriterOf[b] # w
    BY <1>1, <2>1 DEF Sees
  <2> QED BY <1>1, <1>2, <2>1, <2>2, SeesStays
<1>5. SyncKnows'
  <2> SUFFICES ASSUME NEW u \in Writers, Syncing(u)' PROVE Knows(u)'
    BY DEF SyncKnows
  <2>1. u # w /\ sync'[u] = sync[u] /\ Knows(u)
    BY <1>2 DEF SyncKnows, Syncing
  <2> QED BY <1>1, <2>1 DEF Knows
<1> QED BY <1>3, <1>4, <1>5

LEMMA StutterIInv ==
  ASSUME IInv, UNCHANGED patternVars
  PROVE  IInv'
<1> USE DEF patternVars
<1>1. Types' /\ PatternsAreGood' /\ Accounted'
  BY DEF IInv, Types, PatternsAreGood, Accounted, HeldBy
<1>2. ReadersSee'
  BY PatternAssumption, SeesStays DEF IInv, ReadersSee
<1>3. SyncKnows'
  BY DEF IInv, SyncKnows, Knows, Syncing
<1> QED BY <1>1, <1>2, <1>3 DEF IInv

LEMMA NextIInv ==
  ASSUME IInv, [PatternNext]_patternVars
  PROVE  IInv'
<1>1. CASE UNCHANGED patternVars
  BY <1>1, StutterIInv
<1>2. ASSUME NEW a \in Adders, FindRow(a) PROVE IInv'
  BY <1>2, FindRowIInv
<1>3. ASSUME NEW a \in Adders, CheckMatch(a) PROVE IInv'
  BY <1>3, CheckMatchIInv
<1>4. ASSUME NEW a \in Adders, AddSample(a) PROVE IInv'
  BY <1>4, AddSampleIInv
<1>5. ASSUME NEW a \in Adders, AddToRow(a) PROVE IInv'
  BY <1>5, AddToRowIInv
<1>6. ASSUME NEW w \in Writers, Flush(w) PROVE IInv'
  BY <1>6, FlushIInv
<1>7. ASSUME NEW w \in Writers, FiveMinutesPass(w) PROVE IInv'
  BY <1>7, FiveMinutesPassIInv
<1>8. ASSUME NEW w \in Writers, Cleanup(w) PROVE IInv'
  BY <1>8, CleanupIInv
<1>9. ASSUME NEW w \in Writers, SyncBegins(w) PROVE IInv'
  BY <1>9, SyncBeginsIInv
<1>10. ASSUME NEW w \in Writers, SyncPatterns(w) PROVE IInv'
  BY <1>10, SyncPatternsIInv
<1>11. ASSUME NEW w \in Writers, SyncFails(w) PROVE IInv'
  BY <1>11, SyncFailsIInv
<1> QED BY <1>1, <1>2, <1>3, <1>4, <1>5, <1>6, <1>7, <1>8, <1>9, <1>10, <1>11
        DEF PatternNext

(* The clusterer (pattern.go) keeps its inductive invariant. *)
THEOREM InvariantHolds == PatternSpec => []IInv
<1> QED BY InitIInv, NextIInv, PTL DEF PatternSpec
-----------------------------------------------------------------------------
LEMMA IInvAccounts == IInv => PatternsAccountForLines
<1> SUFFICES ASSUME IInv PROVE PatternsAccountForLines
  OBVIOUS
<1> USE DEF IInv
<1>1. LostLinesHaveCulprit
  <2> SUFFICES ASSUME NEW s \in settled, s \notin lost PROVE s \in Held \/ s \in Stored
    BY DEF LostLinesHaveCulprit
  <2>1. CASE \E r \in table : s \in r.samples
    BY <2>1 DEF Stored
  <2>2. CASE \E w \in Writers : HeldBy(w, s)
    <3>1. PICK w \in Writers : HeldBy(w, s)
      BY <2>2
    <3>2. PICK i \in DOMAIN clusters[w] : s \in ToSet(clusters[w][i].samples)
      BY <3>1 DEF HeldBy
    <3>3. clusters[w][i] \in ToSet(clusters[w])
      BY DEF ToSet
    <3>4. s \in UNION {ToSet(c.samples) : c \in ToSet(clusters[w])}
      BY <3>2, <3>3
    <3> QED BY <3>4 DEF Held
  <2> QED BY <2>1, <2>2 DEF Accounted
<1>2. CountedLinesMatch
  BY DEF CountedLinesMatch, PatternsAreGood, GoodRow, GoodPattern
<1>3. SimilarityKept
  <2> SUFFICES ASSUME NEW w \in Writers, NEW c \in ToSet(clusters[w]), c.pid \notin synced
               PROVE  GenCount(c.tokens) <= Budget
    BY DEF SimilarityKept, GenCount
  <2>1. PICK i \in DOMAIN clusters[w] : c = clusters[w][i]
    BY DEF ToSet
  <2>2. GoodCluster(c, synced, clock)
    BY <2>1 DEF PatternsAreGood
  <2>3. c.tokens \in Seq(TokenSet) /\ c.cost \in Nat
    BY <2>2 DEF GoodCluster, Cluster
  <2>4. GenCount(c.tokens) <= c.cost /\ c.cost <= Budget
    BY <2>2 DEF GoodCluster, GoodPattern
  <2>5. GenCount(c.tokens) \in Nat
    BY <2>3, GenCountFacts
  <2>6. Budget \in Nat
    BY PatternAssumption
  <2> QED BY <2>3, <2>4, <2>5, <2>6
<1> QED BY <1>1, <1>2, <1>3 DEF PatternsAccountForLines

(* pattern.go: a line that was added is counted by a pattern that matches  *)
(* it and is as similar as configured, or one of the known races lost it.  *)
THEOREM PatternsAccount == PatternSpec => []PatternsAccountForLines
<1> QED BY InvariantHolds, IInvAccounts, PTL
-----------------------------------------------------------------------------
(* What a step that is no synchronisation does to the iterations. *)
LEMMA NoneTakenBack ==
  ASSUME IInv,
         \A w \in Writers : \A i \in DOMAIN clusters[w] :
           (i \in DOMAIN clusters'[w] /\ clusters'[w][i].pid = clusters[w][i].pid)
             => \/ clusters'[w][i].iter = clusters[w][i].iter
                \/ clusters'[w][i].iter = clock + 1
  PROVE  IterationsOnlyGrow
<1>1. ASSUME NEW w \in Writers, NEW i \in DOMAIN clusters[w]
      PROVE  clusters[w][i].iter \in Nat /\ clusters[w][i].iter <= clock /\ clock \in Nat
  BY DEF IInv, Types, PatternsAreGood, GoodCluster, GoodPattern, Cluster
<1> QED BY <1>1 DEF IterationsOnlyGrow

LEMMA StepTakesNoneBack ==
  ASSUME IInv, [PatternNext]_patternVars
  PROVE  [IterationsOnlyGrow]_patternVars
<1> USE DEF IInv
<1>0. clusters \in [Writers -> Seq(Cluster)]
  BY DEF Types
<1>1. CASE UNCHANGED patternVars
  BY <1>1
<1>2. CASE UNCHANGED clusters
  BY <1>2, NoneTakenBack
<1>3. ASSUME NEW a \in Adders, AddSample(a) PROVE IterationsOnlyGrow
  <2>1. PICK w \in Writers : w = WriterOf[a]
    BY PatternAssumption
  <2>2. clusters' = [clusters EXCEPT ![w] =
          [i \in DOMAIN clusters[w] |->
             IF i \in DOMAIN adder[a].saw
             THEN [clusters[w][i] EXCEPT !.samples = Append(adder[a].saw[i], Sample(a))]
             ELSE clusters[w][i]]]
    BY <1>3, <2>1 DEF AddSample
  <2>3. \A i \in DOMAIN clusters[w] : clusters'[w][i].iter = clusters[w][i].iter
    <3> SUFFICES ASSUME NEW i \in DOMAIN clusters[w]
                 PROVE  clusters'[w][i].iter = clusters[w][i].iter
      OBVIOUS
    <3>1. PICK c \in Cluster : c = clusters[w][i]
      BY <1>0
    <3>2. clusters'[w][i] = c \/ clusters'[w][i] = [c EXCEPT !.samples = Append(adder[a].saw[i], Sample(a))]
      BY <1>0, <2>2, <3>1
    <3> QED BY <3>1, <3>2 DEF Cluster
  <2>4. \A u \in Writers : u # w => clusters'[u] = clusters[u]
    BY <1>0, <2>2
  <2> QED BY <2>3, <2>4, NoneTakenBack
<1>4. ASSUME NEW a \in Adders, AddToRow(a) PROVE IterationsOnlyGrow
  <2>1. PICK w \in Writers : w = WriterOf[a]
    BY PatternAssumption
  <2>2. CASE adder[a].row # rowGen[w]
    <3>1. clusters' = clusters
      BY <1>4, <2>1, <2>2 DEF AddToRow
    <3> QED BY <3>1, NoneTakenBack
  <2>3. CASE adder[a].row = rowGen[w]
    <3>1. PICK new : TookLine(clusters[w], new, Sample(a)) /\ clusters' = [clusters EXCEPT ![w] = new]
      BY <1>4, <2>1, <2>3, AddedRow
    <3>2. clusters'[w] = new /\ \A u \in Writers : u # w => clusters'[u] = clusters[u]
      BY <1>0, <3>1
    <3>3. \A i \in DOMAIN new : \/ new[i].iter = clock + 1
                                \/ new[i].iter = clusters[w][i].iter
      BY <3>1 DEF TookLine
    <3> QED BY <3>2, <3>3, NoneTakenBack
  <2> QED BY <2>2, <2>3
<1>5. ASSUME NEW w \in Writers, Flush(w) PROVE IterationsOnlyGrow
  <2>1. clusters' = [clusters EXCEPT ![w] =
          [i \in DOMAIN clusters[w] |->
             IF Flushed(clusters[w][i])
             THEN [clusters[w][i] EXCEPT !.samples = <<>>, !.idle = FALSE]
             ELSE clusters[w][i]]]
    BY <1>5 DEF Flush
  <2>2. \A i \in DOMAIN clusters[w] : clusters'[w][i].iter = clusters[w][i].iter
    <3> SUFFICES ASSUME NEW i \in DOMAIN clusters[w]
                 PROVE  clusters'[w][i].iter = clusters[w][i].iter
      OBVIOUS
    <3>1. PICK c \in Cluster : c = clusters[w][i]
      BY <1>0
    <3>2. clusters'[w][i] = c \/ clusters'[w][i] = [c EXCEPT !.samples = <<>>, !.idle = FALSE]
      BY <1>0, <2>1, <3>1
    <3> QED BY <3>1, <3>2 DEF Cluster
  <2>3. \A u \in Writers : u # w => clusters'[u] = clusters[u]
    BY <1>0, <2>1
  <2> QED BY <2>2, <2>3, NoneTakenBack
<1>6. ASSUME NEW w \in Writers, FiveMinutesPass(w) PROVE IterationsOnlyGrow
  <2>1. clusters' = [clusters EXCEPT ![w] =
          [i \in DOMAIN clusters[w] |-> [clusters[w][i] EXCEPT !.idle = TRUE]]]
    BY <1>6 DEF FiveMinutesPass
  <2>2. \A i \in DOMAIN clusters[w] : clusters'[w][i].iter = clusters[w][i].iter
    <3> SUFFICES ASSUME NEW i \in DOMAIN clusters[w]
                 PROVE  clusters'[w][i].iter = clusters[w][i].iter
      OBVIOUS
    <3>1. PICK c \in Cluster : c = clusters[w][i]
      BY <1>0
    <3>2. clusters'[w][i] = [c EXCEPT !.idle = TRUE]
      BY <1>0, <2>1, <3>1
    <3> QED BY <3>1, <3>2 DEF Cluster
  <2>3. \A u \in Writers : u # w => clusters'[u] = clusters[u]
    BY <1>0, <2>1
  <2> QED BY <2>2, <2>3, NoneTakenBack
<1>7. ASSUME NEW w \in Writers, Cleanup(w) PROVE IterationsOnlyGrow
  <2> DEFINE D == DOMAIN clusters[w] \ {i \in DOMAIN clusters[w] : clusters[w][i].idle}
  <2>1. PICK kept \in At(clusters[w], D) : clusters' = [clusters EXCEPT ![w] = kept]
    BY <1>7 DEF Cleanup
  <2>2. PICK f \in SetToSeqs(D) : kept = [j \in DOMAIN f |-> clusters[w][f[j]]]
    BY DEF At
  <2>3. \A j \in DOMAIN f : f[j] \in D
    BY DEF SetToSeqs
  <2>4. clusters'[w] = kept /\ \A u \in Writers : u # w => clusters'[u] = clusters[u]
    BY <1>0, <2>1
  <2>5. ASSUME NEW i \in DOMAIN clusters[w], i \in DOMAIN kept,
               kept[i].pid = clusters[w][i].pid
        PROVE  kept[i] = clusters[w][i]
    <3>1. f[i] \in DOMAIN clusters[w] /\ kept[i] = clusters[w][f[i]]
      BY <2>2, <2>3, <2>5
    <3>2. f[i] = i
      BY <2>5, <3>1 DEF PatternsAreGood, DistinctPids
    <3> QED BY <3>1, <3>2
  <2> QED BY <2>4, <2>5, NoneTakenBack
<1>8. ASSUME NEW w \in Writers, SyncPatterns(w) PROVE IterationsOnlyGrow
  <2>1. PICK row : Synchronised(w, row) /\ clusters' = [clusters EXCEPT ![w] = row]
    BY <1>8, SyncedRow
  <2>2. clusters'[w] = row /\ \A u \in Writers : u # w => clusters'[u] = clusters[u]
    BY <1>0, <2>1
  <2>3. ASSUME NEW u \in Writers, NEW i \in DOMAIN clusters[u] PROVE clusters[u][i].iter \in Nat
    BY DEF PatternsAreGood, GoodCluster, Cluster
  <2> QED BY <2>1, <2>2, <2>3 DEF Synchronised, NotTakenBack, IterationsOnlyGrow
<1> QED
  <2>1. ASSUME NEW a \in Adders, FindRow(a) \/ CheckMatch(a) PROVE UNCHANGED clusters
    BY <2>1 DEF FindRow, CheckMatch
  <2>2. ASSUME NEW w \in Writers, SyncBegins(w) \/ SyncFails(w) PROVE UNCHANGED clusters
    BY <2>2 DEF SyncBegins, SyncFails
  <2> QED BY <1>1, <1>2, <1>3, <1>4, <1>5, <1>6, <1>7, <1>8, <2>1, <2>2 DEF PatternNext

(* SyncPatterns never takes a cluster back to an earlier iteration, but    *)
(* for one that a line has changed while it was at its queries.            *)
THEOREM IterationsNeverBack == PatternSpec => IterationsGrow
<1>1. IInv /\ [PatternNext]_patternVars => [IterationsOnlyGrow]_patternVars
  BY StepTakesNoneBack
<1> QED BY <1>1, InvariantHolds, PTL DEF PatternSpec, IterationsGrow
=============================================================================
