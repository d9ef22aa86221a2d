---------------------------- MODULE PatternStore ----------------------------
(***************************************************************************)
(* Log pattern clustering (writer/pattern): goroutines of push requests    *)
(* add lines to clusters while the routines of the controller flush them   *)
(* to the table patterns, drop idle clusters and synchronise with the      *)
(* clusters other writers have flushed.                                    *)
(*                                                                         *)
(* The lines of the model have one cluster id (token count and first       *)
(* valuable token), hence one row of clusters per writer.  A line is its   *)
(* tokens, no token occurs twice in it, and every token costs one.         *)
(***************************************************************************)
EXTENDS Naturals, Sequences, SequencesExt, FiniteSets, FiniteSetsExt

CONSTANTS Writers,
          Adders,      \* goroutines of ClusterLines
          WriterOf,    \* [Adders -> Writers]
          LinesOf,     \* [Adders -> the lines it adds, a sequence]
          Budget,      \* OverallCost * (1 - LogPatternsSimilarity)
          FlushMin,    \* samples below which a cluster is not flushed, 10 in the code
          MaxRounds,   \* bound on the flushes, cleanups and syncs of a writer
          Gen          \* the generalized token

Lines == UNION {ToSet(LinesOf[a]) : a \in Adders}

ASSUME PatternAssumption ==
  /\ WriterOf \in [Adders -> Writers]
  /\ Budget \in Nat /\ FlushMin \in Nat \ {0} /\ MaxRounds \in Nat
  /\ \A a \in Adders : LinesOf[a] \in Seq(Lines)
  /\ \A l \in Lines : l \in Seq(ToSet(l)) /\ Gen \notin ToSet(l)
  /\ \A l, m \in Lines : Len(l) = Len(m)

VARIABLES clusters,  \* [writer -> its row: a sequence of clusters]
          rowGen,    \* [writer -> how often Cleanup has deleted the row]
          adder,     \* [adder -> where Add is, and what it holds]
          table,     \* rows of the table patterns
          clock,     \* source of the iteration ids
          rounds,    \* [writer -> routine calls left]
          sync,      \* [writer -> what its SyncPatterns found: 1 + the clusters,
                     \* or 0 when it does not run, the patterns, and when]
          settled,   \* lines Add has returned for
          lost,      \* lines whose sample a race, a deleted row or a cleanup lost
          synced     \* founding lines of clusters whose tokens Sync replaced

patternVars == <<clusters, rowGen, adder, table, clock, rounds, sync, settled, lost, synced>>

NotSyncing == [found |-> 0, wanted |-> {}, since |-> 0]
Syncing(w) == sync[w].found # 0

Idle == [pc |-> "idle", next |-> 1, row |-> 0, saw |-> <<>>]

PatternInit ==
  /\ clusters = [w \in Writers |-> <<>>]
  /\ rowGen = [w \in Writers |-> 0]
  /\ adder = [a \in Adders |-> Idle]
  /\ table = {} /\ clock = 0
  /\ rounds = [w \in Writers |-> MaxRounds]
  /\ sync = [w \in Writers |-> NotSyncing]
  /\ settled = {} /\ lost = {} /\ synced = {}

(* The sample's identity: which line of which goroutine. *)
Sample(a) == <<a, adder[a].next>>
Line(s) == LinesOf[s[1]][s[2]]

(* patternMatcherV1, for lines without repeated tokens. *)
Matches(tokens, line) == \A i \in DOMAIN line : tokens[i] \in {line[i], Gen}

NewLogCluster(a) ==
  [pid |-> Line(Sample(a)), tokens |-> Line(Sample(a)), iter |-> clock + 1,
   cost |-> 0, samples |-> <<Sample(a)>>, idle |-> FALSE]

Differing(c, line) == {i \in DOMAIN line : c.tokens[i] \notin {line[i], Gen}}

WithinBudget(c, line) == Cardinality(Differing(c, line)) + c.cost <= Budget

(* Mutant: the generalized tokens are not replaced. *)
GeneralizeCostOnly(c, line, s) ==
  [c EXCEPT !.cost = @ + Cardinality(Differing(c, line)), !.samples = Append(@, s)]

Generalize(c, line, s) ==
  LET d == Differing(c, line)
  IN  [c EXCEPT !.tokens = [i \in DOMAIN line |-> IF i \in d THEN Gen ELSE @[i]],
                !.cost = @ + Cardinality(d),
                !.iter = IF d = {} THEN @ ELSE clock + 1,
                !.samples = Append(@, s)]

(* No goroutine is inside checkMatch, which holds both read locks. *)
NoReader(w) == \A a \in Adders : WriterOf[a] = w => adder[a].pc # "sample"

(* Add has returned for the line the goroutine was at. *)
Returned(a) == [Idle EXCEPT !.next = adder[a].next + 1]

(* get, and getOrCreate for a row that is not there: the goroutine keeps   *)
(* the row and releases the lock.  get only reads; getOrCreate excludes    *)
(* readers, but a reader at "sample" has found a cluster of the row.       *)
FindRow(a) ==
  /\ adder[a].pc = "idle" /\ adder[a].next <= Len(LinesOf[a])
  /\ ~Syncing(WriterOf[a])
  /\ adder' = [adder EXCEPT ![a].pc = "check", ![a].row = rowGen[WriterOf[a]]]
  /\ UNCHANGED <<clusters, rowGen, table, clock, rounds, sync, settled, lost, synced>>

(* checkMatch looks through the row that is in the map now.  addSample     *)
(* reads a cluster's samples under the read lock only.                     *)
CheckMatch(a) ==
  LET row == clusters[WriterOf[a]]
      hits == {i \in DOMAIN row : Matches(row[i].tokens, Line(Sample(a)))}
  IN  /\ adder[a].pc = "check" /\ ~Syncing(WriterOf[a])
      /\ adder' = [adder EXCEPT ![a].pc = IF hits = {} THEN "add" ELSE "sample",
                                ![a].saw = [i \in hits |-> row[i].samples]]
      /\ UNCHANGED <<clusters, rowGen, table, clock, rounds, sync, settled, lost, synced>>

(* The write of addSample: what another goroutine added meanwhile is gone. *)
AddSample(a) ==
  LET w == WriterOf[a]
      saw == adder[a].saw
      raced == UNION {ToSet(clusters[w][i].samples) \ ToSet(saw[i]) : i \in DOMAIN saw}
  IN  /\ adder[a].pc = "sample"
      /\ clusters' = [clusters EXCEPT ![w] =
           [i \in DOMAIN @ |-> IF i \in DOMAIN saw
                               THEN [@[i] EXCEPT !.samples = Append(saw[i], Sample(a))]
                               ELSE @[i]]]
      /\ lost' = lost \cup raced
      /\ settled' = settled \cup {Sample(a)}
      /\ adder' = [adder EXCEPT ![a] = Returned(a)]
      /\ UNCHANGED <<rowGen, table, clock, rounds, sync, synced>>

(* row.add: the first cluster that can take the line, or a new one.  The   *)
(* row may have been deleted since FindRow: the line is lost with it.      *)
AddToRow(a) ==
  LET w == WriterOf[a]
      row == clusters[w]
      fits == {i \in DOMAIN row : WithinBudget(row[i], Line(Sample(a)))}
  IN  /\ adder[a].pc = "add" /\ NoReader(w)
      /\ clock' = clock + 1
      /\ \/ /\ adder[a].row # rowGen[w]
            /\ lost' = lost \cup {Sample(a)}
            /\ UNCHANGED clusters
         \/ /\ adder[a].row = rowGen[w]
            /\ clusters' = [clusters EXCEPT ![w] =
                 IF fits = {} THEN Append(row, NewLogCluster(a))
                 ELSE [row EXCEPT ![Min(fits)] = Generalize(@, Line(Sample(a)), Sample(a))]]
            /\ UNCHANGED lost
      /\ settled' = settled \cup {Sample(a)}
      /\ adder' = [adder EXCEPT ![a] = Returned(a)]
      /\ UNCHANGED <<rowGen, table, rounds, sync, synced>>

(* A routine of the writer takes the clusterer's lock. *)
Round(w) ==
  /\ rounds[w] > 0 /\ NoReader(w) /\ ~Syncing(w)
  /\ rounds' = [rounds EXCEPT ![w] = @ - 1]

Flushed(c) == Len(c.samples) >= FlushMin

(* RunFlush: the samples that leave the clusters reach the table when the  *)
(* insert succeeds.                                                        *)
Flush(w) ==
  LET out == {i \in DOMAIN clusters[w] : Len(clusters[w][i].samples) >= FlushMin}
      new == {[pid |-> c.pid, tokens |-> c.tokens, iter |-> c.iter, cost |-> c.cost,
               samples |-> ToSet(c.samples)] : c \in {clusters[w][i] : i \in out}}
  IN  /\ Round(w) /\ out # {}
      /\ clusters' = [clusters EXCEPT ![w] =
           [i \in DOMAIN @ |-> IF Flushed(@[i])
                               THEN [@[i] EXCEPT !.samples = <<>>, !.idle = FALSE]
                               ELSE @[i]]]
      /\ \/ table' = table \cup new /\ UNCHANGED lost
         \/ lost' = lost \cup UNION {r.samples : r \in new} /\ UNCHANGED table
      /\ UNCHANGED <<rowGen, adder, clock, sync, settled, synced>>

(* Five minutes pass in which no cluster of the writer is flushed. *)
FiveMinutesPass(w) ==
  /\ \E i \in DOMAIN clusters[w] : ~clusters[w][i].idle
  /\ clusters' = [clusters EXCEPT ![w] = [i \in DOMAIN @ |-> [@[i] EXCEPT !.idle = TRUE]]]
  /\ UNCHANGED <<rowGen, adder, table, clock, rounds, sync, settled, lost, synced>>

(* The clusters at some positions of a row, in the order of the row. *)
At(row, positions) ==
  {[j \in DOMAIN f |-> row[f[j]]] :
     f \in {g \in SetToSeqs(positions) : \A i, j \in DOMAIN g : i < j => g[i] < g[j]}}

(* Idle clusters go, with their samples; an empty row is deleted. *)
Cleanup(w) ==
  LET idle == {i \in DOMAIN clusters[w] : clusters[w][i].idle}
  IN  /\ Round(w)
      /\ \E kept \in At(clusters[w], DOMAIN clusters[w] \ idle) :
           /\ clusters' = [clusters EXCEPT ![w] = kept]
           /\ rowGen' = [rowGen EXCEPT ![w] = IF kept = <<>> THEN @ + 1 ELSE @]
      /\ lost' = lost \cup UNION {ToSet(clusters[w][i].samples) : i \in idle}
      /\ UNCHANGED <<adder, table, clock, sync, settled, synced>>

(* The rows with the greatest iteration of their pattern. *)
Latest == {r \in table : \A q \in table : q.pid = r.pid => q.iter <= r.iter}

(* Mutant: an older pattern also replaces the local one. *)
IsNewerAlways(r, c) == r.pid = c.pid

IsNewer(r, c) == r.pid = c.pid /\ r.iter > c.iter

(* GetPatternIDs and the comparison with the clusters: the patterns that   *)
(* the writer does not have, or has in an earlier iteration.               *)
Wanted(w) ==
  {r.pid : r \in {q \in Latest : \A i \in DOMAIN clusters[w] :
                                   clusters[w][i].pid = q.pid => IsNewer(q, clusters[w][i])}}

SyncBegins(w) ==
  /\ Round(w) /\ table # {}
  /\ sync' = [sync EXCEPT ![w] = [found |-> 1 + Len(clusters[w]), wanted |-> Wanted(w),
                                  since |-> clock]]
  /\ UNCHANGED <<clusters, rowGen, adder, table, clock, settled, lost, synced>>

(* GetPatterns: one row per pattern; which of the newest ones is open. *)
GetPatterns(ids) ==
  {P \in SUBSET {r \in Latest : r.pid \in ids} :
     \A id \in ids : \E r \in P : r.pid = id /\ \A q \in P : q.pid = id => q = r}

LoadLogCluster(r) ==
  [pid |-> r.pid, tokens |-> r.tokens, iter |-> r.iter, cost |-> r.cost,
   samples |-> <<>>, idle |-> FALSE]

(* LogCluster.sync: the tokens and the iteration, not the costs. *)
SyncCluster(c, P) ==
  IF \E r \in P : r.pid = c.pid
  THEN LET r == CHOOSE q \in P : q.pid = c.pid
       IN  [c EXCEPT !.tokens = r.tokens, !.iter = r.iter]
  ELSE c

(* The patterns no cluster has by now.  One whose first token is           *)
(* generalized is loaded into a row that no line of the model looks at.    *)
Unknown(w, P) ==
  {r \in P : r.tokens[1] # Gen /\ \A i \in DOMAIN clusters[w] : clusters[w][i].pid # r.pid}

(* SyncPatterns after its queries.  A pattern that was newer then replaces *)
(* that of the cluster, whatever row.add has made of it meanwhile; unknown *)
(* patterns are appended in the order of a map.  It holds the clusterer's  *)
(* lock but not the row's: when it appends, it may overwrite the clusters  *)
(* that row.add has appended since.                                        *)
SyncPatterns(w) ==
  /\ Syncing(w)
  /\ \E P \in GetPatterns(sync[w].wanted) :
     \E kept \in {clusters[w]} \cup
                   (IF Unknown(w, P) = {} THEN {} ELSE {SubSeq(clusters[w], 1, sync[w].found - 1)}) :
     \E new \in SetToSeqs(Unknown(w, P)) :
       /\ clusters' = [clusters EXCEPT ![w] =
            [i \in DOMAIN kept |-> SyncCluster(kept[i], P)]
              \o [i \in DOMAIN new |-> LoadLogCluster(new[i])]]
       /\ synced' = synced \cup ({c.pid : c \in ToSet(kept)} \cap {r.pid : r \in P})
       /\ lost' = lost \cup UNION {ToSet(c.samples) : c \in ToSet(clusters[w]) \ ToSet(kept)}
  /\ sync' = [sync EXCEPT ![w] = NotSyncing]
  /\ UNCHANGED <<rowGen, adder, table, clock, rounds, settled>>

(* One of the queries fails: SyncPatterns returns before it has changed    *)
(* anything.                                                               *)
SyncFails(w) ==
  /\ Syncing(w)
  /\ sync' = [sync EXCEPT ![w] = NotSyncing]
  /\ UNCHANGED <<clusters, rowGen, adder, table, clock, rounds, settled, lost, synced>>

PatternNext ==
  \/ \E a \in Adders : FindRow(a) \/ CheckMatch(a) \/ AddSample(a) \/ AddToRow(a)
  \/ \E w \in Writers : Flush(w) \/ FiveMinutesPass(w) \/ Cleanup(w)
                          \/ SyncBegins(w) \/ SyncPatterns(w) \/ SyncFails(w)

PatternSpec == PatternInit /\ [][PatternNext]_patternVars

-----------------------------------------------------------------------------
Held == UNION {UNION {ToSet(c.samples) : c \in ToSet(clusters[w])} : w \in Writers}
Stored == UNION {r.samples : r \in table}

(* Every line that was added is in a cluster or in the table, unless it    *)
(* was counted while another match of the same cluster was under way, its  *)
(* row or its idle cluster was deleted, or its insert failed.  No other    *)
(* interleaving of adding, flushing, cleaning and synchronising loses it.  *)
LostLinesHaveCulprit == settled \subseteq Held \cup Stored \cup lost

(* A row of the table only counts lines that its pattern matches, as long  *)
(* as no synchronisation replaced the pattern of a cluster: generalizing a *)
(* cluster never excludes a line that was counted for it.                  *)
CountedLinesMatch ==
  \A r \in table : r.pid \notin synced => \A s \in r.samples : Matches(r.tokens, Line(s))

(* A cluster generalizes no more of its tokens than the similarity allows, *)
(* however many lines it takes, again unless Sync replaced its tokens.     *)
SimilarityKept ==
  \A w \in Writers : \A c \in ToSet(clusters[w]) :
    c.pid \notin synced => Cardinality({i \in DOMAIN c.tokens : c.tokens[i] = Gen}) <= Budget

(* Synchronising never takes a cluster back to an earlier iteration, so    *)
(* that what a writer has generalized is not undone by an older row of the *)
(* table: unless the cluster took its iteration from a line that was added *)
(* while SyncPatterns was at its queries.                                  *)
IterationsOnlyGrow ==
  \A w \in Writers : \A i \in DOMAIN clusters[w] :
    (i \in DOMAIN clusters'[w] /\ clusters'[w][i].pid = clusters[w][i].pid)
      => \/ clusters'[w][i].iter >= clusters[w][i].iter
         \/ Syncing(w) /\ clusters[w][i].iter > sync[w].since

(* SyncPatterns: no step of a writer undoes a generalization, but for that *)
(* race.                                                                   *)
IterationsGrow == [][IterationsOnlyGrow]_patternVars

(* pattern.go: a line that was added is accounted for by a pattern that    *)
(* matches it and is as similar as configured, or one of the known races   *)
(* has lost it.                                                            *)
PatternsAccountForLines ==
  /\ LostLinesHaveCulprit
  /\ CountedLinesMatch
  /\ SimilarityKept
=============================================================================
