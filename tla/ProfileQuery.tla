---------------------------- MODULE ProfileQuery ----------------------------
(***************************************************************************)
(* What the profile endpoints of the reader answer from the tables: label  *)
(* names and values, series, time series, flame graphs, differences,       *)
(* merged profiles and statistics.                                         *)
(*                                                                         *)
(* A script is a sequence of selectors [name, op, val]; a type id is the   *)
(* record [type, sample, unit, period, punit].                             *)
(***************************************************************************)
EXTENDS ProfileMerge, FlameGraph, TLC

CONSTANTS HalfHour,          \* ticks FormatFromDate takes off
          Second,            \* ticks per second
          ReMatch(_, _)      \* ReMatch(text, re)

FormatFromDate(t) == (t - HalfHour) \div Day
InDays(s, w) == FormatFromDate(w.from) <= s.date /\ s.date <= FormatFromDate(w.to)

(******************************* Selectors *********************************)
GetMatcherClause(op, text, val) ==
  CASE op = "=" -> text = val
    [] op = "!=" -> text # val
    [] op = "=~" -> ReMatch(text, val)
    [] op = "!~" -> ~ReMatch(text, val)
GlobalNames == {"__name__", "__period_type__", "__period_unit__", "__sample_type__", "__sample_unit__",
                "__profile_type__", "service_name"}
FullType(r, t) == r.type \o ":" \o t[1] \o ":" \o t[2] \o ":" \o r.period[1] \o ":" \o r.period[2]
GlobalHolds(sel, r) ==
  LET holds(text) == GetMatcherClause(sel.op, text, sel.val)
      exists(Text(_)) == \E i \in DOMAIN r.types : holds(Text(r.types[i]))
  IN  CASE sel.name = "__name__" -> holds(r.type)
        [] sel.name = "__period_type__" -> holds(r.period[1])
        [] sel.name = "__period_unit__" -> holds(r.period[2])
        [] sel.name = "__sample_type__" -> exists(LAMBDA t : t[1])
        [] sel.name = "__sample_unit__" -> exists(LAMBDA t : t[2])
        [] sel.name = "__profile_type__" -> exists(LAMBDA t : FullType(r, t))
        [] sel.name = "service_name" -> holds(r.service)
Globals(script, r) == \A i \in DOMAIN script : script[i].name \in GlobalNames => GlobalHolds(script[i], r)
KvMatchers(script) == SelectSeq(script, LAMBDA sel : sel.name \notin GlobalNames)

(* The series of the days that have a tag for every other selector.        *)
StreamSelector(db, script, w) ==
  LET kv == KvMatchers(script)
      rows == {g \in ProfilesSeriesGin(db) : InDays(g.s, w) /\ Globals(script, g.s)}
      hits(g, sel) == g.key = sel.name /\ GetMatcherClause(sel.op, g.val, sel.val)
  IN  {fp \in {g.s.fp : g \in rows} :
         \A i \in DOMAIN kv : \E g \in rows : g.s.fp = fp /\ hits(g, kv[i])}

PopulateTypeId(script, t) ==
  script \o [i \in 1 .. 5 |->
    [name |-> <<"__name__", "__period_type__", "__period_unit__", "__sample_type__", "__sample_unit__">>[i], op |-> "=",
     val |-> <<t.type, t.period, t.punit, t.sample, t.unit>>[i]]]

(**************************** Labels and series ****************************)
(* The series of any of the scripts, all without a script.                 *)
UnionAll(db, scripts, w) ==
  IF scripts = <<>> THEN {s.fp : s \in ProfilesSeries(db)}
  ELSE UNION {StreamSelector(db, scripts[i], w) : i \in DOMAIN scripts}

GenericLabels(db, scripts, w) ==
  {g \in ProfilesSeriesGin(db) : InDays(g.s, w) /\ g.s.fp \in UnionAll(db, scripts, w)}
(* No name is answered as an empty one.                                    *)
LabelNames(db, scripts, w) ==
  LET names == {g.key : g \in GenericLabels(db, scripts, w)} IN IF names = {} THEN {""} ELSE names
LabelValues(db, scripts, name, w) == {g.val : g \in {x \in GenericLabels(db, scripts, w) : x.key = name}}

(* One row for each sample type of a series.                               *)
SeriesOf(s, tags) == {[tags |-> tags, type |-> s.type, period |-> s.period, sample |-> s.types[i]] : i \in DOMAIN s.types}
TimeSeriesSelect(db, script, w) ==
  UNION {SeriesOf(s, s.tags) : s \in {x \in ProfilesSeries(db) :
           InDays(x, w) /\ x.fp \in StreamSelector(db, script, w) /\ Globals(script, x)}}
AllTimeSeriesSelect(db, w) == UNION {SeriesOf(s, s.tags) : s \in {x \in ProfilesSeries(db) : InDays(x, w)}}
FilterLabels(rows, names) ==
  {[r EXCEPT !.tags = SelectSeq(r.tags, LAMBDA t : t[1] \in names)] : r \in rows}
PlanSeries(db, scripts, names, w) ==
  LET rows == UNION {TimeSeriesSelect(db, scripts[i], w) : i \in DOMAIN scripts}
  IN  CASE \A i \in DOMAIN scripts : scripts[i] = <<>> -> AllTimeSeriesSelect(db, w)
        [] names = {} -> rows
        [] OTHER -> FilterLabels(rows, names)
ProfileTypes(db, w) ==
  UNION {{<<s.type, s.types[i], s.period>> : i \in DOMAIN s.types} :
           s \in {x \in ProfilesSeries(db) : Date(w.from) <= x.date /\ x.date <= Date(w.to)}}

(* Mutant: the type id is not asked of the profiles.                       *)
RowsOfAnyType(db, script, globals, w, closed) ==
  {i \in DOMAIN db : /\ w.from <= db[i].ts /\ (db[i].ts < w.to \/ (closed /\ db[i].ts = w.to))
                     /\ Fingerprint(db[i]) \in StreamSelector(db, script, w)}

(******************************** Profiles *********************************)
(* The rows of a window of time, the end included or not.                  *)
Rows(db, script, globals, w, closed) ==
  {i \in DOMAIN db : /\ w.from <= db[i].ts /\ (db[i].ts < w.to \/ (closed /\ db[i].ts = w.to))
                     /\ Fingerprint(db[i]) \in StreamSelector(db, script, w)
                     /\ Globals(globals, db[i])}

MergeProfilesRows(db, script, t, w) == Rows(db, script, PopulateTypeId(script, t), w, TRUE)
MergeRawRows(db, script, t, w) == LET full == PopulateTypeId(script, t) IN Rows(db, full, full, w, FALSE)

(* The rows come in no particular order.                                   *)
MergeProfiles(db, script, t, w, flip) ==
  LET chosen == MergeProfilesRows(db, script, t, w)
      rows == SelectSeq(db, LAMBDA r : \E i \in chosen : db[i] = r)
  IN  MergeAll(IF flip THEN Reverse(rows) ELSE rows)

(* The first value of a name, 0 without one.                               *)
ArrayFirst(pairs, name) ==
  LET is == {i \in DOMAIN pairs : pairs[i][1] = name} IN IF is = {} THEN 0 ELSE pairs[Min(is)][2]
TypeUnit(t) == t.sample \o ":" \o t.unit

(* MergeJoined: the nodes of the stored trees, summed, by their parents.   *)
NodeValue(row, path, t) ==
  LET is == {j \in DOMAIN row.agg : row.agg[j][1] = TypeUnit(t)}
  IN  IF is = {} THEN [self |-> 0, total |-> 0] ELSE row.tree[path][Min(is)]

MergeJoined(db, rows, t, flip) ==
  LET paths == UNION {DOMAIN db[i].tree : i \in rows}
      having(p) == {i \in rows : p \in DOMAIN db[i].tree}
      node(p) == [path |-> p, self |-> SumOf(having(p), LAMBDA i : NodeValue(db[i], p, t).self),
                  total |-> SumOf(having(p), LAMBDA i : NodeValue(db[i], p, t).total)]
      depth == Max({0} \cup {Len(p) : p \in paths})
      order(a, b) == IF flip THEN FnHash(Last(a)) > FnHash(Last(b)) ELSE FnHash(Last(a)) < FnHash(Last(b))
      ofParent(q) == SetToSortSeq({p \in paths : Front(p) = q}, order)
      parents(k) == SetToSeq({Front(p) : p \in {x \in paths : Len(x) = k}})
      level(k) == FlattenSeq([i \in DOMAIN parents(k) |-> ofParent(parents(k)[i])])
      sorted == FlattenSeq([k \in 1 .. depth |-> level(k)])
  IN  [i \in 1 .. Min({Len(sorted), MaxNodes}) |-> node(sorted[i])]
GetTree(db, script, t, w, flip) == MergeTrie(MergeJoined(db, MergeRawRows(db, script, t, w), t, flip))
MergeStackTraces(db, script, t, w, flip) ==
  LET nodes == GetTree(db, script, t, w, flip)
  IN  [nodes |-> nodes, levels |-> BFS(nodes), total |-> Total(nodes)]

(* The render endpoints read their times in whole seconds.                 *)
WholeSeconds(w) == [from |-> Second * (w.from \div Second), to |-> Second * (w.to \div Second)]
Render(db, script, t, w, flip) == MergeStackTraces(db, script, t, WholeSeconds(w), flip)
RenderDot(db, script, t, w, maxNodes) ==
  LET nodes == GetTree(db, script, t, WholeSeconds(w), FALSE)
  IN  [nodes |-> nodes, dot |-> ToDot(nodes, maxNodes)]
RenderDiff(db, left, right) ==
  LET tree(q) == GetTree(db, q.script, q.type, WholeSeconds(q.w), FALSE)
      l == tree(left)
      r == tree(right)
  IN  CASE left.type # right.type -> [err |-> "type"]
        [] ~AssertPositive(l) \/ ~AssertPositive(r) -> [err |-> "positive"]
        [] OTHER -> [err |-> "", l |-> l, r |-> r, diff |-> ComputeFlameGraphDiff(MergeNodes(l, r), MergeNodes(r, l))]

(******************************* Time series *******************************)
(* The tags of a series, all of them sorted or those of groupBy as stored; *)
(* one of its rows is taken when there are several.                        *)
GetLabels(db, script, groupBy, t, w, fp) ==
  LET rows == {s \in ProfilesSeries(db) : s.fp = fp /\ InDays(s, w) /\ Globals(PopulateTypeId(script, t), s)}
      s == CHOOSE x \in rows : TRUE
      all == s.tags
  IN  CASE rows = {} -> [key |-> <<"none">>, tags |-> {}]
        [] groupBy = {} -> [key |-> fp, tags |-> ToSet(all)]
        [] OTHER -> [key |-> SelectSeq(all, LAMBDA x : x[1] \in groupBy),
                     tags |-> {x \in ToSet(all) : x[1] \in groupBy}]

(* One row for each series and bucket of step seconds.                     *)
SeriesPoints(db, script, t, groupBy, step, w) ==
  LET rows == MergeProfilesRows(db, script, t, w)
      bucket(i) == (db[i].ts \div (Second * step)) * step
      at(i) == [labels |-> GetLabels(db, script, groupBy, t, w, Fingerprint(db[i])), ts |-> bucket(i)]
  IN  {at(i) @@ [value |-> SumOf({k \in rows : at(k) = at(i)}, LAMBDA k : ArrayFirst(db[k].agg, TypeUnit(t)))] : i \in rows}

(* The average is a statement ClickHouse refuses: its second arrayFirst    *)
(* has no array.                                                           *)
SelectSeries(db, script, t, groupBy, agg, step, w) ==
  LET rows == SeriesPoints(db, script, t, groupBy, step, w)
      points(l) == {[ts |-> r.ts, value |-> r.value] : r \in {x \in rows : x.labels = l}}
  IN  IF agg = "average" THEN [err |-> "sql", series |-> {}]
      ELSE [err |-> "", series |-> {[labels |-> r.labels, points |-> points(r.labels)] : r \in rows}]

(******************************* Statistics ********************************)
(* Only the rows of the first and of the last day are looked at.           *)
ProfileStats(db) ==
  LET dates == {s.date : s \in ProfilesSeries(db)}
      ends == {db[i].ts : i \in {k \in DOMAIN db : db[k].ts < (Min(dates) + 1) * Day \/ db[k].ts >= Max(dates) * Day}}
  IN  IF db = <<>> THEN [ingested |-> FALSE, oldest |-> 0, newest |-> 0]
      ELSE [ingested |-> TRUE, oldest |-> Min(ends), newest |-> Max(ends)]

AnalyzeQuery(db, script, w) ==
  [profiles |-> Cardinality(Rows(db, script, script, w, TRUE)), series |-> Cardinality(StreamSelector(db, script, w))]

=============================================================================
