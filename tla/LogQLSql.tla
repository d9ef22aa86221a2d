------------------------------ MODULE LogQLSql ------------------------------
(***************************************************************************)
(* What the SQL that clickhouse_planner builds for a script computes.      *)
(*                                                                         *)
(* The planners wrap each other; each adds conditions to the SELECT below  *)
(* it, patches a column of it, or puts it in a WITH and selects from it.   *)
(* A SELECT under construction is a level: its rows with the columns as    *)
(* patched so far and the WHERE conditions collected so far.  ClickHouse   *)
(* resolves names in WHERE to the aliases of the SELECT, so conditions are *)
(* evaluated on the columns as they are when the level is finished.        *)
(*                                                                         *)
(* A table is a set of records: db.series has oid, type, date and labels,  *)
(* db.samples id, oid, type, ts, labels and line.  A request ctx has from, *)
(* to, step, now, limit, asc, type, federated, oids and finalize.          *)
(***************************************************************************)
EXTENDS LogQLScript

CONSTANT Day   \* seconds per partition of time_series

HalfAnHour == Day \div 48

(***************************** Table conditions ****************************)
FormatFromDate(from) == (from - HalfAnHour) \div Day
TypeOf(ctx) == {ctx.type, "both"}
OidHolds(ctx, oid) == ~ctx.federated \/ oid \in ctx.oids
SeriesAt(db, ctx) ==
  {s \in db.series : s.date >= FormatFromDate(ctx.from) /\ s.type \in TypeOf(ctx)
                       /\ OidHolds(ctx, s.oid)}

TimeSeriesInit(db, ctx) == SeriesAt(db, ctx)

(* Mutant: the samples of every tenant are read.                          *)
SqlMainInitNoOid(db, ctx) ==
  {Entry(<<"sample", r.id>>, r.ts, StoredFp(r.labels), {}, r.line, 0) :
     r \in {q \in db.samples : ctx.from <= q.ts /\ q.ts < ctx.to /\ q.type \in TypeOf(ctx)}}

SqlMainInit(db, ctx) ==
  {Entry(<<"sample", r.id>>, r.ts, StoredFp(r.labels), {}, r.line, 0) :
     r \in {q \in db.samples : ctx.from <= q.ts /\ q.ts < ctx.to
                                 /\ q.type \in TypeOf(ctx) /\ OidHolds(ctx, q.oid)}}

(* The rows the materialized view of samples_v3 keeps in metrics_15s.      *)
Metrics15(db) ==
  LET rounded(r) == [oid |-> r.oid, type |-> r.type, ts |-> Bucket(r.ts, Grid), labels |-> r.labels]
  IN  {[key |-> k, count |-> Quantify(db.samples, LAMBDA r : rounded(r) = k)] :
         k \in {rounded(r) : r \in db.samples}}

(***************************** Stream selection ****************************)
NoStreamSelect(sel) == \A i \in DOMAIN sel : sel[i].fn = "=~" /\ sel[i].val = ".*"

IsEmptyMatcher(m) == m.fn \in {"=", "=~"} /\ m.val = ""
IsAnyMatcher(m) == m.fn = "=~" /\ m.val = ".*"

(* Process removes the matchers of an empty value from the end, and then   *)
(* reads the operator at the same index again: when nothing is left after  *)
(* it, that index is out of range.                                         *)
SelectPanics(sel) ==
  \E i \in DOMAIN sel : /\ IsEmptyMatcher(sel[i])
                        /\ \A j \in (i + 1)..Len(sel) : IsEmptyMatcher(sel[j]) \/ IsAnyMatcher(sel[j])

(* The index has a row per label: a matcher needs the label to be there.   *)
IndexHolds(m, labels) == \E p \in labels : p[1] = m.label /\ StringHolds(m, p[2])

StreamSelect(db, ctx, sel) ==
  LET clauses == {sel[i] : i \in {j \in DOMAIN sel : ~IsEmptyMatcher(sel[j]) /\ ~IsAnyMatcher(sel[j])}}
      empty == {sel[i].label : i \in {j \in DOMAIN sel : IsEmptyMatcher(sel[j])}}
      indexed == {s \in SeriesAt(db, ctx) : \A m \in clauses : IndexHolds(m, s.labels)}
      lacking == {s \in db.series : /\ s.date >= FormatFromDate(ctx.from)
                                    /\ OidHolds(ctx, s.oid)
                                    /\ \A l \in empty : \A p \in s.labels : p[1] # l}
      fps(S) == {StoredFp(s.labels) : s \in S}
  IN  IF empty = {} THEN fps(indexed)
      ELSE IF clauses = {} THEN fps(lacking)
      ELSE fps(lacking) \cap fps(indexed)

LabelHolds(f, labels) ==
  IF f.numeric THEN NumberHolds(f, Get(labels, f.label)) ELSE StringHolds(f, Get(labels, f.label))
LabelFilterHolds(st, labels) == Chain(st.exp, LAMBDA f : LabelHolds(f, labels))

SimpleLabelFilter(db, noSelect, st, fps) ==
  {StoredFp(s.labels) : s \in {q \in db.series : /\ noSelect \/ StoredFp(q.labels) \in fps
                                                 /\ LabelFilterHolds(st, q.labels)}}

(***************************** Script analysis *****************************)
ParserBefore(pipe, i) == \E j \in 1..(i - 1) : IsParser(pipe[j])

(* Mutant: a label filter after a parser is taken for one on the stream.   *)
SimpleLabelOperationAnywhere(pipe, i) == pipe[i].kind = "labelfilter"

SimpleLabelOperation(pipe, i) == pipe[i].kind = "labelfilter" /\ ~ParserBefore(pipe, i)

(* The first stage that needs the labels of a row, 0 when there is none.   *)
LabelsJoinIdx(pipe) ==
  LET needs == {i \in DOMAIN pipe :
                  \/ pipe[i].kind \in {"parser", "lineformat", "drop", "keep"}
                  \/ pipe[i].kind = "labelfilter" /\ ~SimpleLabelOperation(pipe, i)}
  IN  IF needs = {} THEN 0 ELSE Min(needs)

RenewMainAfter(pipe, i) == i < Len(pipe) /\ IsParser(pipe[i]) /\ ~IsParser(pipe[i + 1])

LineFilterHasContent(st) == \E i \in DOMAIN st.exp : st.exp[i].val # ""

AnalyzeMetrics15sShortcut(s) ==
  /\ s.lra.fn \in {"rate", "count_over_time"}
  /\ s.lra.dur >= Grid
  /\ ~HasUnwrap(s)
  /\ \A i \in DOMAIN s.pipe : /\ ~IsParser(s.pipe[i])
                              /\ s.pipe[i].kind = "linefilter" => ~LineFilterHasContent(s.pipe[i])

(* matrixFunctionsLabelsIDX # -1: a matrix function yields the labels.     *)
FunctionsYieldLabels(s) == HasUnwrap(s) \/ s.agg.by.fn # ""

(********************************* Levels **********************************)
Level(rows, joined, samples) ==
  [rows |-> rows, conds |-> <<>>, joined |-> joined, samples |-> samples, json |-> FALSE, err |-> ""]
Failed(level, err) == [level EXCEPT !.err = err]
Where(level, st) == [level EXCEPT !.conds = Append(@, [st |-> st, json |-> level.json])]
Patch(level, P(_)) == [level EXCEPT !.rows = {P(r) : r \in @}]

(* __error__ = and != after json ask what the line is, not what the label. *)
ErrorCondition(f, line) ==
  LET errored == CASE f.val = "" -> f.fn = "!="
                   [] f.val = "JSONParserErr" -> f.fn = "="
  IN  IF f.val \notin {"", "JSONParserErr"} THEN f.fn = "!=" ELSE line.object # errored
IsErrorFilter(f, json) == json /\ f.label = ErrorLabel /\ ~f.numeric /\ f.fn \in {"=", "!="}

(* |= compares tokens unless it asks for none; !~ of a true regular        *)
(* expression keeps the lines that match it, as |~ does.                   *)
LineHolds(fn, e, line) ==
  CASE fn = "|=" -> IF e.token THEN e.val \in line.tokens ELSE e.val \in line.subs
    [] fn = "!=" -> e.val \notin line.subs
    [] fn = "|~" -> line.subs \cap e.re # {}
    [] fn = "!~" -> IF e.literal THEN line.subs \cap e.re = {} ELSE line.subs \cap e.re # {}

ConditionHolds(c, r) ==
  CASE c.st.kind = "labelfilter" ->
         Chain(c.st.exp, LAMBDA f : IF IsErrorFilter(f, c.json) THEN ErrorCondition(f, r.line)
                                    ELSE LabelHolds(f, r.labels))
    [] c.st.kind = "linefilter" -> Chain(c.st.exp, LAMBDA e : LineHolds(c.st.fn, e, r.line))
    [] c.st.kind = "unwrap" -> ~r.null

Finish(level) == {r \in level.rows : \A i \in DOMAIN level.conds : ConditionHolds(level.conds[i], r)}

FingerprintFilter(fps, noSelect, rows) == IF noSelect THEN rows ELSE {r \in rows : r.fp \in fps}

LabelsJoin(db, ctx, fps, noSelect, level) ==
  LET main == Finish(level)
      window == {r.fp : r \in main}
      ts == {s \in TimeSeriesInit(db, ctx) : /\ StoredFp(s.labels) \in window
                                             /\ noSelect \/ StoredFp(s.labels) \in fps}
      of(fp) == {s \in ts : StoredFp(s.labels) = fp}
      labelsOf(fp) == IF of(fp) = {} THEN {} ELSE (CHOOSE s \in of(fp) : TRUE).labels
  IN  [Level({[r EXCEPT !.labels = labelsOf(r.fp)] : r \in main}, TRUE, FALSE)
         EXCEPT !.json = level.json, !.err = level.err]

MainRenew(level) == [Level(Finish(level), level.joined, TRUE)
                       EXCEPT !.json = level.json, !.err = level.err]

(***************************** Pipeline stages *****************************)
DropHolds(st, p) == \A i \in DOMAIN st.params :
                      IF st.params[i].val = "" THEN p[1] # st.params[i].label
                      ELSE p # <<st.params[i].label, st.params[i].val>>
KeepHolds(st, p) == \/ p[1] \in {ErrorLabel, ErrorDetails}
                    \/ \E i \in DOMAIN st.params :
                         IF st.params[i].val = "" THEN p[1] = st.params[i].label
                         ELSE p = <<st.params[i].label, st.params[i].val>>
SqlDrop(st, r) == [r EXCEPT !.labels = {p \in @ : DropHolds(st, p)}]
SqlKeep(st, r) == [r EXCEPT !.labels = {p \in @ : KeepHolds(st, p)}]

(* A path that the line does not have yields the empty string.             *)
SqlJson(st, r) ==
  LET parsed == IF r.line.object
                THEN {<<st.params[i].label, Get(r.line.fields, st.params[i].path)>> : i \in DOMAIN st.params}
                ELSE {<<ErrorLabel, "JSONParserErr">>, <<ErrorDetails, "json">>}
      labels == Update(r.labels, parsed)
  IN  [r EXCEPT !.labels = labels, !.fp = ZippedFp(labels)]

SqlUnwrap(st, r) ==
  LET v == Get(r.labels, st.label)
  IN  IF v \in DOMAIN NumberOf THEN [r EXCEPT !.value = NumberOf[v] * Unit] ELSE [r EXCEPT !.null = TRUE]

(* doLike and doHasPhrase name the column samples.string, which the SELECT *)
(* of a labels join does not have.                                         *)
NamesSamples(st) == \E i \in DOMAIN st.exp :
                      st.fn \in {"|=", "!="} \/ (st.fn \in {"|~", "!~"} /\ st.exp[i].literal)

PlanStage(pipe, i, level) ==
  LET st == pipe[i]
      s == CASE st.kind = "labelfilter" /\ SimpleLabelOperation(pipe, i) -> level
             [] st.kind = "labelfilter" /\ ~SimpleLabelOperation(pipe, i) -> Where(level, st)
             [] st.kind = "linefilter" -> IF st.fn = "|>" \/ (NamesSamples(st) /\ ~level.samples)
                                          THEN Failed(level, "unknown column") ELSE Where(level, st)
             [] st.kind = "parser" -> IF st.fn # "json" THEN Failed(level, "not supported")
                                      ELSE [Patch(level, LAMBDA r : SqlJson(st, r)) EXCEPT !.json = TRUE]
             [] st.kind = "unwrap" -> IF ~level.joined THEN Failed(level, "labels col not inited")
                                      ELSE Where(Patch(level, LAMBDA r : SqlUnwrap(st, r)), st)
             [] st.kind = "drop" -> Patch(level, LAMBDA r : SqlDrop(st, r))
             [] st.kind = "keep" -> Patch(level, LAMBDA r : SqlKeep(st, r))
             [] OTHER -> level                        \* label_format is not planned
  IN  IF RenewMainAfter(pipe, i) THEN MainRenew(s) ELSE s

PlanTS(db, ctx, s) ==
  LET noSelect == NoStreamSelect(s.sel)
      step(fps, i) == IF ~AnalyzeMetrics15sShortcut(s) /\ SimpleLabelOperation(s.pipe, i)
                      THEN SimpleLabelFilter(db, noSelect, s.pipe[i], fps) ELSE fps
  IN  FoldLeftDomain(step, IF noSelect THEN {} ELSE StreamSelect(db, ctx, s.sel), s.pipe)

PlanSpl(db, ctx, s, fps) ==
  LET noSelect == NoStreamSelect(s.sel)
      step(level, i) ==
        PlanStage(s.pipe, i, IF i = LabelsJoinIdx(s.pipe) THEN LabelsJoin(db, ctx, fps, noSelect, level) ELSE level)
  IN  FoldLeftDomain(step, Level(FingerprintFilter(fps, noSelect, SqlMainInit(db, ctx)), FALSE, TRUE), s.pipe)

(***************************** Matrix functions ****************************)
Groups(rows, dur) == {<<r.fp, Bucket(r.ts, dur)>> : r \in rows}
InGroup(rows, dur, g) == {r \in rows : r.fp = g[1] /\ Bucket(r.ts, dur) = g[2]}
AnyLabels(rows) == (CHOOSE r \in rows : TRUE).labels

(* GROUP BY (fingerprint, bucket) with a value computed from the group.    *)
GroupBy(rows, dur, Value(_, _)) ==
  {LET rs == InGroup(rows, dur, g)
   IN  Entry(g[1], g[2], g[1], AnyLabels(rs), EmptyLine, Value(g[2], rs)) : g \in Groups(rows, dur)}

Lra(ctx, lra, rows) ==
  GroupBy(rows, lra.dur,
          LAMBDA b, rs : RangeValue(lra.fn, rs, lra.dur, Covered(b, lra.dur, ctx.from, ctx.to, ctx.now)))

UnwrapFunction(ctx, lra, rows) ==
  LET value(b, rs) ==
        LET covered == Covered(b, lra.dur, ctx.from, ctx.to, ctx.now)
        IN CASE lra.fn = "rate" -> Total(rs) \div covered
             [] lra.fn = "sum_over_time" -> (Total(rs) * lra.dur) \div covered
             [] lra.fn = "avg_over_time" -> Total(rs) \div Cardinality(rs)
             [] lra.fn = "max_over_time" -> Max(Values(rs))
             [] lra.fn = "min_over_time" -> Min(Values(rs))
             [] lra.fn = "first_over_time" -> Earliest(rs).value
             [] lra.fn = "last_over_time" -> Latest(rs).value
  IN  GroupBy(rows, lra.dur, value)

(* by and without over the labels of the rows, or over time_series when    *)
(* the rows have none: a row whose series is not there has no labels.      *)
ByWithout(db, ctx, by, joined, fps, noSelect, rows) ==
  LET own(fp) == {s \in SeriesAt(db, ctx) : StoredFp(s.labels) = fp /\ (noSelect \/ fp \in fps)}
      labelsOf(r) == IF joined THEN r.labels
                     ELSE IF own(r.fp) = {} THEN {} ELSE (CHOOSE s \in own(r.fp) : TRUE).labels
      cut(r) == CutLabels(labelsOf(r), by)
  IN  IF by.fn = "" THEN rows
      ELSE {[r EXCEPT !.labels = cut(r), !.fp = CanonicalFp(cut(r))] : r \in rows}

AggBy(agg) == IF agg.by.fn = "" THEN [fn |-> "by", labels |-> {}] ELSE agg.by
AggOp(fn, rows) == GroupBy(rows, 1, LAMBDA b, rs : AggValue(fn, rs))

Comparison(cmp, rows) ==
  IF cmp.fn = "" THEN rows ELSE {r \in rows : Compare(cmp.fn, r.value, cmp.val * Unit)}

(* The first len rows of each time by value, rows of one value in any      *)
(* order.                                                                  *)
TopK(top, rows) ==
  LET at(t) == {r \in rows : r.ts = t}
      ahead(r, q) == IF top.fn = "topk" THEN r.value > q.value ELSE r.value < q.value
      best(S) == CHOOSE T \in SUBSET S : /\ Cardinality(T) = Min({top.len, Cardinality(S)})
                                         /\ \A r \in T, q \in S \ T : ~ahead(q, r)
  IN  IF top.fn = "" THEN rows ELSE UNION {best(at(t)) : t \in {r.ts : r \in rows}}

StepFix(ctx, dur, rows) ==
  IF dur >= ctx.step THEN rows ELSE GroupBy(rows, ctx.step, LAMBDA b, rs : Earliest(rs).value)

(* metrics_15s, with the window rounded down to its grid.                  *)
Metrics15Shortcut(db, ctx, lra) ==
  LET from == Bucket(ctx.from, Grid)
      to == Bucket(ctx.to, Grid)
      rows == {m \in Metrics15(db) : /\ from <= m.key.ts /\ m.key.ts < to
                                     /\ m.key.type \in TypeOf(ctx) /\ OidHolds(ctx, m.key.oid)}
      key(m) == <<StoredFp(m.key.labels), Bucket(m.key.ts, lra.dur)>>
      count(g) == SumOf({m \in rows : key(m) = g}, LAMBDA m : m.count)
      covered(g) == Covered(g[2], lra.dur, from, to, ctx.now)
  IN  {Entry(g[1], g[2], g[1], {}, EmptyLine,
             IF lra.fn = "rate" THEN RateValue(count(g), covered(g))
             ELSE TotalValue(count(g), lra.dur, covered(g))) : g \in {key(m) : m \in rows}}

(******************************** The plan *********************************)
Newest(ctx, rows) ==
  LET ahead(r, q) == IF ctx.asc THEN r.ts < q.ts ELSE r.ts > q.ts
  IN  IF ctx.limit = 0 \/ Cardinality(rows) <= ctx.limit THEN rows
      ELSE CHOOSE T \in SUBSET rows : /\ Cardinality(T) = ctx.limit
                                      /\ \A r \in T, q \in rows \ T : ~ahead(q, r)

Fail(err) == [err |-> err, rows |-> {}]
Rows(rows) == [err |-> "", rows |-> rows]

SelectFails(s) == ~NoStreamSelect(s.sel) /\ SelectPanics(s.sel)

RangedRows(db, ctx, s, fps, joined, rows) ==
  CASE AnalyzeMetrics15sShortcut(s) -> FingerprintFilter(fps, NoStreamSelect(s.sel), Metrics15Shortcut(db, ctx, s.lra))
    [] ~AnalyzeMetrics15sShortcut(s) /\ HasUnwrap(s) ->
         UnwrapFunction(ctx, s.lra, ByWithout(db, ctx, s.lra.by, joined, fps, NoStreamSelect(s.sel), rows))
    [] OTHER -> Lra(ctx, s.lra, rows)
AggregatedRows(db, ctx, s, fps, joined, rows) ==
  IF ~HasAgg(s) THEN rows
  ELSE Comparison(s.agg.cmp,
                  AggOp(s.agg.fn, ByWithout(db, ctx, AggBy(s.agg), joined, fps, NoStreamSelect(s.sel), rows)))
MatrixRows(db, ctx, s, fps, joined, rows) ==
  LET ranged == Comparison(s.lra.cmp, RangedRows(db, ctx, s, fps, joined, rows))
  IN  StepFix(ctx, s.lra.dur, TopK(s.top, AggregatedRows(db, ctx, s, fps, joined, ranged)))

(* The rows of the samples part and the functions applied to them; labels  *)
(* are joined at the end unless the pipeline or a function brought them.   *)
MainRows(db, ctx, s, fps, joined, finalize, rows) ==
  IF ~IsStream(s) THEN MatrixRows(db, ctx, s, fps, joined, rows)
  ELSE IF finalize THEN Newest(ctx, rows) ELSE rows
LabelledRows(db, ctx, s, fps, joined, rows) ==
  IF joined \/ FunctionsYieldLabels(s) THEN rows
  ELSE LabelsJoin(db, ctx, fps, NoStreamSelect(s.sel), Level(rows, FALSE, FALSE)).rows
SelectFrom(db, ctx, s, fps, joined, finalize, spl) ==
  IF ~AnalyzeMetrics15sShortcut(s) /\ spl.err # "" THEN Fail(spl.err)
  ELSE Rows(LabelledRows(db, ctx, s, fps, joined, MainRows(db, ctx, s, fps, joined, finalize, Finish(spl))))
SqlOver(db, ctx, s, fps, finalize) ==
  LET joined == ~AnalyzeMetrics15sShortcut(s) /\ LabelsJoinIdx(s.pipe) # 0
  IN  SelectFrom(db, ctx, s, fps, joined, finalize, PlanSpl(db, ctx, s, fps))
SqlPlan(db, ctx, s, finalize) ==
  IF SelectFails(s) THEN Fail("panic") ELSE SqlOver(db, ctx, s, PlanTS(db, ctx, s), finalize)
=============================================================================
