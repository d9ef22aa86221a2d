---------------------------- MODULE TempoMetrics ----------------------------
(***************************************************************************)
(* TraceQL metrics: rate, count and the aggregates over the duration, over *)
(* a range or at an instant, the duration histogram and compare().         *)
(*                                                                         *)
(* A request is [script, fn, attr, p, by, comp, from, to, step], p being   *)
(* the quantile as a fraction.  The filters of every selector of the       *)
(* script are applied together, whatever joins them.  A value is a         *)
(* fraction <<numerator, denominator>>, <<0, 0>> standing for nan.         *)
(***************************************************************************)
EXTENDS TraceQL

CONSTANTS MetricsMaxPoints,  \* metricsMaxPoints, 5000 in the code
          Hour               \* seconds of an hour

(****************************** The step ***********************************)
StepSizes == {1, 5, 10, 15, 30, 60, 300, 600, 900, 1800}

AutoStep(from, to) ==
  LET range == to - from
      fits(s) == range <= MetricsMaxPoints * s * Second
      hours == (range + MetricsMaxPoints * Hour * Second - 1) \div (MetricsMaxPoints * Hour * Second)
      small == {s \in StepSizes : s < Hour /\ fits(s)}
  IN  IF small # {} THEN Min(small) * Second
      ELSE IF fits(Hour) THEN Hour * Second ELSE hours * Hour * Second

(* The window of a request; 0 stands for a bound that was not given.       *)
ParseMetricsRequest(req, now) ==
  LET from == IF req.from # 0 THEN req.from
              ELSE IF req.to # 0 THEN req.to - Hour * Second ELSE now - Hour * Second
      to == IF req.to # 0 THEN req.to ELSE now
  IN  [req EXCEPT !.from = from, !.to = to, !.step = IF req.step # 0 THEN req.step ELSE AutoStep(from, to)]

(****************************** Filters ************************************)
RECURSIVE ExtractAllFilters(_)
ExtractAllFilters(script) ==
  FlattenSeq([i \in DOMAIN script.args |->
    IF script.args[i].kind = "paren" THEN ExtractAllFilters(script.args[i].inner)
    ELSE SelectSeq(script.args[i].exp.terms, LAMBDA t : t.op # "" \/ t.name = "false")])

(* Only the scopes span. and resource. are taken off a label.              *)
StripAttrPrefix(t) == IF t.scope = "dot" THEN "." \o t.name ELSE t.name
Bare(t, names) == t.scope = "" /\ t.name \in names
ColumnOf(t) ==
  CASE Bare(t, {"name", "rootName"}) -> "name"
    [] Bare(t, {"service.name", "rootServiceName"}) -> "service"
    [] OTHER -> ""
(* Conditions on the columns of tempo_traces.  A pattern on a name is not  *)
(* applied, and any condition on nestedSetParent asks for root spans.      *)
IntrinsicCondition(t, row) ==
  CASE Bare(t, {"false"}) -> FALSE
    [] Bare(t, {"nestedSetParent"}) -> row.parent = ""
    [] Duration(t) -> t.kind = "time" => Compare(t.op, row.dur, t.num)
    [] ColumnOf(t) # "" /\ t.op \in {"=", "!="} -> TagHolds(t.op, row[ColumnOf(t)], t.val)
    [] OTHER -> TRUE

(* Conditions on the index; rootName has been a column's already, and      *)
(* rootServiceName is asked of the index a second time.                    *)
Skipped(t) ==
  \/ Bare(t, {"nestedSetParent", "nestedSetLeft", "nestedSetRight", "name", "rootName", "duration"})
  \/ t.kind = "nil"
GinKey(t) == IF Bare(t, {"rootServiceName"}) THEN "service.name"
             ELSE IF Bare(t, {"false"}) THEN "__false__" ELSE StripAttrPrefix(t)
GinRows(db, t, from, to) ==
  {a \in db.attrs : /\ a.key = GinKey(t) /\ TagHolds(t.op, a.val, t.val)
                    /\ Date(a.ts) \in Date(from) .. Date(to)}
(* How often a span comes out of the join with its filters: a single       *)
(* filter gives the span once per row of the index that meets it.          *)
Multiplicity(db, terms, from, to, row) ==
  LET gin == SelectSeq(terms, LAMBDA t : ~Skipped(t))
      of(t) == {a \in GinRows(db, t, from, to) : a.tid = row.tid /\ a.sid = row.sid}
  IN  CASE gin = <<>> -> 1
        [] Len(gin) = 1 -> Cardinality(of(gin[1]))
        [] Len(gin) > 1 -> IF \A i \in DOMAIN gin : of(gin[i]) # {} THEN 1 ELSE 0

(* The spans of a window that the filters keep, each with its multiplicity.*)
Matched(db, terms, from, to, dateFrom, dateTo) ==
  LET spans == {r \in db.traces : /\ r.ts >= from /\ r.ts < to
                                  /\ \A i \in DOMAIN terms : IntrinsicCondition(terms[i], r)}
  IN  {m \in {[row |-> r, n |-> Multiplicity(db, terms, dateFrom, dateTo, r)] : r \in spans} : m.n > 0}

Filtered(db, req) ==
  Matched(db, ExtractAllFilters(req.script), req.from, req.to, req.from, req.to)

(***************************** Aggregation *********************************)
(* The columns of the by labels: those of tempo_traces come first, those   *)
(* of the index after them, whatever the order of the labels.              *)
ByColumn(l) ==
  CASE Bare(l, {"name", "span:name"}) -> "name"
    [] Bare(l, {"duration", "span:duration"}) -> "dur"
    [] Bare(l, {"service.name", "rootServiceName"}) \/ l = [scope |-> "resource", name |-> "service.name"] -> "service"
    [] OTHER -> ""
Pivot(db, l, req, row) ==
  LET rows == {a \in db.attrs : /\ a.tid = row.tid /\ a.sid = row.sid /\ a.key = StripAttrPrefix(l)
                                /\ Date(a.ts) \in Date(req.from) .. Date(req.to)}
  IN  IF rows = {} THEN "" ELSE (CHOOSE a \in rows : TRUE).val

ByVals(db, req, row) ==
  LET direct == SelectSeq(req.by, LAMBDA l : ByColumn(l) # "")
      custom == SelectSeq(req.by, LAMBDA l : ByColumn(l) = "")
  IN  [i \in DOMAIN direct |-> row[ByColumn(direct[i])]] \o [i \in DOMAIN custom |-> Pivot(db, custom[i], req, row)]

Labels(req, vals) == [i \in DOMAIN req.by |-> <<req.by[i], vals[i]>>]

AggFns == {"avg_over_time", "min_over_time", "max_over_time", "sum_over_time",
           "quantile_over_time", "histogram_over_time"}
(* buildAggExpr: an aggregate needs the duration; over the name ClickHouse *)
(* refuses it or answers what cannot be read.                              *)
AggFails(req) ==
  CASE req.fn \in {"rate", "count_over_time"} -> FALSE
    [] req.fn \in AggFns -> req.attr \notin {"duration", "span:duration"}
    [] OTHER -> TRUE
Count(bag) == FoldSet(LAMBDA m, acc : m.n + acc, 0, bag)
(* quantile(p): between the two durations around position p * (n - 1).     *)
Quantile(bag, p) ==
  LET sorted == SetToSortSeq(bag, LAMBDA a, b : a.row.dur < b.row.dur)
      x == FlattenSeq([i \in DOMAIN sorted |-> [j \in 1 .. sorted[i].n |-> sorted[i].row.dur]])
      at == p[1] * (Len(x) - 1)
      lo == at \div p[2] + 1
      hi == Min({lo + 1, Len(x)})
  IN  IF bag = {} THEN <<0, 0>>
      ELSE <<x[lo] * p[2] + (x[hi] - x[lo]) * (at % p[2]), p[2] * Second>>

Value(req, bag, divisor) ==
  LET total == FoldSet(LAMBDA m, acc : m.n * m.row.dur + acc, 0, bag)
      durs == {m.row.dur : m \in bag}
  IN  CASE req.fn = "rate" -> <<Count(bag), divisor>>
        [] req.fn = "count_over_time" -> <<Count(bag), 1>>
        [] req.fn = "quantile_over_time" -> Quantile(bag, req.p)
        [] req.fn = "sum_over_time" -> <<total, Second>>
        [] req.fn = "avg_over_time" -> <<total, Second * Count(bag)>>
        [] req.fn = "min_over_time" -> <<IF bag = {} THEN 0 ELSE Min(durs), Second>>
        [] req.fn = "max_over_time" -> <<IF bag = {} THEN 0 ELSE Max(durs), Second>>

(******************************** Range ************************************)
BucketStart(req, ts) == (ts \div req.step) * req.step
StepMs(req) == req.step \div Ms

(* Mutant: the grid starts where the window does.                          *)
ZeroFillFromStart(req, samples) ==
  IF StepMs(req) = 0 THEN samples
  ELSE LET first == req.from \div Ms
           grid == {first + k * StepMs(req) : k \in 0 .. (req.to \div Ms - first) \div StepMs(req)}
       IN  {[ms |-> ms, value |-> IF \E s \in samples : s.ms = ms
                                  THEN (CHOOSE s \in samples : s.ms = ms).value ELSE <<0, 1>>] : ms \in grid}

(* The samples of a series by their millisecond, on the grid of the step   *)
(* from the start, rounded down, to the end: a sample off the grid is lost.*)
ZeroFill(req, samples) ==
  IF StepMs(req) = 0 THEN samples
  ELSE LET first == ((req.from \div Ms) \div StepMs(req)) * StepMs(req)
           grid == {first + k * StepMs(req) : k \in 0 .. (req.to \div Ms - first) \div StepMs(req)}
       IN  {[ms |-> ms, value |-> IF \E s \in samples : s.ms = ms
                                  THEN (CHOOSE s \in samples : s.ms = ms).value ELSE <<0, 1>>] : ms \in grid}

Samples(req, bag, Val(_)) ==
  {[ms |-> b \div Ms, value |-> Val({m \in bag : BucketStart(req, m.row.ts) = b})] :
     b \in {BucketStart(req, m.row.ts) : m \in bag}}
SampleAt(samples, ms) == IF \E s \in samples : s.ms = ms THEN (CHOOSE s \in samples : s.ms = ms).value ELSE <<0, 1>>

(* One sampled span for each bucket of a series, with the series' value at *)
(* that time or the span's own duration.                                   *)
Exemplars(req, bag, samples) ==
  LET picked == {CHOOSE m \in bag : BucketStart(req, m.row.ts) = b : b \in {BucketStart(req, m.row.ts) : m \in bag}}
      value(row) == IF req.fn \notin {"rate", "count_over_time"} THEN <<row.dur, Second>>
                    ELSE IF StepMs(req) = 0 THEN <<0, 1>>
                    ELSE SampleAt(samples, ((row.ts \div Ms) \div StepMs(req)) * StepMs(req))
  IN  {[tid |-> m.row.tid, ms |-> m.row.ts \div Ms, value |-> value(m.row)] : m \in picked}

RangeSeries(db, req, all) ==
  LET one(vals) == LET bag == {m \in all : ByVals(db, req, m.row) = vals}
                       samples == ZeroFill(req, Samples(req, bag, LAMBDA b : Value(req, b, req.step)))
                   IN  [labels |-> Labels(req, vals), samples |-> samples, exemplars |-> Exemplars(req, bag, samples)]
  IN  {one(v) : v \in {ByVals(db, req, m.row) : m \in all}}

(* The instant query; without by labels it has one row even for no span.   *)
InstantSeries(db, req, all) ==
  LET window == IF req.to > req.from THEN req.to - req.from ELSE Second
      groups == IF req.by = <<>> THEN {<<>>} ELSE {ByVals(db, req, m.row) : m \in all}
  IN  {[labels |-> Labels(req, v),
        value |-> Value(req, {m \in all : ByVals(db, req, m.row) = v}, window)] : v \in groups}

(***************************** Histogram ***********************************)
UpperBound(dur) == IF dur <= 0 THEN 0 ELSE Min({2^k : k \in {j \in 0 .. 20 : 2^j >= dur}})
HistogramSeries(req, all) ==
  LET one(b) == LET bag == {m \in all : UpperBound(m.row.dur) = b}
                    samples == ZeroFill(req, Samples(req, bag, LAMBDA x : <<Count(x), 1>>))
                IN  [labels |-> b, samples |-> samples,
                     exemplars |-> {[e EXCEPT !.value = <<1, 1>>] : e \in Exemplars(req, bag, samples)}]
  IN  {one(b) : b \in {UpperBound(m.row.dur) : m \in all}}

(***************************** compare() ***********************************)
(* comp is [exp, topN, from, to], 0 for what was not given.  The baseline  *)
(* are the spans of its window that meet the outer filters; of those, the  *)
(* selection are the ones of the request's window that meet the inner.     *)
(* The spans of each attribute on either side; a span of the selection     *)
(* counts as often as both joins give it.                                  *)
CompareCounts(all, selection, attrs) ==
  LET times(m) == LET same == {s \in selection : s.row = m.row}
                  IN  IF same = {} THEN 0 ELSE m.n * (CHOOSE s \in same : TRUE).n
      having(kv) == {m \in all : \E a \in attrs : /\ a.tid = m.row.tid /\ a.sid = m.row.sid
                                                  /\ a.key = kv[1] /\ a.val = kv[2]}
  IN  {[key |-> kv[1], val |-> kv[2],
        selection |-> FoldSet(LAMBDA m, acc : times(m) + acc, 0, having(kv)),
        baseline |-> FoldSet(LAMBDA m, acc : IF times(m) = 0 THEN m.n + acc ELSE acc, 0, having(kv))] :
          kv \in {x \in {<<a.key, a.val>> : a \in attrs} : having(x) # {}}}
TopOfEachKey(counted, topN) ==
  LET total(r) == r.selection + r.baseline
      ranked(k) == SetToSortSeq({r \in counted : r.key = k}, LAMBDA a, b : total(a) > total(b))
  IN  UNION {ToSet(Limited(ranked(k), topN)) : k \in {r.key : r \in counted}}
CompareRows(db, req) ==
  LET c == req.comp
      baseFrom == IF c.from > 0 THEN c.from ELSE req.from
      baseTo == IF c.to > 0 THEN c.to ELSE req.to
      dateFrom == Min({req.from, baseFrom})
      dateTo == Max({req.to, baseTo})
      inner == SelectSeq(c.exp.terms, LAMBDA t : t.op # "" \/ t.name = "false")
      all == Matched(db, ExtractAllFilters(req.script), baseFrom, baseTo, dateFrom, dateTo)
      selection == IF inner = <<>> THEN all ELSE Matched(db, inner, req.from, req.to, dateFrom, dateTo)
      attrs == {a \in db.attrs : Date(a.ts) \in Date(dateFrom) .. Date(dateTo)}
  IN  TopOfEachKey(CompareCounts(all, selection, attrs), IF c.topN > 0 THEN c.topN ELSE 10)

(***************************** The service *********************************)
MetricsQueryRange(db, req) ==
  CASE req.fn = "compare" -> [err |-> "", series |-> CompareRows(db, req)]
    [] req.fn # "compare" /\ AggFails(req) -> [err |-> "unsupported", series |-> {}]
    [] req.fn = "histogram_over_time" /\ ~AggFails(req) -> [err |-> "", series |-> HistogramSeries(req, Filtered(db, req))]
    [] OTHER -> [err |-> "", series |-> RangeSeries(db, req, Filtered(db, req))]
MetricsQueryInstant(db, req) ==
  CASE req.fn = "compare" -> [err |-> "", series |-> CompareRows(db, req)]
    [] req.fn = "histogram_over_time" -> [err |-> "", series |-> {}]
    [] req.fn \notin {"compare", "histogram_over_time"} /\ AggFails(req) -> [err |-> "unsupported", series |-> {}]
    [] OTHER -> [err |-> "", series |-> InstantSeries(db, req, Filtered(db, req))]

=============================================================================
