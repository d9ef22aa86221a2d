------------------------------- MODULE PromQL -------------------------------
(***************************************************************************)
(* A PromQL query from the request to the answer: the range functions and  *)
(* the aggregations that are answered by one SQL request over the 15 s     *)
(* table, the selectors that are read for the Prometheus engine, and the   *)
(* iterators the engine reads them through.                                *)
(*                                                                         *)
(* A stored sample is [fp, ts, val]; a fingerprint is the label set it     *)
(* hashes, a function from label names to values, where "n" stands for     *)
(* __name__.  A tick is the millisecond of the code's +1 and -1; Bucket    *)
(* is its 15 s and Staleness its 5 minutes.  A query is                    *)
(* [start, end, step, native, compat, expr] with step 0 for an instant     *)
(* query; native tells a server that knows WITH FILL STALENESS, compat is  *)
(* the setting Compat_4_0_19.  Expressions:                                *)
(*   [k |-> "sel", m, off]           a vector selector with its matchers   *)
(*   [k |-> "mat", m, off, range]    a range selector                      *)
(*   [k |-> "call", fn, arg]         a function of a range selector        *)
(*   [k |-> "agg", fn, by, labels, arg]                                    *)
(*   [k |-> "subst", req]            what an optimizer put in their place  *)
(***************************************************************************)
EXTENDS Integers, Sequences, FiniteSets, FiniteSetsExt, SequencesExt, TLC

CONSTANTS Bucket, Staleness, HalfHour, Day,
          MaxWindow,        \* the largest offset of a window frame, an int32 in the code
          MaxPoints,        \* 11 000 in the code
          SixHours          \* the start of a query that gives none, before now

Floor(t, n) == (t \div n) * n
Ceil(t, n) == Floor(t + n - 1, n)
SumBy(S, Value(_)) == FoldSet(LAMBDA x, acc : acc + Value(x), 0, S)
Latest(S) == CHOOSE x \in S : \A y \in S : y.ts <= x.ts
Earliest(S) == CHOOSE x \in S : \A y \in S : x.ts <= y.ts
Drop(labels, names) == [l \in DOMAIN labels \ names |-> labels[l]]

(******************************** Tables ***********************************)
TimeSeries(db) == {[date |-> s.ts \div Day, fp |-> s.fp] : s \in db}

Partial(S) == [sum |-> SumBy(S, LAMBDA s : s.val), cnt |-> Cardinality(S), last |-> Latest(S).val,
               min |-> Min({s.val : s \in S}), max |-> Max({s.val : s \in S})]
Metrics15s(db) ==
  LET of(fp, ts) == {s \in db : s.fp = fp /\ Floor(s.ts, Bucket) = ts}
  IN  {[fp |-> s.fp, ts |-> Floor(s.ts, Bucket)] @@ Partial(of(s.fp, Floor(s.ts, Bucket))) : s \in db}
(* What the aggregate states of several rows merge to.                     *)
MergeRows(R) == [sum |-> SumBy(R, LAMBDA r : r.sum), cnt |-> SumBy(R, LAMBDA r : r.cnt), last |-> Latest(R).last,
                 min |-> Min({r.min : r \in R}), max |-> Max({r.max : r \in R})]
(* GROUP BY the fingerprint and a new stamp.                               *)
GroupRows(R, Stamp(_)) ==
  {k @@ MergeRows({r \in R : r.fp = k.fp /\ Stamp(r) = k.ts}) : k \in {[fp |-> r.fp, ts |-> Stamp(r)] : r \in R}}

(***************************** Series of a query ***************************)
FormatFromDate(t) == (t - HalfHour) \div Day
MatcherHolds(m, fp) ==
  CASE m.op = "=" /\ m.val = "" -> m.name \notin DOMAIN fp
    [] m.op = "=" -> m.name \in DOMAIN fp /\ fp[m.name] = m.val
    [] m.op = "!=" -> m.name \in DOMAIN fp /\ fp[m.name] # m.val
SelectFingerprints(series, from, ms) ==
  {r.fp : r \in {x \in series : x.date >= FormatFromDate(from) /\ \A m \in ms : MatcherHolds(m, x.fp)}}
StreamSelect(db, from, ms) == SelectFingerprints(TimeSeries(db), from, ms)

(************************* Accelerated functions ***************************)
(* One row for each series and step with a sample, read from lookback      *)
(* before the window on.                                                   *)
BucketProducer(db, ctx, ms, lookback) ==
  LET fps == StreamSelect(db, ctx.from, ms)
      read == {r \in Metrics15s(db) : r.fp \in fps /\ ctx.from - lookback <= r.ts /\ r.ts <= ctx.to}
  IN  GroupRows(read, LAMBDA r : Floor(r.ts, ctx.step))

(* The steps after a row up to its next row, its duration and the end of   *)
(* the query.                                                              *)
FillSteps(rows, r, ctx, d) ==
  LET next == {x.ts : x \in {y \in rows : y.fp = r.fp /\ y.ts > r.ts}}
      end == Min({r.ts + d, ctx.to} \cup next)
  IN  {r.ts + k * ctx.step : k \in {j \in 0 .. d \div ctx.step : r.ts + j * ctx.step < end}}
FillStaleness(rows, ctx, d) ==
  {r @@ [src |-> 1] : r \in rows}
    \cup UNION {{[r EXCEPT !.ts = t] @@ [src |-> 0] : t \in FillSteps(rows, r, ctx, d) \ {r.ts}} : r \in rows}
FillArrayJoin(rows, ctx, d) ==
  UNION {{[r EXCEPT !.ts = t] @@ [src |-> IF t = r.ts THEN 1 ELSE 0] : t \in FillSteps(rows, r, ctx, d)} : r \in rows}
FillGaps(rows, ctx, d) == IF ctx.native THEN FillStaleness(rows, ctx, d) ELSE FillArrayJoin(rows, ctx, d)
BucketedValues(db, ctx, ms, lookback) == FillGaps(BucketProducer(db, ctx, ms, lookback), ctx, lookback)

(* The real rows of a window frame, from lo before a row to hi before it.  *)
Frame(rows, r, lo, hi) == {x \in rows : x.fp = r.fp /\ r.ts - lo <= x.ts /\ x.ts <= r.ts - hi /\ x.src = 1}

RangeFrame(rows, r, range) == Frame(rows, r, range - 1, 0)

OverTimeValue(fn, F) ==
  LET all == MergeRows(F)
  IN  CASE fn = "sum_over_time" -> all.sum
        [] fn = "count_over_time" -> all.cnt
        [] fn = "min_over_time" -> all.min
        [] fn = "max_over_time" -> all.max
        [] fn = "avg_over_time" -> all.sum \div all.cnt
        [] fn = "last_over_time" -> all.last
        [] fn = "present_over_time" -> 1

OverTime(rows, req) ==
  {[fp |-> r.fp, ts |-> r.ts, val |-> OverTimeValue(req.fn, RangeFrame(rows, r, req.range))] :
     r \in {x \in rows : RangeFrame(rows, x, req.range) # {}}}

(* The row before a row that is still valid.                               *)
PrevFrame(rows, r, ctx) == Frame(rows, r, Max({ctx.step, Staleness}), 1)
(* Mutant: a reset is looked for in the last step only.                    *)
CounterResetNear(rows, r, ctx) ==
  LET prev == Frame(rows, r, ctx.step, 1)
  IN  IF r.src = 1 /\ prev # {} /\ Latest(prev).last > r.last THEN Latest(prev).last ELSE 0

CounterReset(rows, r, ctx) ==
  LET prev == PrevFrame(rows, r, ctx)
  IN  IF r.src = 1 /\ prev # {} /\ Latest(prev).last > r.last THEN Latest(prev).last ELSE 0

(* The growth over a range with the rows open before it and close in it.   *)
CounterGrowth(rows, open, close, ctx, fn) ==
  LET start == IF open # {} THEN Latest(open).last ELSE Earliest(close).last
      resets == IF fn = "delta" THEN 0 ELSE SumBy(close, LAMBDA x : CounterReset(rows, x, ctx))
  IN  Latest(close).last - start + resets
Counter(rows, ctx, req) ==
  LET open(r) == Frame(rows, r, req.range + Staleness, req.range - 1)
      close(r) == RangeFrame(rows, r, req.range)
      two(r) == close(r) # {} /\ Cardinality(open(r)) + Cardinality(close(r)) > 1
  IN  {[fp |-> r.fp, ts |-> r.ts,
        val |-> CounterGrowth(rows, open(r), close(r), ctx, req.fn) \div (IF req.fn = "rate" THEN req.range ELSE 1)] :
         r \in {x \in rows : two(x)}}

CounterFlag(fn, rows, r, ctx) ==
  LET prev == PrevFrame(rows, r, ctx)
      moved == IF fn = "resets" THEN Latest(prev).last > r.last ELSE Latest(prev).last # r.last
  IN  IF prev # {} /\ moved THEN 1 ELSE 0

CounterFlags(rows, ctx, req) ==
  LET close(r) == RangeFrame(rows, r, req.range)
      flag(r) == CounterFlag(req.fn, rows, r, ctx)
  IN  {[fp |-> r.fp, ts |-> r.ts, val |-> SumBy(close(r), flag) - flag(Earliest(close(r)))] :
         r \in {x \in rows : close(x) # {}}}

(* Mutant: without does not drop the metric name.                          *)
PatchLabelsNamed(req, fp) ==
  IF req.by THEN Drop(fp, DOMAIN fp \ req.labels) ELSE Drop(fp, req.labels)

PatchLabels(req, fp) ==
  IF req.by THEN Drop(fp, DOMAIN fp \ req.labels) ELSE Drop(fp, req.labels \cup {"n"})

PatchVal(fn, R) ==
  CASE fn = "sum" -> SumBy(R, LAMBDA r : r.val)
    [] fn = "min" -> Min({r.val : r \in R})
    [] fn = "max" -> Max({r.val : r \in R})
    [] fn = "avg" -> SumBy(R, LAMBDA r : r.val) \div Cardinality(R)
    [] fn = "count" -> Cardinality(R)
    [] fn = "group" -> 1

OverTimeFns == {"sum_over_time", "count_over_time", "min_over_time", "max_over_time", "avg_over_time",
                "last_over_time", "present_over_time"}
CounterFns == {"rate", "increase", "delta"}
FlagFns == {"resets", "changes"}
RangeFns == OverTimeFns \cup CounterFns \cup FlagFns
AggFns == {"sum", "min", "max", "avg", "count", "group"}
IsAgg(req) == req.fn \in AggFns
NewInstantVector(ms) == [fn |-> "last_over_time", m |-> ms, range |-> Staleness]

(* The functions of a counter also look for the row before the range.      *)
LookBack(req) == req.range + (IF req.fn \in OverTimeFns THEN 0 ELSE Staleness)
FunctionRows(rows, ctx, req) ==
  CASE req.fn \in OverTimeFns -> OverTime(rows, req)
    [] req.fn \in CounterFns -> Counter(rows, ctx, req)
    [] req.fn \in FlagFns -> CounterFlags(rows, ctx, req)
RangeRows(db, ctx, req) == FunctionRows(BucketedValues(db, ctx, req.m, LookBack(req)), ctx, req)
AggRows(main, req) ==
  LET key(r) == [fp |-> PatchLabels(req, r.fp), ts |-> r.ts]
  IN  {k @@ [val |-> PatchVal(req.fn, {r \in main : key(r) = k})] : k \in {key(r) : r \in main}}
RequestRows(db, ctx, req) ==
  LET main == RangeRows(db, ctx, IF IsAgg(req) THEN req.main ELSE req)
  IN  IF IsAgg(req) THEN AggRows(main, req) ELSE main

(* A frame offset that does not fit is refused.                            *)
WindowOffset(d) == d <= MaxWindow
RangeFits(ctx, req) ==
  /\ WindowOffset(req.range - 1)
  /\ req.fn \in CounterFns \cup FlagFns => WindowOffset(Max({ctx.step, Staleness}))
  /\ req.fn \in CounterFns => WindowOffset(req.range + Staleness)

(******************************* Optimizers ********************************)
VectorRangeApplicable(e) == e.k = "call" /\ e.arg.k = "mat" /\ e.fn \in RangeFns
SubstituteRange(e) == [k |-> "subst", off |-> 0, req |-> [fn |-> e.fn, m |-> e.arg.m, range |-> e.arg.range]]
AggregateApplicable(e) ==
  e.k = "agg" /\ e.fn \in AggFns /\ e.arg.k \in {"sel", "subst"} /\ ~(e.arg.k = "subst" /\ IsAgg(e.arg.req))
SubstituteAgg(e) ==
  [k |-> "subst", off |-> 0,
   req |-> [fn |-> e.fn, by |-> e.by, labels |-> e.labels,
            main |-> IF e.arg.k = "sel" THEN NewInstantVector(e.arg.m) ELSE e.arg.req]]
Optimize(e) == CASE VectorRangeApplicable(e) -> SubstituteRange(e)
                 [] AggregateApplicable(e) -> SubstituteAgg(e)
                 [] OTHER -> e
RECURSIVE Transpile(_)
Transpile(e) == Optimize(IF e.k \in {"call", "agg"} THEN [e EXCEPT !.arg = Transpile(e.arg)] ELSE e)

(************************* Selectors of the engine *************************)
InstantVectors == {"", "abs", "timestamp"}
RangeVectors == {"absent_over_time", "deriv", "idelta", "irate", "stddev_over_time"} \cup (RangeFns \ {"changes"})
(* The functions the map names as not supported by the 15 s table.         *)
KnownUnsupported == {"quantile_over_time", "stddev_over_time", "stdvar_over_time"}
RateFunctions == {"deriv", "rate", "delta"}

(* The hints of the engine for a selector under a function.                *)
Hints(q, node, fn) ==
  LET range == IF node.k = "mat" THEN node.range ELSE 0
      back == IF node.k = "mat" THEN node.range ELSE Staleness
  IN  [start |-> q.start - node.off - back + 1, end |-> q.end - node.off, step |-> q.step, range |-> range, func |-> fn]

AdjustHintsForRate(h) ==
  IF (h.func \in RateFunctions /\ h.step > h.range \div 2) \/ h.step = 0
  THEN [h EXCEPT !.step = Max({h.range \div 2, Bucket})] ELSE h
AdjustHints(h0, compat) ==
  LET h == AdjustHintsForRate(h0) IN IF compat THEN h ELSE [h EXCEPT !.start = Floor(h.start, Bucket)]
UseRawData(h) ==
  h.start % Bucket # 0 \/ h.step < Bucket \/ (h.range > 0 /\ h.range < Bucket) \/ h.func \in KnownUnsupported

Values(db, ctx, ms) ==
  LET fps == StreamSelect(db, ctx.from, ms)
  IN  {s \in db : s.fp \in fps /\ ctx.from < s.ts /\ s.ts <= ctx.to}

(* The last sample of each step, counted from the start of the hints.      *)
HintsGrid(rows, h) ==
  LET stamp(r) == ((r.ts - h.start + h.step - 1) \div h.step) * h.step + h.start
  IN  {[fp |-> r.fp, ts |-> stamp(r), val |-> Latest({x \in rows : x.fp = r.fp /\ stamp(x) = stamp(r)}).val] : r \in rows}

HintsFilter(rows, h) ==
  IF h.func \in RangeVectors /\ h.step > h.range
  THEN {r \in rows : r.ts % h.step = 0 \/ r.ts % h.step >= h.step - h.range} ELSE rows

RawRows(db, ctx, h, ms) ==
  LET rows == Values(db, ctx, ms)
  IN  HintsFilter(IF h.func \in InstantVectors THEN HintsGrid(rows, h) ELSE rows, h)

ValueMerge(fn, r) ==
  CASE fn \in {"absent_over_time", "present_over_time"} -> 1
    [] fn = "min_over_time" -> r.min
    [] fn = "max_over_time" -> r.max
    [] fn = "sum_over_time" -> r.sum
    [] fn = "count_over_time" -> r.cnt
    [] fn = "avg_over_time" -> r.sum \div r.cnt
    [] OTHER -> r.last
DownsampleRows(db, ctx, h, ms) ==
  LET fps == StreamSelect(db, ctx.from, ms)
      read == {r \in Metrics15s(db) : r.fp \in fps /\ ctx.from < r.ts /\ r.ts <= ctx.to}
      sparse == h.func \in RangeVectors /\ h.step > h.range
      kept == {r \in read : sparse => r.ts % h.step = 0 \/ r.ts % h.step > h.step - h.range}
      stamp(r) == IF sparse THEN Floor(r.ts + h.range, h.step) ELSE Floor(r.ts, h.step) - (IF ctx.compat THEN 1 ELSE 0)
  IN  {[fp |-> r.fp, ts |-> r.ts, val |-> ValueMerge(h.func, r)] : r \in GroupRows(kept, stamp)}

(******************************** Select ***********************************)
IsProlong(h, node) == node.k # "subst" /\ (h.func \in RateFunctions \/ h.func = "") /\ h.step # 0
Rows(db, q, h, node) ==
  LET ctx == [from |-> h.start - h.range, to |-> h.end, step |-> h.step, native |-> q.native, compat |-> q.compat]
  IN  CASE node.k = "subst" -> RequestRows(db, ctx, node.req)
        [] node.k # "subst" /\ UseRawData(h) -> RawRows(db, ctx, h, node.m)
        [] OTHER -> DownsampleRows(db, ctx, h, node.m)
(* Mutant: the labels are read from the day the hints start on.            *)
FoundLabelsToday(db, h, fp) == IF \E r \in TimeSeries(db) : r.fp = fp /\ r.date >= h.start \div Day THEN fp ELSE <<>>

(* The labels come after the rows, in the answer to the same request, of   *)
(* the days the series were selected on; nothing is left to ask for then.  *)
FoundLabels(db, h, fp) ==
  IF \E r \in TimeSeries(db) : r.fp = fp /\ r.date >= FormatFromDate(h.start - h.range) THEN fp ELSE <<>>

(* A range function drops the metric name, an aggregation has made its own *)
(* labels, also from the days of the selection.                            *)
LabelsGetter(db, h, node, fp) ==
  CASE node.k # "subst" -> FoundLabels(db, h, fp)
    [] node.k = "subst" /\ IsAgg(node.req) -> fp
    [] OTHER -> Drop(FoundLabels(db, h, fp), {"n"})
SortByTs(rows) ==
  [i \in 1 .. Cardinality(rows) |-> CHOOSE r \in rows : Cardinality({x \in rows : x.ts < r.ts}) = i - 1]
(* The first series of a label set also gets the samples of the others.    *)
ReshuffleSeries(series) ==
  [i \in DOMAIN series |->
    IF \E j \in 1 .. i - 1 : series[j].labels = series[i].labels THEN series[i]
    ELSE LET same == SelectSeq(series, LAMBDA s : s.labels = series[i].labels)
             all == FlattenSeq([j \in DOMAIN same |-> same[j].samples])
         IN  [series[i] EXCEPT !.samples = IF Len(same) = 1 THEN all ELSE SortSeq(all, LAMBDA a, b : a.ts < b.ts)]]

SeriesOf(rows, db, h, node) ==
  LET fps == SetToSeq({r.fp : r \in rows})
  IN  [i \in DOMAIN fps |->
        [labels |-> LabelsGetter(db, h, node, fps[i]), samples |-> SortByTs({r \in rows : r.fp = fps[i]}),
         prolong |-> IsProlong(h, node), step |-> h.step]]
SelectWith(db, q, h, node) == ReshuffleSeries(SeriesOf(Rows(db, q, h, node), db, h, node))
Select(db, q, node, fn) == SelectWith(db, q, AdjustHints(Hints(q, node, fn), q.compat), node)

(******************************* Iterators *********************************)
(* Where a search for a stamp ends: the index probed last.                 *)
RECURSIVE Probe(_, _, _, _, _)
Probe(s, t, l, u, idx) ==
  IF u <= l THEN idx
  ELSE LET i == (u + l) \div 2
       IN  CASE s[i + 1].ts = t -> i
             [] s[i + 1].ts < t -> Probe(s, t, i + 1, u, i)
             [] OTHER -> Probe(s, t, l, i, i)

Seek(s, t) == IF t <= s[1].ts THEN 1 ELSE Probe(s, t, 0, Len(s), 0) + 1

(* A sample again at every step until the next one or past the staleness.  *)
Carried(s, i, step) ==
  LET more(k) == (k - 1) * step <= Staleness /\ (i < Len(s) => s[i].ts + (k - 1) * step < s[i + 1].ts)
      n == Max({0} \cup {k \in 1 .. Staleness \div step + 1 : more(k)})
  IN  [k \in 1 .. n + 1 |-> [s[i] EXCEPT !.ts = s[i].ts + (k - 1) * step]]

Prolonged(s, step) ==
  FlattenSeq([i \in DOMAIN s |-> IF 1 < i /\ i < Len(s) /\ s[i].ts >= s[i + 1].ts THEN <<>> ELSE Carried(s, i, step)])
Iterator(x) == IF x.prolong THEN Prolonged(x.samples, x.step) ELSE x.samples

(******************************** Engine ***********************************)
(* The engine reads a series through an iterator that remembers: asked for *)
(* a time it first seeks back ahead of it, when it has not got that far,   *)
(* and goes on from where the series landed until it is there.  Seeking    *)
(* starts the carrying anew, at the sample it lands on.                    *)
SeekTo(x, t) == [run |-> Iterator([x EXCEPT !.samples = SubSeq(@, Seek(@, t), Len(@))]), i |-> 1]
Advance(x, it, t, back) ==
  LET ended == it.i > Len(it.run)
      at == IF ~ended /\ it.run[it.i].ts < t - back THEN SeekTo(x, t - back) ELSE it
      there == {i \in at.i .. Len(at.run) : at.run[i].ts >= t}
  IN  [at EXCEPT !.i = IF there = {} THEN Len(at.run) + 1 ELSE Min(there)]
(* The iterator at each of the times, one after the other.                 *)
Visits(x, times, back) ==
  LET visit(its, t) == Append(its, Advance(x, IF its = <<>> THEN SeekTo(x, t - back) ELSE Last(its), t, back))
  IN  FoldLeft(visit, <<>>, times)

(* The sample of a series at a step: the last one up to it, if not stale.  *)
UpTo(it, t) == IF it.i <= Len(it.run) /\ it.run[it.i].ts = t THEN it.i ELSE it.i - 1
At(it, t) == LET i == UpTo(it, t) IN IF i > 0 /\ it.run[i].ts > t - Staleness THEN <<it.run[i].val>> ELSE <<>>
InRange(it, t, range) == SelectSeq(SubSeq(it.run, 1, UpTo(it, t)), LAMBDA s : t - range < s.ts)

StepTimes(q) ==
  IF q.step = 0 THEN <<q.start>> ELSE [k \in 1 .. (q.end - q.start) \div q.step + 1 |-> q.start + (k - 1) * q.step]
Steps(q) == ToSet(StepTimes(q))
Selected(db, q, node, fn) ==
  LET steps == StepTimes(q)
      times == [k \in DOMAIN steps |-> steps[k] - node.off]
      back == IF node.k = "mat" THEN node.range ELSE Staleness - 1
      of(it, t) == IF node.k = "mat" THEN LET s == InRange(it, t, node.range) IN IF s = <<>> THEN <<>> ELSE <<s>>
                   ELSE At(it, t)
      labels(x) == IF node.k = "mat" THEN Drop(x.labels, {"n"}) ELSE x.labels
      points(x) == LET its == Visits(x, times, back)
                       at == [k \in DOMAIN steps |-> of(its[k], times[k])]
                   IN  {[labels |-> labels(x), t |-> steps[k], val |-> at[k][1]] : k \in {j \in DOMAIN steps : at[j] # <<>>}}
  IN  UNION {points(x) : x \in ToSet(Select(db, q, node, fn))}
(* A function of a range stands for the samples it is given.               *)
RECURSIVE Eval(_, _, _, _)
Eval(db, q, e, fn) ==
  CASE e.k \in {"sel", "mat", "subst"} -> Selected(db, q, e, fn)
    [] e.k = "call" -> Eval(db, q, e.arg, e.fn)
    [] e.k = "agg" ->
         LET vec == Eval(db, q, e.arg, e.fn)
             key(v) == [labels |-> PatchLabels(e, v.labels), t |-> v.t]
         IN  {k @@ [val |-> PatchVal(e.fn, {v \in vec : key(v) = k})] : k \in {key(v) : v \in vec}}

(******************************* Requests **********************************)
RECURSIVE Fits(_, _)
Fits(step, e) ==
  CASE e.k = "subst" -> RangeFits([step |-> step], IF IsAgg(e.req) THEN e.req.main ELSE e.req)
    [] e.k \in {"call", "agg"} -> Fits(step, e.arg)
    [] OTHER -> TRUE
Error(code) == [code |-> code, points |-> {}]
WriteMatrix(points) == [code |-> 200, points |-> points]
WriteVector(points) == [code |-> 200, points |-> points]
Transpiled(q) == [q EXCEPT !.expr = Transpile(q.expr)]
(* A time not given is 0.                                                  *)
ParseQueryRangeProps(q, now) ==
  [q EXCEPT !.start = IF @ = 0 THEN now - SixHours ELSE @, !.end = IF @ = 0 THEN now ELSE @]
ParseQueryInstantProps(q, now) == LET t == IF q.start = 0 THEN now ELSE q.start IN [q EXCEPT !.start = t, !.end = t, !.step = 0]
Grid(q) == [q EXCEPT !.start = Floor(q.start, Bucket), !.end = Ceil(q.end, Bucket)]
QueryRange(db, p, now) ==
  LET q == Grid(ParseQueryRangeProps(p, now))
      x == Transpiled(q)
  IN  CASE q.step <= 0 -> Error(400)
        [] q.step > 0 /\ (q.end - q.start) \div q.step > MaxPoints -> Error(500)
        [] OTHER -> IF Fits(q.step, x.expr) THEN WriteMatrix(Eval(db, x, x.expr, "")) ELSE Error(500)
QueryInstant(db, p, now) ==
  LET x == Transpiled(ParseQueryInstantProps(p, now))
  IN  IF Fits(Bucket, x.expr) THEN WriteVector(Eval(db, x, x.expr, "")) ELSE Error(500)

=============================================================================
