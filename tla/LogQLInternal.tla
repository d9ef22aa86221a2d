---------------------------- MODULE LogQLInternal ----------------------------
(***************************************************************************)
(* The stages of a script that internal/planner runs in the reader, over   *)
(* the entries that the SQL part yields.  Each stage is a goroutine that   *)
(* maps batches of entries to batches of entries; how they are scheduled   *)
(* is the subject of QueryPipeline, what they compute is here.             *)
(***************************************************************************)
EXTENDS LogQLScript

CONSTANT MaxSeries   \* series an aggregator takes, 2000 in the code

InternalFail(err) == [err |-> err, entries |-> {}]
Entries(S) == [err |-> "", entries |-> S]

(********************************* Filters *********************************)
EvalLine(fn, e, line) ==
  CASE fn = "|=" -> e.val \in line.subs
    [] fn = "!=" -> e.val \notin line.subs
    [] fn = "|~" -> line.subs \cap e.re # {}
    [] fn = "!~" -> line.subs \cap e.re = {}
LineFilter(st, S) == {e \in S : Chain(st.exp, LAMBDA x : EvalLine(st.fn, x, e.line))}

EvalLabel(f, labels) ==
  IF f.numeric THEN Get(labels, f.label) # "" /\ NumberHolds(f, Get(labels, f.label))
  ELSE StringHolds(f, Get(labels, f.label))
LabelFilter(st, S) == {e \in S : Chain(st.exp, LAMBDA f : EvalLabel(f, e.labels))}

(****************************** Label changes ******************************)
Relabelled(e, labels) == [e EXCEPT !.labels = labels, !.fp = CanonicalFp(labels)]

(* The fingerprint is computed again only when a label went away.          *)
Recount(e, labels) == IF labels = e.labels THEN e ELSE Relabelled(e, labels)

IsNamed(st, p) == \E i \in DOMAIN st.params : p[1] = st.params[i].label
                                               /\ st.params[i].val \in {"", p[2]}
IsSpecialKeepLabel(p) == p[1] \in {ErrorLabel, ErrorDetails}
Drop(st, S) == {Recount(e, {p \in e.labels : ~IsNamed(st, p)}) : e \in S}
Keep(st, S) == {Recount(e, {p \in e.labels : IsSpecialKeepLabel(p) \/ IsNamed(st, p)}) : e \in S}

(* label_format sets a label to a constant, or to another label unless     *)
(* that one is empty, one after the other; the fingerprint stays.          *)
FormatLabel(labels, op) ==
  IF op.const # "" THEN Put(labels, op.label, op.const)
  ELSE IF Get(labels, op.from) = "" THEN labels ELSE Put(labels, op.label, Get(labels, op.from))
LabelFormat(st, S) == {[e EXCEPT !.labels = FoldLeft(FormatLabel, @, st.params)] : e \in S}

(* The line becomes the value of a label: what the template prints.        *)
LineFormat(st, S) ==
  {LET v == Get(e.labels, st.label)
   IN  [e EXCEPT !.line = [EmptyLine EXCEPT !.tokens = {v} \ {""}, !.subs = {v, ""}, !.size = 1]] : e \in S}

(********************************* Parsers *********************************)
(* json with and without parameters skips what is missing or empty;        *)
(* logfmt takes the fields of a line of that format.  A line it cannot     *)
(* read keeps its labels and gets the error labels.                        *)
ParsedLabels(st, line) ==
  IF st.fn = "json" /\ st.params # <<>>
  THEN {<<st.params[i].label, Get(line.fields, st.params[i].path)>> :
          i \in {j \in DOMAIN st.params : \E p \in line.fields : p[1] = st.params[j].path}}
  ELSE {p \in line.fields : p[2] # "" \/ st.fn = "logfmt"}
ErrorType == [json |-> "JSONParserErr", logfmt |-> "LogfmtParserErr"]
ParseLine(st, e) ==
  Relabelled(e, Update(e.labels,
                       IF e.line.object THEN ParsedLabels(st, e.line)
                       ELSE {<<ErrorLabel, ErrorType[st.fn]>>, <<ErrorDetails, st.fn>>}))
Parser(st, S) == {ParseLine(st, e) : e \in S}

Unwrap(st, S) ==
  {[e EXCEPT !.value = NumberOf[Get(e.labels, st.label)] * Unit] :
     e \in {q \in S : Get(q.labels, st.label) \in DOMAIN NumberOf}}

InternalStage(res, st) ==
  IF res.err # "" THEN res
  ELSE CASE st.kind = "linefilter" -> IF st.fn = "|>" THEN InternalFail("not supported")
                                      ELSE Entries(LineFilter(st, res.entries))
         [] st.kind = "labelformat" -> Entries(LabelFormat(st, res.entries))
         [] st.kind = "labelfilter" -> Entries(LabelFilter(st, res.entries))
         [] st.kind = "lineformat" -> Entries(LineFormat(st, res.entries))
         [] st.kind = "unwrap" -> Entries(Unwrap(st, res.entries))
         [] st.kind = "parser" -> IF st.fn = "regexp" THEN InternalFail("not supported")
                                  ELSE Entries(Parser(st, res.entries))
         [] st.kind = "drop" -> Entries(Drop(st, res.entries))
         [] st.kind = "keep" -> Entries(Keep(st, res.entries))

(******************************* Aggregators *******************************)
(* Buckets are counted from the start of the window, which FixPeriod has   *)
(* put on a multiple of the duration.                                      *)
BucketIndex(ctx, dur, e) == (e.ts - ctx.from) \div dur
BucketStart(ctx, dur, i) == ctx.from + i * dur
StreamLen(ctx, dur) == (ctx.to - ctx.from) \div dur

Aggregate(ctx, dur, S, Value(_, _)) ==
  LET group(fp, i) == {e \in S : e.fp = fp /\ BucketIndex(ctx, dur, e) = i}
      keys == {<<e.fp, BucketIndex(ctx, dur, e)>> : e \in S}
      labelsOf(fp) == (CHOOSE e \in S : e.fp = fp).labels
  IN  {Entry(k[1], BucketStart(ctx, dur, k[2]), k[1], labelsOf(k[1]), EmptyLine,
             Value(BucketStart(ctx, dur, k[2]), group(k[1], k[2]))) : k \in keys}

InternalLra(ctx, lra, S) ==
  Aggregate(ctx, lra.dur, S,
            LAMBDA b, es : RangeValue(lra.fn, es, lra.dur, Covered(b, lra.dur, ctx.from, ctx.to, ctx.now)))

(* Each series of the window is absent in its buckets until an entry       *)
(* clears one, the first excepted.                                         *)
AbsentOverTime(ctx, lra, S) ==
  UNION {{Entry(fp, BucketStart(ctx, lra.dur, i), fp, (CHOOSE e \in S : e.fp = fp).labels, EmptyLine, Unit) :
            i \in {j \in 0..(StreamLen(ctx, lra.dur) - 1) :
                     j = 0 \/ \A e \in S : e.fp = fp => BucketIndex(ctx, lra.dur, e) # j}} :
         fp \in {e.fp : e \in S}}

(* min_over_time keeps the larger value, as max_over_time does; first and  *)
(* last go by the order of arrival, newest first unless the query asks     *)
(* otherwise, and first takes a zero for unset.                            *)
UnwrapAgg(ctx, lra, S) ==
  LET nonzero(es) == {e \in es : e.value # 0}
      first(es) == IF ctx.asc THEN Earliest(es) ELSE Latest(es)
      last(es) == IF ctx.asc THEN Latest(es) ELSE Earliest(es)
      value(b, es) ==
        LET covered == Covered(b, lra.dur, ctx.from, ctx.to, ctx.now)
        IN CASE lra.fn = "rate" -> Total(es) \div covered
             [] lra.fn = "sum_over_time" -> (Total(es) * lra.dur) \div covered
             [] lra.fn = "avg_over_time" -> Total(es) \div Cardinality(es)
             [] lra.fn \in {"max_over_time", "min_over_time"} -> Max(Values(es))
             [] lra.fn = "first_over_time" -> IF nonzero(es) = {} THEN 0 ELSE first(nonzero(es)).value
             [] lra.fn = "last_over_time" -> last(es).value
  IN  Aggregate(ctx, lra.dur, S, value)

InternalByWithout(by, S) ==
  IF by.fn = "" THEN S ELSE {Relabelled(e, CutLabels(e.labels, by)) : e \in S}

InternalComparison(cmp, S) ==
  IF cmp.fn = "" THEN S ELSE {e \in S : Compare(cmp.fn, e.value, cmp.val * Unit)}

InternalAggOp(ctx, dur, fn, S) == Aggregate(ctx, dur, S, LAMBDA b, es : AggValue(fn, es))

CanSwapByWithout(outer, inner) ==
  \/ outer = "sum" /\ inner \in {"count_over_time", "rate", "bytes_over_time", "bytes_rate", "sum_over_time"}
  \/ <<outer, inner>> \in {<<"max", "max_over_time">>, <<"min", "min_over_time">>}

AggregationOf(agg) == IF agg.by.fn = "" THEN [fn |-> "by", labels |-> {}] ELSE agg.by

(* An aggregator that meets too many series sends an error and ends; the   *)
(* ZeroEater behind it takes the error for a zero.                         *)
TooMany(S) == Cardinality({e.fp : e \in S}) > MaxSeries

(* sum over rates of disjoint groups is the rate of their union, so the    *)
(* labels may be cut first.                                                *)
PlanAggregators(ctx, s, S) ==
  LET swap == HasAgg(s) /\ ~HasUnwrap(s) /\ CanSwapByWithout(s.agg.fn, s.lra.fn) /\ s.lra.cmp.fn = ""
      ranged(T) == IF s.lra.fn = "absent_over_time" THEN AbsentOverTime(ctx, s.lra, T)
                   ELSE IF HasUnwrap(s) THEN UnwrapAgg(ctx, s.lra, InternalByWithout(s.lra.by, T))
                   ELSE InternalLra(ctx, s.lra, T)
      by == AggregationOf(s.agg)
      outer(T) == InternalAggOp(ctx, s.lra.dur, s.agg.fn, InternalByWithout(by, T))
  IN  IF TooMany(IF swap THEN InternalByWithout(by, S) ELSE S) THEN {}
      ELSE IF swap THEN InternalComparison(s.agg.cmp, ranged(InternalByWithout(by, S)))
      ELSE IF ~HasAgg(s) THEN InternalComparison(s.lra.cmp, ranged(S))
      ELSE InternalComparison(s.agg.cmp, outer(InternalComparison(s.lra.cmp, ranged(S))))

(* Entries come newest first, or oldest first for a query that asks so.    *)
InternalLimit(ctx, S) ==
  LET ahead(e, f) == IF ctx.asc THEN e.ts < f.ts ELSE e.ts > f.ts
  IN  IF ctx.limit = 0 \/ Cardinality(S) <= ctx.limit THEN S
      ELSE CHOOSE T \in SUBSET S : /\ Cardinality(T) = ctx.limit
                                   /\ \A e \in T, f \in S \ T : ~ahead(f, e)

InternalPlan(ctx, s, S) ==
  LET piped == FoldLeft(InternalStage, Entries(S), s.pipe)
  IN  IF HasTopK(s) \/ IsQuantile(s) \/ s.agg.fn \in {"stddev", "stdvar"} THEN InternalFail("not supported")
      ELSE IF piped.err # "" THEN piped
      ELSE IF IsStream(s) THEN Entries(InternalLimit(ctx, piped.entries))
      ELSE Entries(PlanAggregators(ctx, s, piped.entries))
=============================================================================
