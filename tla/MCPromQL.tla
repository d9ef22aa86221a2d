------------------------------ MODULE MCPromQL ------------------------------
(***************************************************************************)
(* Samples of three series arrive around a midnight, in any order and      *)
(* number up to MaxPushes, and one question of every kind is answered.     *)
(***************************************************************************)
EXTENDS LabelQueries

CONSTANT MaxPushes

(******************************* Instances *********************************)
A == [n |-> "m", job |-> "a"]
B == [n |-> "m", job |-> "b"]
C == [n |-> "k", job |-> "a"]
S(fp, ts, val) == [fp |-> fp, ts |-> ts, val |-> val]
Samples == {S(A, 78, 48), S(A, 85, 24), S(A, 87, 72), S(A, 93, 24), S(A, 99, 48), S(A, 112, 24),
            S(B, 84, 48), S(B, 96, 24), S(B, 109, 72), S(C, 90, 24)}

Is(name, val) == [name |-> name, op |-> "=", val |-> val]
OfM == {Is("n", "m")}
OfJob == {Is("job", "a")}
NotB == {Is("n", "m"), [name |-> "job", op |-> "!=", val |-> "b"]}
Sel(m) == [k |-> "sel", m |-> m, off |-> 0]
Call(fn, m, range) == [k |-> "call", fn |-> fn, arg |-> [k |-> "mat", m |-> m, off |-> 0, range |-> range]]
Agg(fn, by, labels, arg) == [k |-> "agg", fn |-> fn, by |-> by, labels |-> labels, arg |-> arg]

OverTimes == {Call(fn, OfM, 8) : fn \in OverTimeFns} \cup {Call("sum_over_time", OfJob, 12), Call("max_over_time", NotB, 12)}
Counters == {Call("increase", OfM, 12), Call("rate", OfM, 24), Call("delta", OfM, 12), Call("increase", OfM, 24)}
Flags == {Call("resets", OfM, 12), Call("changes", OfM, 20)}
Aggs == {Agg("sum", TRUE, {}, Sel(OfM)), Agg("avg", FALSE, {"job"}, Sel(OfM)), Agg("count", TRUE, {"job"}, Sel(OfJob)),
         Agg("min", FALSE, {}, Sel(OfJob)), Agg("group", TRUE, {"n"}, Sel(OfJob)),
         Agg("sum", TRUE, {}, Call("count_over_time", OfM, 8)), Agg("max", FALSE, {"job"}, Call("sum_over_time", OfJob, 8))}
AggOfAgg == {Agg("max", TRUE, {}, Agg("sum", TRUE, {"job"}, Sel(OfM)))}
Selectors == {Sel(OfM)}
Ranges == {Call(fn, OfM, r) : fn \in {"idelta", "stddev_over_time"}, r \in {3, 8}}
            \cup {Call("absent_over_time", OfM, 8), Call("deriv", OfM, 12)}
Offsets == {[k |-> "sel", m |-> OfM, off |-> 8],
            [k |-> "call", fn |-> "idelta", arg |-> [k |-> "mat", m |-> OfM, off |-> 8, range |-> 8]]}
Large == {Call("increase", OfM, 32)}

Q(start, end, step, native, compat, expr) ==
  [start |-> start, end |-> end, step |-> step, native |-> native, compat |-> compat, expr |-> expr]
Now == 90
(* Every fourth tick is a bucket; 16 ticks are the staleness.              *)
Windows == {<<96, 112, 8>>, <<93, 109, 4>>, <<100, 124, 12>>, <<80, 120, 20>>}
Queries ==
  {Q(w[1], w[2], w[3], native, FALSE, e) : w \in Windows, native \in BOOLEAN, e \in OverTimes \cup Counters \cup Flags \cup Aggs}
    \cup {Q(w[1], w[2], w[3], TRUE, FALSE, e) : w \in Windows, e \in Selectors \cup Ranges \cup AggOfAgg \cup Offsets}
    \cup {Q(w[1], w[2], w[3], TRUE, TRUE, e) : w \in Windows, e \in Selectors \cup Ranges}
    \cup {Q(98, 106, 2, TRUE, FALSE, e) : e \in Selectors \cup Ranges \cup AggOfAgg}
    \cup {Q(0, 0, 4, TRUE, FALSE, e) : e \in Selectors \cup Counters}
    \cup {Q(100, 112, step, TRUE, FALSE, e) : step \in {0, 1, 4}, e \in Large \cup Selectors}
Instants == {Q(t, t, 0, TRUE, FALSE, e) : t \in {0, 99, 112}, e \in Selectors \cup Ranges \cup Counters}

Row(date, fp, type, meta, upd) == [date |-> date, fp |-> fp, type |-> type, meta |-> meta, upd |-> upd]
RowsToCome == {Row(0, A, 2, "t1", 1), Row(1, A, 2, "t2", 2), Row(1, B, 2, "bad", 3), Row(1, C, 0, "t3", 4),
               Row(1, [job |-> "a"], 1, "", 5), Row(1, [job |-> "b"], 2, "t4", 6), Row(0, C, 2, "", 7)}
MCOrder == <<"", "k", "m">>
Lists ==
  {[kind |-> kind, prom |-> prom, get |-> get, start |-> w[1], end |-> w[2], match |-> m, name |-> "job"] :
     kind \in {"labels", "values", "series"}, prom \in BOOLEAN, get \in BOOLEAN,
     w \in {<<0, 0>>, <<70, 75>>, <<81, 88>>}, m \in {{}, {OfM}, {OfJob, OfM}}}
Metas == {[kind |-> "metadata", metric |-> n, limit |-> l, per |-> p] : n \in {"", "m"}, l \in {0, 1}, p \in {0, 2}}

(**************************** State and steps ******************************)
VARIABLES db,      \* samples stored
          rows,    \* rows of time_series, for the lists
          ask,     \* the question under way, [kind |-> "none"] for none
          answer
vars == <<db, rows, ask, answer>>

None == [kind |-> "none"]
Init == db = {} /\ rows = {} /\ ask = None /\ answer = {}
Push(s) == /\ ask = None /\ rows = {} /\ Cardinality(db) < MaxPushes /\ s \notin db
           /\ db' = db \cup {s} /\ UNCHANGED <<rows, ask, answer>>
Register(r) == /\ ask = None /\ db = {} /\ Cardinality(rows) < MaxPushes /\ r \notin rows
               /\ rows' = rows \cup {r} /\ UNCHANGED <<db, ask, answer>>
AskRange(q) == /\ ask = None /\ rows = {} /\ ask' = [kind |-> "range", q |-> Grid(ParseQueryRangeProps(q, Now))]
               /\ answer' = QueryRange(db, q, Now)
               /\ UNCHANGED <<db, rows>>
AskInstant(q) == /\ ask = None /\ rows = {} /\ ask' = [kind |-> "instant", q |-> ParseQueryInstantProps(q, Now)]
                 /\ answer' = QueryInstant(db, q, Now)
                 /\ UNCHANGED <<db, rows>>
AskList(p) == /\ ask = None /\ rows # {} /\ ask' = p
              /\ answer' = CASE p.kind = "labels" -> LabelsQuery(rows, p, Now)
                             [] p.kind = "values" -> ValuesQuery(rows, p, Now)
                             [] p.kind = "series" -> SeriesQuery(rows, p, Now)
                             [] p.kind = "metadata" -> Metadata(rows, p)
              /\ UNCHANGED <<db, rows>>
Close == ask # None /\ ask' = None /\ answer' = {} /\ UNCHANGED <<db, rows>>
Next == \/ \E s \in Samples : Push(s)
        \/ \E r \in RowsToCome : Register(r)
        \/ \E q \in Queries : AskRange(q)
        \/ \E q \in Instants : AskInstant(q)
        \/ \E p \in Lists \cup Metas : AskList(p)
        \/ Close
Spec == Init /\ [][Next]_vars

(******************************* Reference *********************************)
(* What the properties compare the answers with, from the samples alone.   *)
q0 == ask.q
e0 == q0.expr
Asked(exprs) == ask.kind \in {"range", "instant"} /\ answer.code = 200 /\ e0 \in exprs
Step == IF q0.step = 0 THEN Bucket ELSE q0.step
SelStart == Floor(q0.start - Staleness + 1, Bucket)
(* A series last seen on a day before the one the selection starts at.     *)
Forgotten(fp) == \A s \in db : s.fp = fp => s.ts \div Day < FormatFromDate(SelStart)
Fps(m) == {fp \in {s.fp : s \in db} : ~Forgotten(fp) /\ \A x \in m : MatcherHolds(x, fp)}

(* The step bucket of a sample that is read.                               *)
StepOf(s) == Floor(Floor(s.ts, Bucket), Step)
Stored(fp) == {s \in db : s.fp = fp /\ Floor(s.ts, Bucket) <= q0.end}
Within(fp, lo, hi) == {s \in Stored(fp) : lo <= StepOf(s) /\ StepOf(s) <= hi}
Real(fp, t) == Within(fp, t, t) # {}
GridPoints == {k * Step : k \in 0 .. q0.end \div Step}
(* A step the query is evaluated at, the last one for real rows only, and  *)
(* not for them when the fill is an arrayJoin (see FillFormsAgree).        *)
Evaluated(fp, t) == t < q0.end \/ (q0.native /\ Real(fp, t))
(* The grid point whose value the engine shows at a step.                  *)
Shown(t, Has(_)) == {g \in GridPoints : t - Staleness < g /\ g <= t /\ Has(g)}

RefOverTime(fn, W) ==
  CASE fn = "sum_over_time" -> SumBy(W, LAMBDA s : s.val)
    [] fn = "count_over_time" -> Cardinality(W)
    [] fn = "min_over_time" -> Min({s.val : s \in W})
    [] fn = "max_over_time" -> Max({s.val : s \in W})
    [] fn = "avg_over_time" -> SumBy(W, LAMBDA s : s.val) \div Cardinality(W)
    [] fn = "last_over_time" -> Latest(W).val
    [] fn = "present_over_time" -> 1
RangeOf(fp, g, range) == Within(fp, g - range + 1, g)

(* The last value of each step bucket of a range, in order.                *)
Chain(fp, lo, hi) ==
  LET steps == SetToSortSeq({StepOf(s) : s \in Within(fp, lo, hi)}, LAMBDA a, b : a < b)
  IN  [i \in DOMAIN steps |-> [ts |-> steps[i], val |-> Latest(Within(fp, steps[i], steps[i])).val]]
OpenChain(fp, g, range) == Chain(fp, g - range - Staleness, g - range)
CloseChain(fp, g, range) == Chain(fp, g - range + 1, g)
(* From the last value before the range on.                                *)
FullChain(fp, g, range) ==
  LET open == OpenChain(fp, g, range)
  IN  (IF open = <<>> THEN <<>> ELSE <<Last(open)>>) \o CloseChain(fp, g, range)
Gapless(c) == \A i \in 1 .. Len(c) - 1 : c[i + 1].ts - c[i].ts <= Max({Step, Staleness})
Growth(c) == SumBy(1 .. Len(c) - 1, LAMBDA i : IF c[i + 1].val < c[i].val THEN c[i + 1].val ELSE c[i + 1].val - c[i].val)
Pairs(c, Moved(_, _)) == Cardinality({i \in 1 .. Len(c) - 1 : Moved(c[i].val, c[i + 1].val)})

(******************************* Properties ********************************)
(* over_time.go, fill_gaps.go, shared.go: through the 15 s table, the      *)
(* filled steps, the window frames and the engine, a point of              *)
(* fn_over_time(x[r]) is fn of the samples whose step bucket is in the     *)
(* range of the last step that has any.  A range without samples yields no *)
(* row of its own (over_time.go:107), but the engine, which looks back for *)
(* the staleness, shows the row of the last step that has one.  The last   *)
(* step of the query has a row only for a sample of its own, and with the  *)
(* arrayJoin fill not even then.  Two series whose labels differ in        *)
(* the name share their points (prom_queryable.go ReshuffleSeries).        *)
OverTimeMeansItsBuckets ==
  Asked(OverTimes) =>
    LET fn == e0.fn
        range == e0.arg.range
        shown(fp, t) == Shown(t, LAMBDA g : RangeOf(fp, g, range) # {} /\ Evaluated(fp, g))
        value(fp, t) == RefOverTime(fn, RangeOf(fp, Max(shown(fp, t)), range))
        due == UNION {{[labels |-> Drop(fp, {"n"}), t |-> t, val |-> value(fp, t)] : t \in {u \in Steps(q0) : shown(fp, u) # {}}} :
                        fp \in Fps(e0.arg.m)}
        when(P) == {[labels |-> p.labels, t |-> p.t] : p \in P}
    IN  /\ answer.points \subseteq due
        /\ when(answer.points) = when(due)

(* counter.go CounterPlanner: rate, increase and delta follow the counter  *)
(* from the last value before the range through every reset inside it; an  *)
(* increase is never negative.  (A reset behind a gap wider than the       *)
(* staleness is not seen, and a step over five minutes that does not       *)
(* divide the range counts a reset from before it.)                        *)
IncreaseIsGrowth ==
  (Asked(Counters) /\ (Step <= Staleness \/ e0.arg.range % Step = 0)) =>
    LET range == e0.arg.range
        has(fp, g) == CloseChain(fp, g, range) # <<>> /\ Len(OpenChain(fp, g, range)) + Len(CloseChain(fp, g, range)) > 1
                        /\ Evaluated(fp, g)
        shown(fp, t) == Shown(t, LAMBDA g : has(fp, g))
        chain(fp, t) == FullChain(fp, Max(shown(fp, t)), range)
        grown(c) == IF e0.fn = "delta" THEN Last(c).val - c[1].val ELSE Growth(c)
        value(c) == IF e0.fn = "rate" THEN grown(c) \div range ELSE grown(c)
        of(fp, t) == {p \in answer.points : p.labels = Drop(fp, {"n"}) /\ p.t = t}
    IN  \A fp \in Fps(e0.arg.m), t \in Steps(q0) :
          IF shown(fp, t) = {} THEN of(fp, t) = {}
          ELSE /\ Cardinality(of(fp, t)) = 1
               /\ Gapless(chain(fp, t)) => \A p \in of(fp, t) : p.val = value(chain(fp, t))

(* counter.go CounterFlagsPlanner: resets and changes count the moves      *)
(* between two step values that are both in the range, never the one that  *)
(* leads into it.                                                          *)
TransitionsCounted ==
  Asked(Flags) =>
    LET range == e0.arg.range
        shown(fp, t) == Shown(t, LAMBDA g : CloseChain(fp, g, range) # <<>> /\ Evaluated(fp, g))
        chain(fp, t) == CloseChain(fp, Max(shown(fp, t)), range)
        value(c) == IF e0.fn = "resets" THEN Pairs(c, LAMBDA a, b : b < a) ELSE Pairs(c, LAMBDA a, b : a # b)
        of(fp, t) == {p \in answer.points : p.labels = Drop(fp, {"n"}) /\ p.t = t}
    IN  \A fp \in Fps(e0.arg.m), t \in Steps(q0) :
          IF shown(fp, t) = {} THEN of(fp, t) = {}
          ELSE /\ Cardinality(of(fp, t)) = 1
               /\ Gapless(chain(fp, t)) => \A p \in of(fp, t) : p.val = value(chain(fp, t))

(* The groups of an aggregation, and the function of each series' samples  *)
(* that it combines.                                                       *)
AggOver == IF e0.arg.k = "sel" THEN [m |-> e0.arg.m, range |-> Staleness, fn |-> "last_over_time"]
           ELSE [m |-> e0.arg.arg.m, range |-> e0.arg.arg.range, fn |-> e0.arg.fn]
GroupOf(fp) == LET kept == IF e0.by THEN e0.labels \cap DOMAIN fp ELSE DOMAIN fp \ (e0.labels \cup {"n"})
               IN  [l \in kept |-> fp[l]]
AggGroups == {GroupOf(fp) : fp \in Fps(AggOver.m)}
Alive(g, k) == {fp \in Fps(AggOver.m) : GroupOf(fp) = k /\ RangeOf(fp, g, AggOver.range) # {}}
Combined(fps, g) == PatchVal(e0.fn, {[fp |-> fp, val |-> RefOverTime(AggOver.fn, RangeOf(fp, g, AggOver.range))] : fp \in fps})

(* sum.go AggPlanner, instant_vector.go: at each step an aggregation       *)
(* combines every series of the group that had a sample in the last five   *)
(* minutes, or in the range of the function below it, those without one of *)
(* their own at the step included; at the end of the query only those with *)
(* one, and none at all when the fill is an arrayJoin (see the findings).  *)
(* The groups are told apart by their labels alone.                        *)
AggCombinesLiveSeries ==
  Asked(Aggs) =>
    LET live(g, k) == {fp \in Alive(g, k) : Evaluated(fp, g)}
        shown(t, k) == Shown(t, LAMBDA g : live(g, k) # {})
        value(g, k) == Combined(live(g, k), g)
    IN  answer.points = UNION {{[labels |-> k, t |-> t, val |-> value(Max(shown(t, k)), k)] :
                                  t \in {u \in Steps(q0) : shown(u, k) # {}}} : k \in AggGroups}

(* instant_vector.go:14-16: an aggregation sits on the filled steps "so    *)
(* that every series alive at a step contributes there, rather than only   *)
(* the ones that happen to have a raw sample landing on that exact step".  *)
(* At the end of the query it is the other way round.                      *)
EveryLiveSeriesContributes ==
  (Asked(Aggs) /\ q0.native) =>
    \A p \in answer.points :
      (\E fp \in Alive(p.t, p.labels) : Real(fp, p.t)) => p.val = Combined(Alive(p.t, p.labels), p.t)

(* fill_gaps.go:39: "Both produce identical rows": what is answered does   *)
(* not depend on whether the server knows WITH FILL STALENESS, but for a   *)
(* series with a sample in the step the query ends at, where they differ:  *)
(* range() leaves out its end.                                             *)
FillFormsAgree ==
  (Asked(OverTimes \cup Counters \cup Flags \cup Aggs) /\ q0.native) =>
    LET other == Transpiled([q0 EXCEPT !.native = FALSE])
        read == IF e0 \in Aggs THEN AggOver.m ELSE e0.arg.m
    IN  (\A fp \in Fps(read) : ~Real(fp, q0.end)) => answer.points = Eval(db, other, other.expr, "")

(* What a bare selector shows of what is read under the hints h.           *)
FreshUnder(h, raw) ==
  LET stamp(s) == IF raw THEN h.start + Ceil(s.ts - h.start, h.step)
                  ELSE Floor(Floor(s.ts, Bucket), h.step) - (IF q0.compat THEN 1 ELSE 0)
      read(fp) == {s \in db : s.fp = fp /\ LET ts == IF raw THEN s.ts ELSE Floor(s.ts, Bucket) IN h.start < ts /\ ts <= h.end}
      before(fp, t) == {s \in read(fp) : stamp(s) < t}
      own(fp, t) == {s \in read(fp) : stamp(s) = t}
      age(b, t) == t - stamp(Latest(b))
      of(fp, t) == {p.val : p \in {x \in answer.points : x.labels = fp /\ x.t = t}}
      value(W) == {Latest(W).val : x \in W}
      fresh(b, o, P, t) ==
        IF b # {} /\ age(b, t) < Staleness THEN P = value(b)
        ELSE /\ P \subseteq value(o) \cup (IF b # {} /\ age(b, t) < 2 * Staleness + h.step THEN value(b) ELSE {})
             /\ o # {} => Cardinality(P) = 1
  IN  \A fp \in Fps(e0.m), t \in Steps(q0) : fresh(before(fp, t), own(fp, t), of(fp, t), t)

(* prom_queryable.go, hints.go, downsample_hints.go, prometheus.go: at a   *)
(* step a bare selector shows the last value of the newest step bucket     *)
(* before it while that one is not stale.  A stale one is shown, or its    *)
(* own bucket is, as the iterator carries it on or not, depending on where *)
(* the engine's seek lands, but never once it is older than the carrying   *)
(* and the lookback together; its own bucket is not passed over for none.  *)
BareSelectorIsFresh ==
  Asked(Selectors) =>
    LET h == AdjustHints(Hints(q0, e0, ""), q0.compat) IN FreshUnder(h, UseRawData(h))

(* hints.go:51, downsample_hints.go:43: what a step longer than the range  *)
(* lets the reader skip is outside of every range the engine looks at, if  *)
(* the steps are multiples of the step; the function gets all samples of   *)
(* its range, or the last value of every step bucket in it.                *)
RangesKeepTheirSamples ==
  (Asked(Ranges) /\ e0.fn # "deriv") =>
    LET h == AdjustHints(Hints(q0, e0.arg, e0.fn), q0.compat)
        range == e0.arg.range
        aligned == q0.start % h.step = 0
        known == {fp \in {s.fp : s \in db} : (\A x \in e0.arg.m : MatcherHolds(x, fp))
                    /\ \E s \in db : s.fp = fp /\ s.ts \div Day >= FormatFromDate(h.start - h.range)}
        bare(s) == [ts |-> s.ts, val |-> s.val]
        inside(fp, t) == {bare(s) : s \in {x \in db : x.fp = fp /\ t - range < x.ts /\ x.ts <= t}}
        shift == IF q0.compat THEN 1 ELSE 0
        one(x) == IF e0.fn = "absent_over_time" THEN 1 ELSE x
        buckets(fp, t) ==
          IF h.step > range
          THEN LET b == {s \in Stored(fp) : t - range < Floor(s.ts, Bucket) /\ Floor(s.ts, Bucket) <= t}
               IN  IF b = {} THEN {} ELSE {[ts |-> t, val |-> one(Latest(b).val)]}
          ELSE LET in == {s \in Stored(fp) : t - range < Floor(s.ts, h.step) - shift /\ Floor(s.ts, h.step) - shift <= t}
               IN  {[ts |-> b - shift, val |-> one(Latest({s \in in : Floor(s.ts, h.step) = b}).val)] : b \in {Floor(s.ts, h.step) : s \in in}}
        due(fp, t) == IF UseRawData(h) THEN inside(fp, t) ELSE buckets(fp, t)
        of(fp, t) == {p \in answer.points : p.labels = Drop(fp, {"n"}) /\ p.t = t}
    IN  (h.step > range => aligned) =>
          \A fp \in known, t \in Steps(q0) :
            IF due(fp, t) = {} THEN of(fp, t) = {}
            ELSE \E p \in of(fp, t) : [i \in DOMAIN p.val |-> bare(p.val[i])] = SortByTs(due(fp, t))

(* prom_queryable.go: a selector with an offset shows what the same        *)
(* selector without it shows in the window moved back by the offset.       *)
OffsetMovesTheWindow ==
  Asked(Offsets) =>
    LET off == IF e0.k = "sel" THEN e0.off ELSE e0.arg.off
        plain == IF e0.k = "sel" THEN [e0 EXCEPT !.off = 0] ELSE [e0 EXCEPT !.arg.off = 0]
        back == [q0 EXCEPT !.start = @ - off, !.end = @ - off, !.expr = plain]
    IN  answer.points = {[p EXCEPT !.t = @ + off] : p \in Eval(db, back, plain, "")}

(* prometheus.go prolongSeriesIt: carrying the values of a selector on     *)
(* loses none of them, never goes back in time, repeats a time only where  *)
(* the next sample takes over, and ends a step past the staleness.         *)
ProlongedInOrder ==
  Asked(Selectors) =>
    \A x \in ToSet(Select(db, q0, e0, "")) :
      LET s == Iterator(x)
          own == ToSet(x.samples)
      IN  /\ own \subseteq ToSet(s)
          /\ \A i \in DOMAIN s : /\ i > 1 => s[i - 1].ts < s[i].ts \/ (s[i - 1].ts = s[i].ts /\ s[i] \in own)
                                 /\ \E y \in own : y.val = s[i].val /\ y.ts <= s[i].ts /\ s[i].ts <= y.ts + Staleness + x.step

(* labels.go LabelsPlanner, prom_queryable.go: the labels of a selected    *)
(* series come from the days its samples may be of, and so no point is     *)
(* ever shown without them, across midnight, under an offset or carried    *)
(* on.                                                                     *)
PointsAreNamed ==
  Asked(Selectors \cup Ranges \cup Offsets \cup OverTimes \cup Counters \cup Flags) =>
    \A p \in answer.points : "job" \in DOMAIN p.labels

(* prometheus.go Seek: a search for a time never passes a sample after it  *)
(* and lands at most one sample early.                                     *)
SeekNeverSkips ==
  Asked(Selectors \cup OverTimes) =>
    \A x \in ToSet(Select(db, q0, Transpile(e0), "")) : \A t \in 70 .. 124 :
      LET s == x.samples
          i == Seek(s, t)
      IN  i \in DOMAIN s /\ (\A j \in 1 .. i - 1 : s[j].ts <= t) /\ (\A j \in i + 1 .. Len(s) : s[j].ts >= t)

(* query_abels.go, query_labels.go, prom_query_labels.go: unless a GET     *)
(* leaves the end out, the names listed are those of all series seen from  *)
(* the start on to the end, today included.                                *)
NamesCoverTheWindow ==
  (ask.kind = "labels" /\ (ask.match = {} \/ ~ask.prom) /\ ~(ask.prom /\ ask.get /\ ask.end = 0)) =>
    LET from == IF ask.start = 0 THEN Now - SixHours ELSE ask.start
        to == IF ask.end = 0 THEN Now ELSE ask.end
    IN  \A r \in rows : (r.type \in {TypeOf(ask), 0} /\ from \div Day <= r.date /\ r.date <= to \div Day) => DOMAIN r.fp \subseteq answer.list

(* query_abels.go Values, Series: the values of a label for some matches   *)
(* are those of the series the same matches list when posted: a GET of the *)
(* series that leaves the end out has another window than one of values.   *)
ValuesComeFromSeries ==
  (ask.kind = "values" /\ ask.match # {}) =>
    answer.list = {fp["job"] : fp \in {x \in SeriesQuery(rows, [ask EXCEPT !.get = FALSE], Now).list : "job" \in DOMAIN x}}

(* metadata.go Metadata: every named metric whose newest entries parse is  *)
(* told once, with exactly those, newest first.                            *)
MetadataTold ==
  (ask.kind = "metadata" /\ ask.limit = 0) =>
    LET per == IF ask.per > 0 THEN ask.per ELSE 1
        of(n) == SetToSortSeq({r \in rows : r.meta # "" /\ MetricName(r) = n}, LAMBDA a, b : a.upd > b.upd)
        good(n) == SelectSeq(SubSeq(of(n), 1, Min({per, Len(of(n))})), LAMBDA r : r.meta # "bad")
        told(n) == SelectSeq(answer, LAMBDA x : x.metric = n)
    IN  \A n \in {"k", "m"} :
          told(n) = IF good(n) = <<>> \/ ask.metric \notin {"", n} THEN <<>>
                    ELSE <<[metric |-> n, entries |-> [i \in DOMAIN good(n) |-> good(n)[i].meta]]>>

(* over_time.go, counter.go, fill_gaps.go: the functions that are answered *)
(* by SQL compute what they mean on the samples of their range, whichever  *)
(* of its two forms the fill has.                                          *)
FunctionsMeanTheirSamples ==
  /\ OverTimeMeansItsBuckets
  /\ IncreaseIsGrowth
  /\ TransitionsCounted
  /\ FillFormsAgree

(* prom_queryable.go, hints.go, prometheus.go: what the engine reads of a  *)
(* selector is every sample it needs, in order, fresh, in the window of    *)
(* the offset and under its labels.                                        *)
SelectorsShowTheirSamples ==
  /\ BareSelectorIsFresh
  /\ RangesKeepTheirSamples
  /\ OffsetMovesTheWindow
  /\ ProlongedInOrder
  /\ SeekNeverSkips
  /\ PointsAreNamed

(* query_abels.go, metadata.go: listings of names, values and metadata     *)
(* tell all series of the window and agree with each other.                *)
ListingsCoverTheWindow ==
  /\ NamesCoverTheWindow
  /\ ValuesComeFromSeries
  /\ MetadataTold
=============================================================================
