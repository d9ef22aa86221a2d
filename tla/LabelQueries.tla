---------------------------- MODULE LabelQueries ----------------------------
(***************************************************************************)
(* The label names, label values, series and metric metadata the reader    *)
(* lists from time_series, for the Loki and the Prometheus endpoints.      *)
(*                                                                         *)
(* A row is [date, fp, type, meta, upd]: the day a series was seen, its    *)
(* label set, 1 for logs, 2 for metrics or 0 for both, the metadata text   *)
(* ("" for none, "bad" for one that does not parse) and when it was        *)
(* written.  A match is a set of matchers; a time not given is 0.          *)
(***************************************************************************)
EXTENDS PromQL

CONSTANT MetricOrder       \* the metric names in the order of the texts, "" first

(* A GET of the Prometheus names or series ends six hours ago by default.  *)
GetLabelsParams(p, now) ==
  [from |-> IF p.start = 0 THEN now - SixHours ELSE p.start,
   to |-> IF p.end # 0 THEN p.end ELSE IF p.get THEN now - SixHours ELSE now]

ParseTimeParams(p, now) ==
  [from |-> IF p.start = 0 THEN now - SixHours ELSE p.start, to |-> IF p.end = 0 THEN now ELSE p.end]

TypeOf(p) == IF p.prom THEN 2 ELSE 1
InWindow(r, w, type) == r.type \in {type, 0} /\ FormatFromDate(w.from) <= r.date /\ r.date <= w.to \div Day
(* The series of any of the matches, without an upper day.                 *)
Fingerprints(rows, matches, w, type) ==
  UNION {SelectFingerprints({r \in rows : r.type \in {type, 0}}, w.from, m) : m \in matches}
Matching(rows, p, w) ==
  {r \in rows : InWindow(r, w, TypeOf(p)) /\ (p.match # {} => r.fp \in Fingerprints(rows, p.match, w, TypeOf(p)))}

LabelNames(rows, p, w) == UNION {DOMAIN r.fp : r \in Matching(rows, p, w)}
(* Mutant: the matches are ignored.                                        *)
LabelValuesAll(rows, p, name, w) ==
  {r.fp[name] : r \in {x \in rows : InWindow(x, w, TypeOf(p)) /\ name \in DOMAIN x.fp}}

LabelValues(rows, p, name, w) == {r.fp[name] : r \in {x \in Matching(rows, p, w) : name \in DOMAIN x.fp}}

SeriesOfMatch(rows, p, w) == {r.fp : r \in Matching(rows, p, w)}

Listed(names) == [code |-> 200, list |-> names]
Refuse == [code |-> 400, list |-> {}]
Window(p, now) == IF p.prom THEN GetLabelsParams(p, now) ELSE ParseTimeParams(p, now)
(* The names Loki's endpoint lists are those of all series, whatever the   *)
(* match; its series need one, those of Prometheus are none without it.    *)
LabelsQuery(rows, p, now) == Listed(LabelNames(rows, IF p.prom THEN p ELSE [p EXCEPT !.match = {}], Window(p, now)))
ValuesQuery(rows, p, now) == Listed(LabelValues(rows, p, p.name, ParseTimeParams(p, now)))
SeriesQuery(rows, p, now) ==
  CASE p.match = {} /\ ~p.prom -> Refuse
    [] p.match = {} /\ p.prom -> Listed({})
    [] OTHER -> Listed(SeriesOfMatch(rows, p, Window(p, now)))

(******************************** Metadata *********************************)
MetricName(r) == IF "n" \in DOMAIN r.fp THEN r.fp["n"] ELSE ""
(* The newest rows of each metric, all up to the limit.                    *)
MetadataRows(rows, p) ==
  LET noted == {r \in rows : r.meta # "" /\ (p.metric = "" \/ MetricName(r) = p.metric)}
      newer(r) == {x \in noted : MetricName(x) = MetricName(r) /\ x.upd > r.upd}
      top == {r \in noted : Cardinality(newer(r)) < (IF p.per > 0 THEN p.per ELSE 1)}
      metrics == {MetricName(r) : r \in top}
      of(n) == SetToSortSeq({r \in top : MetricName(r) = n}, LAMBDA a, b : a.upd > b.upd)
      order == FlattenSeq([i \in DOMAIN MetricOrder |-> IF MetricOrder[i] \in metrics THEN of(MetricOrder[i]) ELSE <<>>])
  IN  IF p.limit > 0 THEN SubSeq(order, 1, Min({p.limit, Len(order)})) ELSE order

FlushMetric(st) == IF st.metric = "" THEN st.out ELSE Append(st.out, [metric |-> st.metric, entries |-> st.entries])

MetadataStep(st, r) ==
  IF r.meta = "bad" THEN st
  ELSE IF st.metric # MetricName(r) THEN [out |-> FlushMetric(st), metric |-> MetricName(r), entries |-> <<r.meta>>]
  ELSE [st EXCEPT !.entries = Append(@, r.meta)]

Metadata(rows, p) ==
  FlushMetric(FoldLeft(MetadataStep, [out |-> <<>>, metric |-> "", entries |-> <<>>], MetadataRows(rows, p)))

=============================================================================
