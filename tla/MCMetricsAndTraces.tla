------------------------- MODULE MCMetricsAndTraces -------------------------
(***************************************************************************)
(* Samples that are pushed and asked for by PromQL, or spans by TraceQL:   *)
(* two parts of the system that share no state.  A run is about one of     *)
(* them, chosen at the start, and the other stays as it is at first.       *)
(***************************************************************************)
EXTENDS MCPromQL

VARIABLES part, traceDb, pushed, traceAsk, traceAnswer

NumOf(s) == CASE s = "1" -> <<1>> [] s = "2" -> <<2>> [] OTHER -> <<>>
Hash(tid) == CASE tid = "t1" -> 1 [] tid = "t2" -> 2 [] OTHER -> 3
Match(val, re) == re = ".*" \/ val = re

Traces == INSTANCE MCTraces WITH db <- traceDb, ask <- traceAsk, answer <- traceAnswer,
            Ms <- 2, MsPerSecond <- 2, Day <- 24, Hour <- 8, MaxLine <- 8, MaxSpans <- 2,
            MaxTraceRows <- 3, ShortIds <- {"short"}, Threshold <- 3, MetricsMaxPoints <- 3,
            MaxPushes <- 3

traceVars == <<traceDb, pushed, traceAsk, traceAnswer>>
bothVars == <<part, vars, traceVars>>

BothInit == Init /\ Traces!Init /\ part \in {"metrics", "traces"}

OfMetrics(step) == part = "metrics" /\ step /\ UNCHANGED <<part, traceVars>>
OfTraces(step) == part = "traces" /\ step /\ UNCHANGED <<part, vars>>

BothNext == OfMetrics(Next) \/ OfTraces(Traces!Next)

BothSpec == BothInit /\ [][BothNext]_bothVars

(******************************* Properties ********************************)
(* otlp.go, zipkin_json.go, tempo.go, sql_index_query.go: a stored span is *)
(* shown in its trace, is indexed as its own, and is found by its tags.    *)
SpansAreFound == Traces!SpansAreFound

(* traceql_transpiler: a TraceQL search answers what the query means, in   *)
(* one statement or in portions, or fails because the query is not         *)
(* supported.                                                              *)
SearchesMeanQueries == Traces!SearchesMeanQueries

(* tempo_metrics.go, metrics_query.go, tempo.go: points, exemplars and     *)
(* comparisons are about the spans the filters select, on a grid of        *)
(* bounded size.                                                           *)
MetricsCountSpans == Traces!MetricsCountSpans
=============================================================================
