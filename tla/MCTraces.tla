------------------------------ MODULE MCTraces ------------------------------
(***************************************************************************)
(* Clients push spans as OTLP and Zipkin, then one asks: for a trace, for  *)
(* traces by tags or by a TraceQL query, or for TraceQL metrics.           *)
(***************************************************************************)
EXTENDS TempoMetrics, TLC

CONSTANT MaxPushes

(****************************** Reference **********************************)
(* What a trace query means: a span meets a selector when its attributes   *)
(* and intrinsics do, && binding tighter than ||, and a trace is found for *)
(* its spans of the window that meet it.  And the queries for which the    *)
(* planners compute something else.                                        *)

AttrsOf(db, row) == {a \in db.attrs : a.tid = row.tid /\ a.sid = row.sid}
InWindow(row, q) == q.from <= row.ts /\ row.ts < q.to

TermMeets(db, row, t) ==
  CASE Constant(t) -> t.name # "false"
    [] Duration(t) -> Compare(t.op, row.dur, t.num)
    [] OTHER -> \E a \in AttrsOf(db, row) : GetTerm(t, a)

(* Some run of terms between two || holds as a whole.                      *)
ExpMeets(db, row, exp) ==
  LET n == Len(exp.terms)
      starts(i) == i = 1 \/ exp.ops[i - 1] = "||"
      ends(j) == j = n \/ exp.ops[j] = "||"
  IN  n = 0 \/ \E i, j \in 1 .. n :
        /\ i <= j /\ starts(i) /\ ends(j)
        /\ \A k \in i .. j : TermMeets(db, row, exp.terms[k])
        /\ \A k \in i .. j - 1 : exp.ops[k] = "&&"

MeantSpans(db, q, sel) == {r \in db.traces : InWindow(r, q) /\ ExpMeets(db, r, sel.exp)}
AggValue(db, agg, row) ==
  CASE agg.attr = "duration" -> <<row.dur>>
    [] agg.attr = "" -> <<>>
    [] OTHER -> LET v == {a \in AttrsOf(db, row) : a.key = agg.attr /\ NumOf(a.val) # <<>>}
                IN  IF v = {} THEN <<>> ELSE NumOf((CHOOSE a \in v : TRUE).val)
(* The traces of a selector, with the spans that meet it.                  *)
Meant(db, q, sel) ==
  LET spans == MeantSpans(db, q, sel)
      of(tid) == {r \in spans : r.tid = tid}
      kept(tid) == sel.agg = <<>> \/
        AggHolds(sel.agg[1], {[sid |-> r.sid, value |-> AggValue(db, sel.agg[1], r)] : r \in of(tid)})
  IN  {[tid |-> t, sids |-> {r.sid : r \in of(t)}, newest |-> Max({r.ts : r \in of(t)})] :
         t \in {x \in {r.tid : r \in spans} : kept(x)}}

(* A && chain that ends in a || is read as if the || were in parentheses.  *)
MisreadsPrecedence(exp) == \E i, j \in DOMAIN exp.ops : i < j /\ exp.ops[i] = "&&" /\ exp.ops[j] = "||"
(* The rows an intrinsic needs are dropped by the terms on attributes.     *)
DropsIntrinsics(sel) ==
  /\ \E t \in ToSet(sel.exp.terms) : ~InWhere(t)
  /\ AggAttr(sel) # {} \/ \E t \in ToSet(sel.exp.terms) : InWhere(t)
(* nestedSetParent < 0 is applied to the answer, after the limit.          *)
AsksForRoots(sel) == \E t \in ToSet(sel.exp.terms) : RootOnly(t)

(* Spans with two index rows of a key, which only repeated Zipkin tags and *)
(* the line by line decoder produce.                                       *)
RepeatedKeys(db) == \E a, b \in db.attrs : a # b /\ a.tid = b.tid /\ a.sid = b.sid /\ a.key = b.key

(******************************** Bodies ***********************************)
Str(k, s) == <<k, StrValue(s)>>
Num(k, s) == <<k, [kind |-> "int", str |-> s, fixed |-> "", items |-> <<>>]>>
Dbl(k, s, f) == <<k, [kind |-> "double", str |-> s, fixed |-> f, items |-> <<>>]>>
KvList(k, items) == <<k, [kind |-> "kvlist", str |-> "", fixed |-> "", items |-> items]>>
Span(tid, sid, parent, name, start, end, kind, status, attrs) ==
  [tid |-> tid, sid |-> sid, parent |-> parent, name |-> name, start |-> start, end |-> end,
   kind |-> kind, status |-> status, attrs |-> attrs]
Resource(name, spans) == [described |-> TRUE, resource |-> <<Str("service.name", name)>>, spans |-> spans]
Fld(key, val) == [key |-> key, val |-> val]

OtlpBodies ==
  << <<Resource("svcA", <<Span("t1", "s1", "", "get", 5, 9, "server", "ok", <<Str("a", "1"), Num("b", "2")>>),
                          Span("t1", "s2", "s1", "db", 6, 8, "client", "error", <<Str("a", "2")>>)>>)>>,
     <<Resource("svcB", <<Span("t2", "s3", "", "get", 12, 20, "server", "ok",
                               <<Str("a", "1"), Str("peer.service", "svcC"), Dbl("d", "1.5", "1.500000")>>)>>)>>,
     <<Resource("svcA", <<Span("t1", "s8", "s1", "late", 30, 31, "server", "ok",
                               <<Str("a", "1"), KvList("m", <<Num("b", "2")>>)>>)>>),
       [described |-> TRUE, resource |-> <<>>, spans |-> <<Span("t4", "s9", "", "odd", 13, 14, "client", "ok", <<>>)>>]>>,
     <<Resource("svcA", <<Span("t5", "sx", "", "get", 7, 8, "server", "ok", <<>>)>>),
       [described |-> FALSE, resource |-> <<>>, spans |-> <<Span("t5", "sy", "", "get", 7, 8, "server", "ok", <<>>)>>]>> >>
ZipkinBodies ==
  << << <<Fld("traceId", "t3"), Fld("id", "s5"), Fld("parentId", "short"), Fld("timestamp", 15), Fld("duration", 1),
          Fld("name", "put")>>,
        <<Fld("traceId", "t3"), Fld("id", "s6"), Fld("timestamp", 16), Fld("duration", 2), Fld("tags", <<Str("a", "2")>>)>>,
        <<Fld("traceId", "t3"), Fld("id", "s4"), Fld("timestamp", 14), Fld("duration", 3), Fld("name", "get"),
          Fld("localEndpoint", "svcA"), Fld("remoteEndpoint", "svcD"), Fld("kind", "CLIENT"),
          Fld("tags", <<Str("a", "1"), Num("b", "2"), Str("otel.status_code", "ERROR")>>)>> >> >>

Windows == {[from |-> 1, to |-> 40], [from |-> 6, to |-> 15], [from |-> 6, to |-> 30]}

(******************************** Queries **********************************)
T(scope, name, op, kind, val) == [scope |-> scope, name |-> name, op |-> op, kind |-> kind, val |-> val, num |-> 0]
TN(scope, name, op, kind, n) == [scope |-> scope, name |-> name, op |-> op, kind |-> kind, val |-> "", num |-> n]
Exp(terms, ops) == [terms |-> terms, ops |-> ops]
NoneExp == Exp(<<>>, <<>>)
Sel(exp) == [kind |-> "sel", exp |-> exp, agg |-> <<>>]
SelAgg(exp, fn, attr, cmp, num, unit) ==
  [kind |-> "sel", exp |-> exp, agg |-> <<[fn |-> fn, attr |-> attr, cmp |-> cmp, num |-> num, unit |-> unit]>>]
A1 == T("dot", "a", "=", "str", "1")
A2 == T("span", "a", "=", "str", "2")
B2 == TN("dot", "b", ">=", "num", 2)
Long == TN("", "duration", ">", "time", 2)
Root == TN("", "nestedSetParent", "<", "num", 0)
Get == T("", "name", "=", "str", "get")
Err == T("", "status", "=", "bare", "error")
SvcA == T("resource", "service.name", "=", "str", "svcA")
Other == T("dot", "a", "!=", "str", "1")
Rex == T("dot", "a", "=~", "str", ".*")
Nil == T("dot", "a", "!=", "nil", "")
NoUnit == TN("", "duration", ">", "num", 2)

Sels ==
  << Sel(NoneExp), Sel(Exp(<<A1>>, <<>>)), Sel(Exp(<<SvcA>>, <<>>)), Sel(Exp(<<Get>>, <<>>)),
     Sel(Exp(<<A1, B2>>, <<"&&">>)), Sel(Exp(<<Err, A2>>, <<"&&">>)), Sel(Exp(<<Long, A2>>, <<"||">>)),
     Sel(Exp(<<A1, B2, A2>>, <<"&&", "||">>)), Sel(Exp(<<A2, A1, B2>>, <<"||", "&&">>)), Sel(Exp(<<Root>>, <<>>)),
     Sel(Exp(<<Err>>, <<>>)), Sel(Exp(<<Other>>, <<>>)), Sel(Exp(<<Rex, Long>>, <<"&&">>)), Sel(Exp(<<Nil>>, <<>>)),
     Sel(Exp(<<NoUnit>>, <<>>)), SelAgg(Exp(<<Rex>>, <<>>), "count", "", ">", 1, FALSE),
     SelAgg(Exp(<<Get>>, <<>>), "avg", "duration", ">", 3, TRUE), SelAgg(Exp(<<Get>>, <<>>), "max", "b", ">=", 2, FALSE),
     SelAgg(Exp(<<Get>>, <<>>), "sum", "duration", ">", 3, FALSE), SelAgg(NoneExp, "count", "", ">", 0, FALSE) >>
One(sel) == [args |-> <<sel>>, ops |-> <<>>]
Paren(script) == [kind |-> "paren", inner |-> script]
Joined(l, op, r) == [args |-> <<l, r>>, ops |-> <<op>>]
ScriptsOf(sels) ==
  {One(sels[i]) : i \in DOMAIN sels}
    \cup {Joined(sels[i], op, sels[j]) : i \in {2, 4}, j \in {3, 11, 16}, op \in {"&&", "||"}}
    \cup {Joined(sels[1], "||", sels[2]), One(Paren(One(sels[2]))), One(Paren(One(Paren(One(sels[2]))))),
          Joined(Paren(One(sels[2])), "&&", sels[3]), Joined(Paren(Joined(sels[2], "||", sels[3])), "&&", sels[4]),
          [args |-> <<sels[2], sels[3], sels[4]>>, ops |-> <<"||", "||">>],
          [args |-> <<sels[2], sels[3], sels[4], sels[11]>>, ops |-> <<"&&", "&&", "&&">>]}
Scripts == ScriptsOf(Sels)

Tag(key, cond, val) == [key |-> key, cond |-> cond, val |-> val]
TagSets == {<<>>, <<Tag("a", "=", "1")>>, <<Tag("a", "=~", ".*"), Tag("name", "!=", "db")>>,
            <<Tag("service.name", "!~", "svcB")>>}

Lbl(scope, name) == [scope |-> scope, name |-> name]
Comp(exp, topN, from, to) == [exp |-> exp, topN |-> topN, from |-> from, to |-> to]
Filters == {One(Sel(NoneExp)), One(Sel(Exp(<<A2>>, <<>>))), One(Sel(Exp(<<SvcA, Get>>, <<"&&">>))),
            One(Sel(Exp(<<Long>>, <<>>))), Joined(Sels[3], "&&", Sels[4]), One(Sel(Exp(<<Root>>, <<>>)))}
Groupings == {<<>>, <<Lbl("", "name")>>, <<Lbl("", "name"), Lbl("span", "a")>>, <<Lbl("span", "a"), Lbl("", "name")>>}
Fns == {"rate", "count_over_time", "max_over_time", "quantile_over_time", "histogram_over_time", "compare", "unknown"}
Comps == {Comp(Exp(<<A2>>, <<>>), 0, 0, 0), Comp(Exp(<<Get>>, <<>>), 1, 0, 0), Comp(Exp(<<Get>>, <<>>), 0, 1, 6)}

(******************************* The machine *******************************)
VARIABLES db,      \* the tables
          pushed,  \* the bodies that were pushed
          ask,     \* the question
          answer

vars == <<db, pushed, ask, answer>>

Sids(tid) == {r.sid : r \in {x \in db.traces : x.tid = tid}}

None == [err |-> "none"]
NoAsk == [kind |-> "none"]

Init == db = EmptyDb /\ pushed = {} /\ ask = NoAsk /\ answer = None

Pushing == ask = NoAsk /\ Cardinality(pushed) < MaxPushes
Push(kind, i) ==
  /\ <<kind, i>> \notin pushed
  /\ pushed' = pushed \cup {<<kind, i>>}
  /\ UNCHANGED <<ask, answer>>

OTLPPush == /\ Pushing
            /\ \E i \in DOMAIN OtlpBodies : Push("otlp", i) /\ db' = PushOtlp(db, OtlpBodies[i]).db
ZipkinPush == /\ Pushing
              /\ \E i \in DOMAIN ZipkinBodies : Push("zipkin", i) /\ db' = PushZipkin(db, ZipkinBodies[i])
ZipkinNDPush == /\ Pushing
                /\ \E i \in DOMAIN ZipkinBodies : Push("nd", i) /\ db' = PushZipkinND(db, ZipkinBodies[i])

Ask(q, a) == ask = NoAsk /\ ask' = q /\ answer' = a /\ UNCHANGED <<db, pushed>>

AskTrace ==
  \E tid \in {"t1", "t3"}, end \in {0, 3}, accept \in {"protobuf", "json"} :
    Ask([kind |-> "trace", tid |-> tid, end |-> end, accept |-> accept], Trace(db, tid, 0, end, accept))
AskTags ==
  \E from \in {0, 1, 25}, q \in {"none", "empty", "cond"}, scope \in {"dot", ""} :
    LET tag == [scope |-> scope, name |-> "a", text |-> IF scope = "" THEN "status" ELSE ".a"]
    IN  Ask([kind |-> "tags", from |-> from, q |-> q, tag |-> tag],
            [names |-> TagsV2(db, q, from, 40), values |-> ValuesV2(db, tag, q, from, 40)])
AskSearch ==
  \E tags \in TagSets, w \in Windows \cup {[from |-> 0, to |-> 0]}, d \in {<<0, 0>>, <<2, 6>>}, limit \in {2, 9} :
    LET q == [tags |-> tags, from |-> w.from, to |-> w.to, min |-> d[1], max |-> d[2], limit |-> limit]
    IN  Ask([kind |-> "search", q |-> q], Search(db, q))
AskTraceQL ==
  \E s \in Scripts, w \in Windows, limit \in {1, 3}, newest \in BOOLEAN :
    LET q == [script |-> s, from |-> w.from, to |-> w.to, limit |-> limit, newest |-> newest]
    IN  /\ ~newest => \E r \in db.traces : Cardinality(Sids(r.tid)) > MaxSpans
        /\ Ask([kind |-> "traceql", q |-> q], SearchTraceQL(db, q))

Request(s, fn, by, comp, from, to, step) ==
  [script |-> s, fn |-> fn, p |-> <<3, 4>>,
   attr |-> CASE fn \in {"rate", "count_over_time", "compare"} -> ""
              [] fn = "quantile_over_time" -> "span:duration"
              [] OTHER -> "duration",
   by |-> by, comp |-> comp, from |-> from, to |-> to, step |-> step]
AskMetrics ==
  \E s \in Filters, fn \in Fns, by \in Groupings, comp \in Comps, step \in {0, 3, 4} :
    /\ fn # "compare" => comp = Comp(Exp(<<A2>>, <<>>), 0, 0, 0)
    /\ fn \in {"compare", "histogram_over_time", "unknown"} => by = <<>>
    /\ LET req == ParseMetricsRequest(Request(s, fn, by, comp, 6, 32, step), 40)
       IN  Ask([kind |-> "metrics", req |-> req],
               [range |-> MetricsQueryRange(db, req), instant |-> MetricsQueryInstant(db, req)])
AskWide ==
  \E days \in {1, 7, 12, 100} :
    LET req == ParseMetricsRequest(Request(One(Sel(NoneExp)), "rate", <<>>, Comp(NoneExp, 0, 0, 0), 1, days * Day, 0), 60 * Day)
    IN  Ask([kind |-> "wide", req |-> req], [range |-> MetricsQueryRange(db, req)])

Next == \/ OTLPPush \/ ZipkinPush \/ ZipkinNDPush
        \/ AskTrace \/ AskTags \/ AskSearch \/ AskTraceQL \/ AskMetrics \/ AskWide

Spec == Init /\ [][Next]_vars

(******************************* Properties ********************************)
NoND == \A p \in pushed : p[1] # "nd"
Q == ask.q
Of(kind) == ask.kind = kind

(* otlp.go, zipkin_json.go, traces_query.go, convert.go: a trace asked for *)
(* as a whole has every span that was stored, unless the read is cut at    *)
(* MaxTraceRows or at a span whose payload was not kept; and the texts of  *)
(* an attribute that is shown are the ones the index finds it by, but for  *)
(* the service, which peer.service overrides, doubles, lists, and Zipkin's *)
(* endpoints.                                                              *)
TraceShowsWhatIsIndexed ==
  (Of("trace") /\ ask.end = 0) =>
    /\ (NoND /\ Cardinality(Sids(ask.tid)) <= MaxTraceRows) => {s.sid : s \in answer.spans} = Sids(ask.tid)
    /\ \A s \in answer.spans, p \in UNION {x.attrs : x \in answer.spans} :
         (NoND /\ p \in s.attrs /\ p[1] \notin {"service.name", "d", "m", "b", "remoteService.name",
                                         "localEndpoint.serviceName", "remoteEndpoint.serviceName"})
           => \E a \in db.attrs : a.tid = s.tid /\ a.sid = s.sid /\ a.key = p[1] /\ a.val = p[2]

(* zipkin_json.go, otlp.go: a span is indexed under its own attributes and *)
(* its resource's only, whatever was pushed in the same body, but for the  *)
(* line by line format, whose decoder keeps the fields it has read.        *)
SpansOwnTheirIndex ==
  LET own == {"name", "kind", "status", "service.name"}
      zipkinHas(f, a) == CASE f.key = "tags" -> \E i \in DOMAIN f.val : f.val[i][1] = a.key /\ f.val[i][2].str = a.val
                           [] f.key \in {"localEndpoint", "remoteEndpoint"} -> a.val = f.val
                           [] OTHER -> FALSE
      has(r, a) == \/ a.key \in own
                   \/ r.ptype = "otlp" /\ \E p \in ToSet(r.payload.attrs) :
                        \/ p[1] = a.key
                        \/ p[2].kind = "kvlist" /\ \E i \in DOMAIN p[2].items : a.key = p[1] \o "." \o p[2].items[i][1]
                   \/ r.ptype = "zipkin" /\ \E i \in DOMAIN r.payload.fields : zipkinHas(r.payload.fields[i], a)
  IN  NoND => \A a \in db.attrs : \E r \in db.traces : r.tid = a.tid /\ r.sid = a.sid /\ has(r, a)

(* sql_index_query.go, tempo.go: the search by tags answers the spans that *)
(* have every tag, newest first, inside the window and the durations, and  *)
(* leaves one out only for a newer one.                                    *)
TagSearchExact ==
  LET meets(r) == /\ \A i \in DOMAIN Q.tags :
                       \E a \in AttrsOf(db, r) : a.key = Q.tags[i].key /\ TagHolds(Q.tags[i].cond, a.val, Q.tags[i].val)
                  /\ Q.from = 0 \/ r.ts > Q.from
                  /\ Q.to = 0 \/ r.ts <= Q.to
                  /\ Q.min = 0 \/ DurMs(r) > Q.min \div Ms
                  /\ Q.max = 0 \/ DurMs(r) <= Q.max \div Ms
      wanted == {r \in db.traces : meets(r)}
  IN  Of("search") =>
        /\ \A i \in DOMAIN answer : \E r \in wanted : r.tid = answer[i].tid /\ r.ts = answer[i].start
        /\ Len(answer) = Min({Q.limit, Cardinality(wanted)})
        /\ \A i, j \in DOMAIN answer : i < j => answer[i].start >= answer[j].start

OneSelector == Single(Q.script) /\ Q.script.args[1].kind = "sel"
InPortions(plan) == plan.err = "" /\ Complexity(db, PlanContext(Q), plan.tree) >= Threshold
Portioned == InPortions(PlanAll(Q.script))
(* A portion that fills the answer moves the window to the start of the    *)
(* oldest trace, which may lie before the window.                          *)
StartsEarlier == \E i \in DOMAIN answer.traces : answer.traces[i].start < Q.from

(* traceql_transpiler: a selector finds traces for the spans that meet it, *)
(* shows them all or MaxSpans of them, and leaves a trace out only for     *)
(* newer ones; a && finds only traces that both operands find, and a ||    *)
(* every trace of either.                                                  *)
SearchMeansQuery ==
  LET found(tid) == \E i \in DOMAIN answer.traces : answer.traces[i].tid = tid
      sound(sel, i) == \E m \in Meant(db, Q, sel) : m.tid = answer.traces[i].tid
                         /\ (answer.traces[i].sids \subseteq m.sids)
      complete(sel) == \A m \in Meant(db, Q, sel) :
        found(m.tid) \/ (Len(answer.traces) = Q.limit /\ \A i \in DOMAIN answer.traces :
                           \E x \in Meant(db, Q, sel) : x.tid = answer.traces[i].tid /\ x.newest >= m.newest)
      shown(sel, i) == \E m \in Meant(db, Q, sel) : m.tid = answer.traces[i].tid
                         /\ Cardinality(answer.traces[i].sids) = Min({MaxSpans, Cardinality(m.sids)})
      one == Q.script.args[1]
      sels == [i \in DOMAIN Q.script.args |-> Q.script.args[i]]
      clean(s) == s.kind = "sel" /\ ~MisreadsPrecedence(s.exp) /\ ~DropsIntrinsics(s) /\ ~AsksForRoots(s)
  IN  (Of("traceql") /\ answer.err = "" /\ ~(Portioned /\ StartsEarlier)) =>
        CASE OneSelector ->
               /\ ~MisreadsPrecedence(one.exp) => \A i \in DOMAIN answer.traces : sound(one, i)
               /\ clean(one) /\ one.exp.terms # <<>> => complete(one) /\ \A i \in DOMAIN answer.traces : shown(one, i)
          [] Len(sels) = 2 /\ (\A i \in 1 .. 2 : clean(sels[i])) ->
               /\ Q.script.ops[1] = "&&" =>
                    \A i \in DOMAIN answer.traces : sound(sels[1], i) /\ sound(sels[2], i)
               /\ Q.script.ops[1] = "||" =>
                    /\ \A i \in DOMAIN answer.traces : \E k \in 1 .. 2 : \E m \in Meant(db, Q, sels[k]) : m.tid = answer.traces[i].tid
                    /\ Len(answer.traces) < Q.limit => \A k \in 1 .. 2 : \A m \in Meant(db, Q, sels[k]) : found(m.tid)
          [] OTHER -> TRUE

(* planner.go: one selector, and two joined by an operator, are answered   *)
(* when their terms are supported; everything longer fails.                *)
SearchErrorsHaveCause ==
  LET args == Q.script.args
      unsupported(s) == \/ \E t \in ToSet(s.exp.terms) : ~Supported(t)
                        \/ s.agg # <<>> /\ (AggError(s.agg[1]) \/ s.exp.terms = <<>>)
      sound == \A i \in DOMAIN args : args[i].kind = "sel" /\ ~unsupported(args[i])
      bare == \E i \in DOMAIN args : args[i].kind = "sel" /\ args[i].exp.terms = <<>>
  IN  Of("traceql") =>
        /\ sound /\ (Len(args) = 1 \/ (Len(args) = 2 /\ ~bare)) => answer.err = ""
        /\ Len(args) > 2 \/ (\E i \in DOMAIN args : args[i].kind = "sel" /\ unsupported(args[i])) => answer.err # ""

(* complex_request_processor.go: reading the traces in portions answers    *)
(* what one statement would, as long as no answered trace starts before    *)
(* the window.                                                             *)
PortionsChangeNothing ==
  (Of("traceql") /\ answer.err = "" /\ Portioned /\ ~StartsEarlier /\ OneSelector /\ ~AsksForRoots(Q.script.args[1]))
    => answer.traces = RunPlan(db, PlanContext(Q), PlanAll(Q.script).tree)

MeantMatches(req) ==
  LET terms == ExtractAllFilters(req.script)
  IN  {r \in db.traces : InWindow(r, req) /\ \A i \in DOMAIN terms :
         IF Bare(terms[i], {"nestedSetParent"}) THEN r.parent = "" ELSE TermMeets(db, r, terms[i])}
Total(series) == FoldSet(LAMBDA s, acc : s.value[1] + acc, 0, series)

(* metrics_query.go, tempo_metrics.go: over a range the counts of the      *)
(* points add up to the spans that meet every filter, and an instant query *)
(* counts the same spans, unless a step that is not whole milliseconds     *)
(* leaves points off the grid or a span has an attribute twice.            *)
CountsAddUp ==
  LET req == ask.req
      spans == MeantMatches(req)
      sums(series) == FoldSet(LAMBDA x, acc : Total(x.samples) + acc, 0, series)
  IN  (Of("metrics") /\ req.fn \in {"rate", "count_over_time", "histogram_over_time"} /\ ~RepeatedKeys(db)) =>
        /\ req.step % Ms = 0 => sums(answer.range.series) = Cardinality(spans)
        /\ req.fn = "count_over_time" => Total(answer.instant.series) = Cardinality(spans)

Leq(a, b) == a[1] * b[2] <= b[1] * a[2]

(* metrics_query.go: the quantile of some spans is the duration of the     *)
(* only one, or lies between the shortest and the longest, in seconds.     *)
QuantilesAreDurations ==
  LET req == ask.req
      group(s) == {m.row.dur : m \in {x \in Filtered(db, req) : Labels(req, ByVals(db, req, x.row)) = s.labels}}
  IN  (Of("metrics") /\ req.fn = "quantile_over_time") =>
        \A s \in answer.instant.series :
           IF group(s) = {} THEN s.value[2] = 0
           ELSE /\ Leq(<<Min(group(s)), Second>>, s.value) /\ Leq(s.value, <<Max(group(s)), Second>>)
                /\ s.value[2] > 0

(* tempo_metrics.go: an exemplar is a span of its series, and carries the  *)
(* labels of the series, when no attribute of the index comes before an    *)
(* intrinsic in the by clause.                                             *)
ExemplarsBelong ==
  LET req == ask.req
      swapped == \E i, j \in DOMAIN req.by : i < j /\ ByColumn(req.by[i]) = "" /\ ByColumn(req.by[j]) # ""
      labelOf(r, l) == IF l.name = "name" THEN r.name ELSE Pivot(db, l, req, r)
  IN  (Of("metrics") /\ req.fn \in {"rate", "count_over_time", "max_over_time", "quantile_over_time"} /\ ~swapped) =>
        \A s \in answer.range.series : \A e \in s.exemplars :
          \E r \in MeantMatches(req) : /\ r.tid = e.tid /\ r.ts \div Ms = e.ms
                                       /\ \A i \in DOMAIN s.labels : labelOf(r, s.labels[i][1]) = s.labels[i][2]

(* metrics_query.go: compare() puts every span of the outer filters into   *)
(* the selection or the baseline of each of its attributes, never both.    *)
CompareSplits ==
  LET req == ask.req
      base == [from |-> IF req.comp.from > 0 THEN req.comp.from ELSE req.from,
               to |-> IF req.comp.to > 0 THEN req.comp.to ELSE req.to]
      outer == MeantMatches([req EXCEPT !.from = base.from, !.to = base.to])
      having(x) == {r \in outer : \E a \in AttrsOf(db, r) : a.key = x.key /\ a.val = x.val}
      inner(r) == InWindow(r, req) /\ ExpMeets(db, r, req.comp.exp)
  IN  (Of("metrics") /\ req.fn = "compare" /\ ~RepeatedKeys(db)) =>
        \A x \in answer.range.series :
           /\ x.selection = Cardinality({r \in having(x) : inner(r)})
           /\ x.selection + x.baseline = Cardinality(having(x))

(* tempo_metrics.go: with the step it chooses itself, a range query never  *)
(* answers more than MetricsMaxPoints points of a series and the one at    *)
(* each end.                                                               *)
StepBoundsPoints ==
  (Of("wide") \/ (Of("metrics") /\ ask.req.fn # "compare" /\ ask.req.step = AutoStep(ask.req.from, ask.req.to)))
     => \A s \in answer.range.series : Cardinality(s.samples) <= MetricsMaxPoints + 2

(* otlp.go, zipkin_json.go, tempo.go, sql_index_query.go: a stored span is *)
(* shown in its trace, is indexed as its own, and is found by its tags.    *)
SpansAreFound ==
  /\ TraceShowsWhatIsIndexed
  /\ SpansOwnTheirIndex
  /\ TagSearchExact

(* traceql_transpiler: a TraceQL search answers what the query means, in   *)
(* one statement or in portions, or fails because the query is not         *)
(* supported.                                                              *)
SearchesMeanQueries ==
  /\ SearchMeansQuery
  /\ SearchErrorsHaveCause
  /\ PortionsChangeNothing

(* tempo_metrics.go, metrics_query.go, tempo.go: points, exemplars and     *)
(* comparisons are about the spans the filters select, on a grid of        *)
(* bounded size.                                                           *)
MetricsCountSpans ==
  /\ CountsAddUp
  /\ QuantilesAreDurations
  /\ ExemplarsBelong
  /\ CompareSplits
  /\ StepBoundsPoints
=============================================================================
