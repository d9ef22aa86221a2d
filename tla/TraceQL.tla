------------------------------ MODULE TraceQL -------------------------------
(***************************************************************************)
(* The search by a TraceQL query: how the planner turns a script into one  *)
(* ClickHouse statement, what that statement answers, and the processor    *)
(* that runs it in portions when it would read too much.                   *)
(*                                                                         *)
(* A script is [args, ops]: operands joined by operators, an operand being *)
(* a selector [kind |-> "sel", exp, agg] or [kind |-> "paren", inner].  An *)
(* expression is [terms, ops], <<>> terms standing for {}.                 *)
(***************************************************************************)
EXTENDS TraceRead

CONSTANTS Threshold,    \* COMPLEXITY_THRESHOLD, 10^7 in the code
          Hash(_),      \* cityHash64 of a trace id
          NumOf(_),     \* toFloat64OrNull of a text: <<n>> or <<>>
          MaxSpans      \* of groupArray(100)

Compare(op, a, b) ==
  CASE op = "=" -> a = b [] op = "!=" -> a # b [] op = "<" -> a < b
    [] op = "<=" -> a <= b [] op = ">" -> a > b [] op = ">=" -> a >= b
Comparisons == {"=", "!=", "<", "<=", ">", ">="}

(****************************** The script *********************************)
Single(script) == Len(script.args) = 1
Rest(script) == [args |-> Tail(script.args), ops |-> Tail(script.ops)]
Op(script) == IF Single(script) THEN "" ELSE IF script.ops[1] \in {"||"} THEN "||" ELSE "&&"

(* A script that is nothing but parentheses loses one pair of them.        *)
Unwrapped(script) ==
  IF Single(script) /\ script.args[1].kind = "paren" THEN script.args[1].inner ELSE script

(* Parentheses in front of other operands: one selector in them takes over *)
(* what follows, and keeps it, for the script is changed in place.         *)
RECURSIVE Promoted(_)
Promoted(script) ==
  IF script.args[1].kind # "paren" THEN script
  ELSE LET inner == script.args[1].inner IN
       CASE Single(inner) -> Promoted([args |-> inner.args \o Tail(script.args), ops |-> script.ops])
         [] ~Single(inner) /\ Single(script) -> Promoted(inner)
         [] OTHER -> script
AfterPlan(script) ==
  IF ~Single(script) /\ script.args[1].kind = "paren" /\ Single(script.args[1].inner)
  THEN [script EXCEPT !.args[1].inner = [args |-> @.args \o Tail(script.args), ops |-> script.ops]]
  ELSE script

(* The tree under construction.  current is the node d levels down along   *)
(* the first operands of the root; nothing can be added to a leaf, and the *)
(* first operand of a leaf is the index of an empty slice.                 *)
Leaf(arg) == [fn |-> "", arg |-> arg, ops |-> <<>>]
Node(fn, ops) == [fn |-> fn, arg |-> [kind |-> "node"], ops |-> ops]
RECURSIVE AddAt(_, _, _)
AddAt(node, d, op) ==
  IF d = 0 THEN IF node.fn = "" THEN node ELSE [node EXCEPT !.ops = Append(@, op)]
  ELSE [node EXCEPT !.ops[1] = AddAt(@, d - 1, op)]
RECURSIVE LeafAt(_, _)
LeafAt(node, d) == IF d = 0 THEN node.fn = "" ELSE LeafAt(node.ops[1], d - 1)

Panic == [fn |-> "panic", arg |-> <<>>, ops |-> <<>>]
(* d = -1 is the root itself, which holds one operand.                     *)
RECURSIVE PlanComplex(_, _, _)
PlanComplex(root, d, s) ==
  LET script == Promoted(s)
      leaf == Leaf(script.args[1])
      add(op) == IF d < 0 THEN op ELSE AddAt(root, d, op)
  IN  CASE Op(script) = "" -> add(leaf)
        [] Op(script) = "&&" ->
             IF d >= 0 /\ LeafAt(root, d) THEN Panic
             ELSE PlanComplex(add(Node("&&", <<leaf>>)), d + 1, Rest(script))
        [] Op(script) = "||" -> PlanComplex(Node("||", <<add(leaf)>>), 0, Rest(script))

(* check: what the simple planners refuse.                                 *)
Conditional(arg) == arg.kind = "sel" /\ arg.exp.terms # <<>>

Check(script) ==
  IF Single(script) THEN Conditional(script.args[1]) \/ script.args[1].kind = "paren" \/ script.args[1].agg = <<>>
  ELSE \A i \in DOMAIN script.args : Conditional(script.args[i])

(* A complex node under another selects a column its operand lacks.        *)
Nested(tree) == \E i \in DOMAIN tree.ops : tree.ops[i].fn # ""

(************************** One selector's terms ***************************)
(* analyzeCond: the tail of an expression is its second operand, whatever  *)
(* the operators are.                                                      *)
RECURSIVE Eval(_, _)
Eval(exp, bits) ==
  LET first == exp.terms[1] \in bits
      rest == [terms |-> Tail(exp.terms), ops |-> Tail(exp.ops)]
  IN  CASE Len(exp.terms) = 1 -> first
        [] Len(exp.terms) > 1 /\ exp.ops[1] = "&&" -> first /\ Eval(rest, bits)
        [] Len(exp.terms) > 1 /\ exp.ops[1] = "||" -> first \/ Eval(rest, bits)

(* A term is [scope, name, op, kind, val, num], kind being the form its    *)
(* value was written in: num holds a number or a duration, val a text.    *)
Scoped(t) == t.scope \in {"span", "resource", "dot"}
Constant(t) == ~Scoped(t) /\ t.name \in {"true", "false", "nestedSetParent", "nestedSetLeft", "nestedSetRight"}
Duration(t) == ~Scoped(t) /\ t.name = "duration"
Known == {"name", "status", "kind", "statusMessage", "rootServiceName", "rootName"}
TermKey(t) ==
  CASE ~Scoped(t) /\ t.name = "rootServiceName" -> "service.name"
    [] ~Scoped(t) /\ t.name = "rootName" -> "name"
    [] OTHER -> t.name
Supported(t) ==
  CASE Constant(t) -> TRUE
    [] Duration(t) -> t.kind = "time" /\ t.op \in Comparisons
    [] OTHER -> /\ Scoped(t) \/ t.name \in Known
                /\ \/ t.kind = "str" /\ t.op \in {"=", "!=", "=~", "!~"}
                   \/ t.kind = "num" /\ t.op \in Comparisons
                   \/ t.kind = "bare" /\ t.op \in {"=", "!="}

GetTerm(t, row) ==
  CASE Constant(t) -> t.name # "false"
    [] Duration(t) -> Compare(t.op, row.dur, t.num)
    [] OTHER -> /\ row.key = TermKey(t)
                /\ IF t.kind = "num" THEN NumOf(row.val) # <<>> /\ Compare(t.op, NumOf(row.val)[1], t.num)
                   ELSE TagHolds(t.op, row.val, t.val)

RootOnly(t) == ~Scoped(t) /\ t.name = "nestedSetParent" /\ t.op = "<" /\ t.num = 0

(***************************** The statement *******************************)
(* ctx is [from, to, limit, max, i, cached, newest]: max = 0 asks for      *)
(* every trace; newest says in which order ClickHouse reads the spans.     *)
InitIndex(db, ctx) == {a \in db.attrs : a.ts >= ctx.from /\ a.ts < ctx.to}

(* The rows that the terms on attributes let through: a term on an         *)
(* intrinsic, the name apart, does not ask for the rows it needs.          *)
InWhere(t) == Scoped(t) \/ t.name = "name"
AggAttr(sel) == IF sel.agg = <<>> \/ sel.agg[1].attr \in {"", "duration"} THEN {} ELSE {sel.agg[1].attr}
WhereRows(db, ctx, sel) ==
  LET terms == {t \in ToSet(sel.exp.terms) : InWhere(t)}
      rows == InitIndex(db, ctx)
  IN  IF terms = {} /\ AggAttr(sel) = {} THEN rows
      ELSE {r \in rows : r.key \in AggAttr(sel) \/ \E t \in terms : GetTerm(t, r)}
RandomFilter(ctx, tid) == ctx.max = 0 \/ Hash(tid) % ctx.max = ctx.i \/ tid \in ctx.cached

(* AttrConditionPlanner: the spans whose rows, taken together, meet the    *)
(* terms as the expression combines them.                                  *)
AttrCondition(db, ctx, sel) ==
  LET rows == {r \in WhereRows(db, ctx, sel) : RandomFilter(ctx, r.tid)}
      of(s) == {r \in rows : <<r.tid, r.sid>> = s}
      meets(s) == Eval(sel.exp, {t \in ToSet(sel.exp.terms) : \E r \in of(s) : GetTerm(t, r)})
      value(s) == IF sel.agg = <<>> THEN <<>>
                  ELSE IF sel.agg[1].attr = "duration" THEN <<(CHOOSE r \in of(s) : TRUE).dur>>
                  ELSE LET v == {r \in of(s) : r.key \in AggAttr(sel) /\ NumOf(r.val) # <<>>}
                       IN  IF v = {} THEN <<>> ELSE NumOf((CHOOSE r \in v : TRUE).val)
  IN  {[tid |-> s[1], sid |-> s[2], ts |-> (CHOOSE r \in of(s) : TRUE).ts, value |-> value(s)] :
         s \in {x \in {<<r.tid, r.sid>> : r \in rows} : meets(x)}}

(* groupArray(100) keeps the first spans of a trace that are read.         *)
Capped(ctx, spans) ==
  IF Cardinality(spans) <= MaxSpans THEN spans
  ELSE ToSet(SubSeq(SetToSortSeq(spans, LAMBDA a, b : IF ctx.newest THEN a.ts > b.ts ELSE a.ts < b.ts),
                    1, MaxSpans))

(* {}: the traces whose first span of the window is newest; the end of the *)
(* window belongs to the choice of traces but not to their spans.          *)
Attrless(db, ctx) ==
  LET seen == {r \in db.traces : r.ts >= ctx.from /\ r.ts <= ctx.to}
      first(tid) == Min({r.ts : r \in {x \in seen : x.tid = tid}})
      tids == ToSet(Limited(SetToSortSeq({r.tid : r \in seen}, LAMBDA a, b : first(a) > first(b)), ctx.limit))
      spans(tid) == {[tid |-> r.tid, sid |-> r.sid, ts |-> r.ts, value |-> <<>>] :
                       r \in {x \in seen : x.ts < ctx.to /\ x.tid = tid}}
  IN  UNION {Capped(ctx, spans(tid)) : tid \in tids}

(* Aggregator: no value at all is NULL, which no comparison accepts.       *)
AggHolds(agg, spans) ==
  LET vals == {s \in spans : s.value # <<>>}
      sum == FoldSet(LAMBDA s, acc : s.value[1] + acc, 0, vals)
      all == {s.value[1] : s \in vals}
  IN  CASE agg.fn = "count" -> Compare(agg.cmp, Cardinality(spans), agg.num)
        [] agg.fn # "count" /\ vals = {} -> FALSE
        [] agg.fn = "avg" /\ vals # {} -> Compare(agg.cmp, sum, agg.num * Cardinality(vals))
        [] agg.fn = "sum" /\ vals # {} -> Compare(agg.cmp, sum, agg.num)
        [] agg.fn = "min" /\ vals # {} -> Compare(agg.cmp, Min(all), agg.num)
        [] agg.fn = "max" /\ vals # {} -> Compare(agg.cmp, Max(all), agg.num)

(* The traces of an operand, with spans of theirs and the newest of all.   *)
Group(ctx, spans) ==
  {[tid |-> t, sids |-> {s.sid : s \in Capped(ctx, {x \in spans : x.tid = t})},
    maxTs |-> Max({s.ts : s \in {x \in spans : x.tid = t}})] : t \in {s.tid : s \in spans}}

Aggregated(ctx, spans, agg) ==
  {g \in Group(ctx, spans) : agg # <<>> => AggHolds(agg[1], {s \in spans : s.tid = g.tid})}
SimplePlan(db, ctx, arg) ==
  IF arg.kind = "paren" \/ arg.exp.terms = <<>> THEN Group(ctx, Attrless(db, ctx))
  ELSE Aggregated(ctx, AttrCondition(db, ctx, arg), arg.agg)

(* ComplexAnd and ComplexOr work on (trace, span, newest span) triples.    *)
Triples(groups) == UNION {{[tid |-> g.tid, sid |-> s, ts |-> g.maxTs] : s \in g.sids} : g \in groups}
Combined(fn, operands) == {t \in UNION operands : fn = "||" \/ \A o \in operands : t \in o}
ComplexPlan(db, ctx, tree) ==
  Group(ctx, Combined(tree.fn, {Triples(SimplePlan(db, ctx, tree.ops[i].arg)) : i \in DOMAIN tree.ops}))

(* TracesData: the answer's rows, over the whole of each trace.            *)
TracesData(db, groups, rootOnly) ==
  LET rows(tid) == {r \in db.traces : r.tid = tid}
      first(tid) == CHOOSE r \in rows(tid) : \A x \in rows(tid) : r.ts <= x.ts
      kept(g) == {r \in rows(g.tid) : r.sid \in g.sids /\ (rootOnly => r.parent = "")}
  IN  {[tid |-> g.tid, start |-> first(g.tid).ts, rootService |-> first(g.tid).service, rootName |-> first(g.tid).name,
        durMs |-> (Max({r.ts + r.dur : r \in rows(g.tid)}) - first(g.tid).ts) \div Ms,
        sids |-> {r.sid : r \in kept(g)}] : g \in {h \in groups : kept(h) # {}}}

Selectors(tree) == IF tree.fn = "" THEN {tree.arg} ELSE {tree.ops[i].arg : i \in DOMAIN tree.ops}
Terms(tree) == UNION {ToSet(s.exp.terms) : s \in {x \in Selectors(tree) : x.kind = "sel"}}
RunPlan(db, ctx, tree) ==
  LET groups == IF tree.fn = "" THEN SimplePlan(db, ctx, tree.arg) ELSE ComplexPlan(db, ctx, tree)
      index == ToSet(Limited(SetToSortSeq(groups, LAMBDA a, b : a.maxTs > b.maxTs), ctx.limit))
  IN  Limited(SetToSortSeq(TracesData(db, index, \E t \in Terms(tree) : RootOnly(t)), LAMBDA a, b : a.start > b.start),
              ctx.limit)

(************************** Complexity, portions ***************************)
Complexity(db, ctx, tree) ==
  LET bits(sel, r) == {t \in ToSet(sel.exp.terms) : GetTerm(t, r)}
      count(sel) == LET rows == WhereRows(db, ctx, sel)
                    IN  {Cardinality({x \in rows : bits(sel, x) = bits(sel, r)}) : r \in rows}
  IN  Max({0} \cup UNION {IF Conditional(s) THEN count(s) ELSE {ctx.limit} : s \in Selectors(tree)})

(* Mutant: a portion forgets the traces of the portions before it.         *)
PortionForgetting(db, tree, portions, acc, i) ==
  [acc EXCEPT !.res = RunPlan(db, [acc.ctx EXCEPT !.max = portions, !.i = i], tree)]

(* Each portion also reads the traces found so far, and once the answer is *)
(* full looks no further back than the start of its oldest trace.          *)
AfterPortion(ctx, found) ==
  [res |-> found,
   ctx |-> [ctx EXCEPT !.cached = {found[j].tid : j \in DOMAIN found},
                       !.from = IF Len(found) = ctx.limit THEN Min({found[j].start : j \in DOMAIN found}) ELSE @]]
Portion(db, tree, portions, acc, i) ==
  AfterPortion(acc.ctx, RunPlan(db, [acc.ctx EXCEPT !.max = portions, !.i = i], tree))

RECURSIVE Portions(_, _, _, _, _)
Portions(db, tree, portions, acc, i) ==
  IF i = portions THEN acc.res ELSE Portions(db, tree, portions, Portion(db, tree, portions, acc, i), i + 1)
ProcessComplexReq(db, ctx, tree, complexity) ==
  Portions(db, tree, (complexity + Threshold - 1) \div Threshold, [res |-> <<>>, ctx |-> ctx], 0)

(***************************** SearchTraceQL *******************************)
AggError(agg) == (agg.attr = "duration") # agg.unit
PlanOf(script) == IF Single(script) THEN Leaf(script.args[1]) ELSE PlanComplex(Leaf(<<>>), -1, script)
FailOf(script, tree) ==
  CASE tree = Panic -> "panic"
    [] tree # Panic /\ ~Check(IF Single(script) THEN script ELSE Promoted(script)) -> "unsupported"
    [] OTHER -> ""
LateFail(tree) ==
  CASE \E t \in Terms(tree) : ~Supported(t) -> "unsupported"
    [] (\A t \in Terms(tree) : Supported(t)) /\ Nested(tree) -> "clickhouse"
    [] OTHER -> IF \E s \in Selectors(tree) : s.kind = "sel" /\ s.agg # <<>> /\ AggError(s.agg[1])
                THEN "unsupported" ELSE ""

(* Plan, and PlanEval on the script that Plan left.                        *)
Planned(tree, script, evalErr) ==
  LET err == FailOf(script, tree)
  IN  [tree |-> tree, err |-> IF err # "" THEN err ELSE IF evalErr # "" THEN evalErr ELSE LateFail(tree)]
PlanAll(script) ==
  LET s1 == Unwrapped(script)
      s2 == AfterPlan(s1)
  IN  Planned(PlanOf(s1), s1, FailOf(s2, PlanOf(s2)))

Found(traces) == [err |-> "", traces |-> traces]
Failed(why) == [err |-> why, traces |-> <<>>]
PlanContext(q) == [from |-> q.from, to |-> q.to, limit |-> q.limit, max |-> 0, i |-> 0, cached |-> {},
                   newest |-> q.newest]
Process(db, ctx, tree, complexity) ==
  IF complexity < Threshold THEN RunPlan(db, ctx, tree) ELSE ProcessComplexReq(db, ctx, tree, complexity)
SearchPlanned(db, ctx, plan) ==
  IF plan.err # "" THEN Failed(plan.err) ELSE Found(Process(db, ctx, plan.tree, Complexity(db, ctx, plan.tree)))
SearchTraceQL(db, q) == SearchPlanned(db, PlanContext(q), PlanAll(q.script))

=============================================================================
