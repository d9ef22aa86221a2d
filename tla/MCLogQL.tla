------------------------------- MODULE MCLogQL -------------------------------
(***************************************************************************)
(* A user writes a query stage by stage and runs it.  Its answer is        *)
(* compared with what the script means: the samples of the tenants in the  *)
(* window that the selector takes, mapped stage by stage, a series being   *)
(* the samples of one set of labels.  The scripts for which the planners   *)
(* of the repository compute something else are named one by one.          *)
(***************************************************************************)
EXTENDS LogQLPlan, TLC

CONSTANTS MaxStages,    \* stages of a pipeline
          MaxRich       \* stages of the pipelines that use every stage

(******************************** Reference ********************************)
Selected(db, ctx, sel) ==
  {Entry(<<"sample", r.id>>, r.ts, CanonicalFp(r.labels), r.labels, r.line, 0) :
     r \in {q \in db.samples : /\ ctx.from <= q.ts /\ q.ts < ctx.to
                               /\ q.type \in {ctx.type, "both"}
                               /\ ctx.federated => q.oid \in ctx.oids
                               /\ \A i \in DOMAIN sel : StringHolds(sel[i], Get(q.labels, sel[i].label))}}

Meets(st, e) ==
  CASE st.kind = "labelfilter" ->
         Chain(st.exp, LAMBDA f : IF f.numeric THEN NumberHolds(f, Get(e.labels, f.label))
                                  ELSE StringHolds(f, Get(e.labels, f.label)))
    [] st.kind = "linefilter" ->
         Chain(st.exp, LAMBDA x : CASE st.fn = "|=" -> x.val \in e.line.subs
                                    [] st.fn = "!=" -> x.val \notin e.line.subs
                                    [] st.fn = "|~" -> e.line.subs \cap x.re # {}
                                    [] st.fn = "!~" -> e.line.subs \cap x.re = {})
    [] st.kind = "unwrap" -> Get(e.labels, st.label) \in DOMAIN NumberOf
    [] OTHER -> TRUE

Names(st, p) == \E i \in DOMAIN st.params : p[1] = st.params[i].label /\ st.params[i].val \in {"", p[2]}
MeantLabels(st, e) ==
  CASE st.kind = "drop" -> {p \in e.labels : ~Names(st, p)}
    [] st.kind = "keep" -> {p \in e.labels : Names(st, p) \/ p[1] \in {ErrorLabel, ErrorDetails}}
    [] st.kind = "labelformat" -> FoldLeft(FormatLabel, e.labels, st.params)
    [] st.kind = "parser" ->
         IF ~e.line.object THEN Update(e.labels, {<<ErrorLabel, ErrorType[st.fn]>>, <<ErrorDetails, st.fn>>})
         ELSE Update(e.labels,
                     IF st.params = <<>> THEN e.line.fields
                     ELSE {<<st.params[i].label, Get(e.line.fields, st.params[i].path)>> :
                             i \in {j \in DOMAIN st.params : \E p \in e.line.fields : p[1] = st.params[j].path}})
    [] OTHER -> e.labels
Meant(st, e) ==
  LET labels == MeantLabels(st, e)
      relabelled == [e EXCEPT !.labels = labels, !.fp = CanonicalFp(labels)]
  IN  CASE st.kind = "unwrap" -> [e EXCEPT !.value = NumberOf[Get(e.labels, st.label)] * Unit]
        [] st.kind = "lineformat" -> CHOOSE x \in LineFormat(st, {e}) : TRUE
        [] OTHER -> relabelled
Piped(S, st) == {Meant(st, e) : e \in {x \in S : Meets(st, x)}}

MeantRange(ctx, s, S) ==
  LET es == IF s.lra.by.fn = "" THEN S
            ELSE {[e EXCEPT !.labels = CutLabels(@, s.lra.by), !.fp = CanonicalFp(CutLabels(e.labels, s.lra.by))] : e \in S}
      buckets == {Bucket(t, s.lra.dur) : t \in ctx.from..(ctx.to - 1)}
      absent == {Entry(e.fp, b, e.fp, e.labels, EmptyLine, Unit) : e \in es, b \in buckets}
  IN  IF s.lra.fn = "absent_over_time"
      THEN {[a EXCEPT !.src = a.fp] :
              a \in {x \in absent : ~ \E e \in es : e.fp = x.fp /\ Bucket(e.ts, s.lra.dur) = x.ts}}
      ELSE IF HasUnwrap(s) THEN UnwrapFunction(ctx, s.lra, es) ELSE Lra(ctx, s.lra, es)

(* Comparisons, the aggregation and topk, and the grid of the answer.      *)
MeantMatrix(ctx, s, S) ==
  LET by == AggBy(s.agg)
      ranged == Comparison(s.lra.cmp, MeantRange(ctx, s, S))
      cut == {[e EXCEPT !.labels = CutLabels(@, by), !.fp = CanonicalFp(CutLabels(e.labels, by))] : e \in ranged}
      agged == IF HasAgg(s) THEN Comparison(s.agg.cmp, AggOp(s.agg.fn, cut)) ELSE ranged
  IN  TopK(s.top, agged)

Meaning(db, ctx, s) ==
  LET c == RequestCtx(ctx, s)
      piped == FoldLeft(Piped, Selected(db, c, s.sel), s.pipe)
  IN  IF IsStream(s) THEN Newest(c, piped)
      ELSE FixPeriod(ctx, s.lra.dur, StepFix(c, s.lra.dur, MeantMatrix(c, s, piped)))

(* What the client sees of an answer.                                      *)
Seen(s, rows) == IF IsStream(s) THEN {<<r.src, r.ts, r.labels, r.line>> : r \in rows}
                 ELSE {<<r.ts, r.labels, r.value>> : r \in rows}

(******************************* Deviations ********************************)
InSql(s) == IF DecidePlanMode(s) = "clickhouse" THEN DOMAIN s.pipe
            ELSE IF GetBreakpoint(s) = BreakpointLra THEN DOMAIN s.pipe ELSE 1..(GetBreakpoint(s) - 1)
SqlStages(s) == {s.pipe[i] : i \in InSql(s)}
ChangesLabels == {"drop", "keep", "parser", "labelformat"}

(* json and logfmt in a row are taken out of the pipeline.                 *)
ParsersCancelled(s) == CancelJsonAndLogFmt(s.pipe).pipe # s.pipe

(* label_format before the cut is skipped, and later its labels are not in *)
(* the fingerprint.                                                        *)
LabelFormatSkipped(s) ==
  \E i \in DOMAIN s.pipe : s.pipe[i].kind = "labelformat" /\ (i \in InSql(s) \/ ~IsStream(s))

(* !~ of a true regular expression keeps the lines that match.             *)
NotMatchInverted(s) == \E st \in SqlStages(s) : /\ st.kind = "linefilter" /\ st.fn = "!~"
                                                /\ \E i \in DOMAIN st.exp : ~st.exp[i].literal

(* |= of a word finds it only as a whole token.                            *)
WordsAreTokens(s, db) ==
  \E st \in SqlStages(s), r \in db.samples :
     /\ st.kind = "linefilter" /\ st.fn = "|="
     /\ \E i \in DOMAIN st.exp : st.exp[i].token /\ st.exp[i].val \in r.line.subs \ r.line.tokens

(* Conditions on labels see the labels as the last stage of their SELECT   *)
(* left them, and the filters before any parser the labels as stored.      *)
FilterSeesOtherLabels(s) ==
  \E i, j \in InSql(s) :
     /\ s.pipe[j].kind = "labelfilter"
     /\ IF SimpleLabelOperation(s.pipe, j) THEN i < j /\ s.pipe[i].kind \in {"drop", "keep"}
        ELSE i > j /\ s.pipe[i].kind \in ChangesLabels

(* A count over metrics_15s leaves out the stages on labels.               *)
ShortcutSkipsStages(s) == AnalyzeMetrics15sShortcut(s) /\ s.pipe # <<>>

(* and rounds the window and the buckets to its own grid.                  *)
ShortcutRounds(ctx, s) ==
  LET c == RequestCtx(ctx, s)
  IN  AnalyzeMetrics15sShortcut(s) /\ (s.lra.dur % Grid # 0 \/ c.from % Grid # 0 \/ c.to % Grid # 0)

(* A selector of .* takes every series; the filters before any parser are  *)
(* then lost.                                                              *)
AnySelectorLosesFilter(s) ==
  NoStreamSelect(s.sel) /\ \E i \in DOMAIN s.pipe : SimpleLabelOperation(s.pipe, i)

(* A matcher that an absent label satisfies needs the label in the index.  *)
AbsentLabelsNeeded(s) ==
  ~NoStreamSelect(s.sel) /\ \E i \in DOMAIN s.sel : /\ StringHolds(s.sel[i], "")
                                 /\ ~IsEmptyMatcher(s.sel[i]) /\ ~IsAnyMatcher(s.sel[i])

(* drop and keep in SQL leave the fingerprint of the row.                  *)
FingerprintOutlivesLabels(s) ==
  /\ ~IsStream(s) /\ (HasAgg(s) => s.agg.fn # "sum" \/ s.lra.cmp.fn # "")
  /\ \E st \in SqlStages(s) : st.kind \in {"drop", "keep"}

(* json in SQL gives a path that the line does not have the empty string.  *)
JsonFillsMissing(db, s) ==
  \E st \in SqlStages(s), r \in db.samples :
     /\ st.kind = "parser" /\ r.line.object
     /\ \E i \in DOMAIN st.params : \A p \in r.line.fields : p[1] # st.params[i].path

(* min_over_time, first and last by arrival, the first bucket of absent.   *)
ReaderRangeDiffers(s) ==
  /\ DecidePlanMode(s) = "internal"
  /\ s.lra.fn \in {"min_over_time", "first_over_time", "last_over_time", "absent_over_time"}

(* With buckets shorter than the step SQL answers with the first of each   *)
(* step and the reader with the last.                                      *)
StepKeepsLast(ctx, s) == DecidePlanMode(s) = "internal" /\ ~IsStream(s) /\ s.lra.dur < ctx.step

(* Too many series answer with nothing.                                    *)
SeriesOverflow(db, ctx, s) ==
  /\ DecidePlanMode(s) = "internal" /\ ~IsStream(s)
  /\ Cardinality({e.labels : e \in FoldLeft(Piped, Selected(db, RequestCtx(ctx, s), s.sel), s.pipe)}) > MaxSeries

Deviates(db, ctx, s) ==
  \/ ParsersCancelled(s) \/ LabelFormatSkipped(s) \/ NotMatchInverted(s) \/ WordsAreTokens(s, db)
  \/ FilterSeesOtherLabels(s) \/ ShortcutSkipsStages(s) \/ ShortcutRounds(ctx, s)
  \/ AnySelectorLosesFilter(s) \/ AbsentLabelsNeeded(s) \/ FingerprintOutlivesLabels(s)
  \/ JsonFillsMissing(db, s) \/ ReaderRangeDiffers(s) \/ StepKeepsLast(ctx, s) \/ SeriesOverflow(db, ctx, s)

(********************************** Data ***********************************)
Line(tokens, subs, fields, size) ==
  [tokens |-> tokens, subs |-> subs \cup tokens \cup {""}, object |-> fields # {}, fields |-> fields,
   size |-> size]
Ok1 == Line({"foo", "x"}, {"fo"}, {<<"x", "1">>, <<"lvl", "i">>}, 2)
Ok2 == Line({"bar", "x"}, {}, {<<"x", "2">>, <<"lvl", "e">>}, 3)
Ok0 == Line({"foo", "x"}, {"fo"}, {<<"x", "0">>, <<"lvl", "e">>}, 2)
Bad == Line({"foo"}, {"fo"}, {}, 1)
Inner == Line({"food"}, {"foo", "fo"}, {}, 1)

A == {<<"app", "a">>, <<"lvl", "i">>}
B == {<<"app", "a">>, <<"lvl", "e">>}
C == {<<"app", "b">>}

Series(oid, labels) == [oid |-> oid, type |-> "logs", date |-> 1, labels |-> labels]
Sample(id, oid, ts, labels, line) ==
  [id |-> id, oid |-> oid, type |-> "logs", ts |-> ts, labels |-> labels, line |-> line]
Noon == 96

Databases ==
  << [series |-> {Series("t1", A), Series("t1", B), Series("t1", C), Series("t2", B)},
      samples |-> {Sample(1, "t1", Noon + 1, A, Ok1), Sample(2, "t1", Noon + 2, A, Bad),
                   Sample(3, "t1", Noon + 3, B, Ok2), Sample(4, "t1", Noon + 4, C, Ok1),
                   Sample(5, "t1", Noon + 5, B, Ok2), Sample(6, "t2", Noon + 5, B, Ok1)}],
     [series |-> {Series("t1", A), Series("t1", B), Series("t2", C)},
      samples |-> {Sample(1, "t1", Noon, A, Ok0), Sample(2, "t1", Noon + 1, A, Ok2),
                   Sample(3, "t1", Noon + 3, B, Inner), Sample(4, "t2", Noon + 3, C, Ok1),
                   Sample(5, "t1", Noon + 6, B, Ok1), Sample(6, "t1", Noon + 7, A, Ok1)}] >>

Ctx(from, to, step, limit) ==
  [from |-> Noon + from, to |-> Noon + to, step |-> step, now |-> Noon + 50, limit |-> limit, asc |-> FALSE,
   type |-> "logs", federated |-> TRUE, oids |-> {"t1"}]
Contexts == << Ctx(0, 8, 2, 0), Ctx(1, 6, 2, 2), Ctx(2, 8, 3, 1) >>

(******************************** Vocabulary *******************************)
Matcher(label, fn, val, re) == [label |-> label, fn |-> fn, val |-> val, re |-> re]
Selectors == << <<Matcher("app", "=", "a", {})>>,
                <<Matcher("app", "=~", ".*", {"a", "b", ""})>>,
                <<Matcher("lvl", "=", "", {}), Matcher("app", "=", "b", {})>>,
                <<Matcher("app", "=~", "a|b", {"a", "b"}), Matcher("lvl", "!=", "i", {})>>,
                <<Matcher("app", "=", "b", {}), Matcher("lvl", "=", "", {})>> >>

LineF(fn, val, literal, token, re) ==
  [kind |-> "linefilter", fn |-> fn,
   exp |-> << [val |-> val, literal |-> literal, token |-> token, re |-> re, op |-> ""] >>]
LabelF(label, fn, val, op) ==
  [label |-> label, fn |-> fn, val |-> val, re |-> {val}, numeric |-> FALSE, num |-> 0, op |-> op]
NumberF(label, fn, num, op) ==
  [label |-> label, fn |-> fn, val |-> "", re |-> {}, numeric |-> TRUE, num |-> num, op |-> op]
Param(label, val) == [label |-> label, val |-> val]
Path(label, path) == [label |-> label, path |-> path]

Stages ==
  << LineF("|=", "foo", TRUE, TRUE, {"foo"}),
     LineF("!~", "f.o|q", FALSE, TRUE, {"foo"}),
     [kind |-> "labelfilter", exp |-> <<LabelF("lvl", "=", "e", "")>>],
     [kind |-> "labelfilter", exp |-> <<NumberF("x", ">=", 1, "and"), LabelF("lvl", "!=", "i", "")>>],
     [kind |-> "drop", params |-> <<Param("lvl", "")>>],
     [kind |-> "keep", params |-> <<Param("app", "a"), Param("x", "")>>],
     [kind |-> "parser", fn |-> "json", params |-> <<Path("x", "x")>>],
     [kind |-> "parser", fn |-> "json", params |-> <<>>],
     [kind |-> "parser", fn |-> "logfmt", params |-> <<>>],
     [kind |-> "lineformat", label |-> "lvl"],
     [kind |-> "labelformat", params |-> <<[label |-> "lvl", const |-> "", from |-> "app"]>>],
     [kind |-> "labelfilter", exp |-> <<LabelF(ErrorLabel, "=", "", "")>>],
     [kind |-> "unwrap", label |-> "x"],
     LineF("!=", "bar", TRUE, TRUE, {"bar"}) >>
Common == {1, 3, 5, 7, 8, 9, 13}

By(fn, labels) == [fn |-> fn, labels |-> labels]
Over(fn, dur) == [fn |-> fn, dur |-> dur, by |-> NoBy, cmp |-> NoComparison]
Outer(lra, agg, top) == [lra |-> lra, agg |-> agg, top |-> top]
Agg(fn, by) == [fn |-> fn, by |-> by, cmp |-> NoComparison]
Outers ==
  << Outer(NoLra, NoAgg, NoTopK),
     Outer(Over("count_over_time", 2), NoAgg, NoTopK),
     Outer(Over("rate", 4), Agg("sum", By("by", {"app"})), NoTopK),
     Outer([Over("bytes_over_time", 1) EXCEPT !.cmp = [fn |-> ">", val |-> 1]], Agg("max", NoBy), NoTopK),
     Outer(Over("count_over_time", 3), Agg("avg", By("without", {"lvl"})), [fn |-> "topk", len |-> 1]),
     Outer(Over("sum_over_time", 2), NoAgg, NoTopK),
     Outer([Over("avg_over_time", 4) EXCEPT !.by = By("by", {"lvl"})], Agg("count", NoBy), NoTopK),
     Outer(Over("min_over_time", 4), NoAgg, NoTopK),
     Outer(Over("quantile_over_time", 4), NoAgg, NoTopK),
     Outer(Over("absent_over_time", 2), NoAgg, NoTopK) >>
NeedsUnwrap == {6, 7, 8}

(******************************** The machine ******************************)
VARIABLES sel, pipe, outer, ctxNo, dbNo, right, op, answer

vars == <<sel, pipe, outer, ctxNo, dbNo, right, op, answer>>

None == [err |-> "none", rows |-> {}]

ScriptOf(o) == [sel |-> Selectors[sel], pipe |-> [i \in DOMAIN pipe |-> Stages[pipe[i]]],
                lra |-> Outers[o].lra, agg |-> Outers[o].agg, top |-> Outers[o].top]
Script == ScriptOf(outer)
Db == Databases[dbNo]
Request == Contexts[ctxNo]

Init ==
  /\ sel \in DOMAIN Selectors /\ dbNo \in DOMAIN Databases
  /\ pipe = <<>> /\ answer = None
  /\ outer = 0 /\ ctxNo = 0 /\ right = 0 /\ op = ""

AddStage ==
  /\ answer = None
  /\ Len(pipe) < MaxStages
  /\ pipe # <<>> => Last(pipe) # 13           \* unwrap ends a pipeline
  /\ \E i \in DOMAIN Stages :
       /\ Len(pipe) >= MaxRich => {pipe[j] : j \in DOMAIN pipe} \cup {i} \subseteq Common /\ sel = 1
       /\ pipe' = Append(pipe, i)
  /\ UNCHANGED <<sel, outer, ctxNo, dbNo, right, op, answer>>

Fits(o) == /\ (pipe # <<>> /\ Last(pipe) = 13) <=> (o \in NeedsUnwrap)
           /\ IsQuantile(Outers[o]) => GetBreakpoint([ScriptOf(o) EXCEPT !.pipe = CancelJsonAndLogFmt(@).pipe]) # BreakpointNo

(* A log query or a matrix; unwrap belongs to the functions of values.     *)
Query ==
  /\ answer = None
  /\ \E o \in DOMAIN Outers, c \in DOMAIN Contexts :
       /\ Fits(o)
       /\ outer' = o /\ ctxNo' = c
       /\ answer' = Plan(Db, Contexts[c], ScriptOf(o))
  /\ UNCHANGED <<sel, pipe, dbNo, right, op>>

(* Arithmetic on two matrices over the same pipeline.                      *)
QueryBinary ==
  /\ answer = None
  /\ Len(pipe) <= 1
  /\ \E o, r \in {1, 2, 3, 5}, c \in {1, 2}, f \in {"+", "/"} :
       /\ Fits(o) /\ Fits(r)
       /\ f = "/" => o = r
       /\ outer' = o /\ right' = r /\ ctxNo' = c /\ op' = f
       /\ answer' = PlanBinary(Db, Contexts[c], ScriptOf(o), f, ScriptOf(r))
  /\ UNCHANGED <<sel, pipe, dbNo>>

Next == AddStage \/ Query \/ QueryBinary

Spec == Init /\ [][Next]_vars

(******************************* Properties ********************************)
Asked == answer # None /\ op = ""
Tenants(db) == [series |-> {s \in db.series : s.oid \in Request.oids},
                samples |-> {r \in db.samples : r.oid \in Request.oids}]

(* planner.go, clickhouse_planner and internal/planner: whichever way a    *)
(* script is cut between ClickHouse and the reader, its answer is what the *)
(* script means, unless it is one of the scripts LogQLReference names.     *)
AnswerMeansScript ==
  (Asked /\ answer.err = "" /\ ~Deviates(Db, Request, Script))
     => Seen(Script, answer.rows) = Seen(Script, Meaning(Db, Request, Script))

(* planner.go: a request fails only for a script that uses what is not     *)
(* supported, and never because the mode and the cut disagree.             *)
ErrorsHaveCause ==
  Asked => CASE answer.err = "" -> TRUE
             [] answer.err = "panic" -> CancelJsonAndLogFmt(Script.pipe).panic \/ SelectFails(Script)
             [] answer.err = "unknown column" -> \E i, j \in InSql(Script) :
                  i < j /\ Script.pipe[j].kind = "linefilter"
             [] answer.err = "labels col not inited" -> HasUnwrap(Script)
             [] answer.err = "not supported" -> HasTopK(Script) \/ IsQuantile(Script)
             [] OTHER -> FALSE

(* shared/federation.go and the planners that use it: the rows of other    *)
(* tenants change nothing in an answer.                                    *)
TenantsSeparated ==
  Asked => answer = Plan(Tenants(Db), Request, Script)

(* Points next to a bucket, and the buckets of a plain count answered.     *)
PointsNear(req, dur, buckets) ==
  LET near(b, t) == b - req.step < t /\ t < b + dur
  IN  /\ \A r \in answer.rows : req.from <= r.ts /\ r.ts <= req.to /\ \E b \in buckets : near(b, r.ts)
      /\ (pipe = <<>> /\ outer = 2) =>
           \A b \in buckets : b >= req.from /\ b < req.to => \E r \in answer.rows : near(b, r.ts)

(* planner_from_fix.go: a point is answered only next to a bucket that     *)
(* holds a sample the selector takes, and every such bucket inside the     *)
(* window is answered for a plain count.                                   *)
PointsStayInTheirBucket ==
  (Asked /\ answer.err = "" /\ ~IsStream(Script) /\ ~Deviates(Db, Request, Script)) =>
    LET dur == Script.lra.dur
    IN  PointsNear(Request, dur, {Bucket(e.ts, dur) : e \in Selected(Db, RequestCtx(Request, Script), Script.sel)})

(* planner_binary_ram.go, planner_binary_expr.go: where both sides have a  *)
(* point the answer is the arithmetic of the two, for sides of one         *)
(* duration whose window starts on the grid of the answer.                 *)
BinaryMeansBoth ==
  LET dur == Outers[outer].lra.dur
  IN  (answer # None /\ op # "" /\ answer.err = "" /\ dur = Outers[right].lra.dur
        /\ (Bucket(Request.from, dur) - Request.from) % Request.step = 0) =>
        \A p \in Plan(Db, Request, ScriptOf(outer)).rows, q \in Plan(Db, Request, ScriptOf(right)).rows :
           (p.labels = q.labels /\ p.ts = q.ts) =>
             /\ \E e \in answer.rows : e.labels = p.labels /\ e.ts = p.ts
             /\ \A e \in answer.rows : (e.labels = p.labels /\ e.ts = p.ts)
                                        => e.value = Arithmetic(op, p.value, q.value)

(* planner.go, planner_from_fix.go, planner_binary_ram.go: lines, points   *)
(* and binary expressions are answered as the script means them, wherever  *)
(* it is cut.                                                              *)
ScriptsAnsweredAsMeant ==
  /\ AnswerMeansScript
  /\ PointsStayInTheirBucket
  /\ BinaryMeansBoth
=============================================================================
