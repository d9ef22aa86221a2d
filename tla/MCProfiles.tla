----------------------------- MODULE MCProfiles -----------------------------
(***************************************************************************)
(* Clients push profiles as pprof and OTLP, then one asks: for a flame     *)
(* graph, a difference, a merged profile, time series, labels or           *)
(* statistics.                                                             *)
(***************************************************************************)
EXTENDS ProfileQuery, TLC

CONSTANT MaxPushes

MCHash(fn) == CASE fn = "main" -> 3 [] fn = "work" -> 1 [] fn = "gc" -> 2 [] fn = "n/a" -> 4 [] OTHER -> 5
MCMatch(text, re) == re = ".*" \/ text = re

(******************************** Bodies ***********************************)
VT(t, u) == [type |-> t, unit |-> u]
Fn(id, name, file) == [id |-> id, name |-> name, file |-> file]
Loc(id, mapping, addr, fns) == [id |-> id, mapping |-> mapping, addr |-> addr, lines |-> [k \in DOMAIN fns |-> [fn |-> fns[k], line |-> 1]]]
Smp(locs, vals, labels) == [locs |-> locs, vals |-> vals, labels |-> labels]
Lab(key, str, num, unit) == <<[key |-> key, str |-> str, num |-> num, numUnit |-> unit]>>
Pprof(strings, types, period, functions, mappings, locations, samples, time) ==
  [strings |-> strings, types |-> types, period |-> period, functions |-> functions, mappings |-> mappings,
   locations |-> locations, samples |-> samples, time |-> time, duration |-> 2]

(* main calls work, which calls itself, and gc.                            *)
Cpu1 == Pprof(<<"", "samples", "count", "cpu", "ns", "main", "work", "gc", "a.go", "thread">>,
              <<VT(1, 2), VT(3, 4)>>, VT(3, 4), <<Fn(7, 5, 8), Fn(3, 6, 8), Fn(9, 7, 8)>>, <<[id |-> 2, build |-> 0, file |-> 8]>>,
              <<Loc(4, 2, "a1", <<7>>), Loc(1, 2, "a2", <<3>>), Loc(6, 0, "a3", <<9>>)>>,
              <<Smp(<<1, 4>>, <<2, 20>>, <<>>), Smp(<<6, 4>>, <<1, 5>>, Lab(9, 7, 0, 4)), Smp(<<6, 4>>, <<1, 2>>, <<>>),
                Smp(<<1, 1, 4>>, <<1, 7>>, Lab(9, 0, 1, 4)), Smp(<<1, 1, 4>>, <<1, 3>>, Lab(9, 0, 2, 4))>>, 12)
(* The same functions under other indexes and ids.                         *)
Cpu2 == Pprof(<<"", "cpu", "gc", "ns", "work", "main", "count", "samples", "a.go", "n/a">>,
              <<VT(7, 6), VT(1, 3)>>, VT(1, 3), <<Fn(1, 4, 8), Fn(2, 5, 8), Fn(3, 2, 8)>>, <<[id |-> 1, build |-> 0, file |-> 8]>>,
              <<Loc(1, 1, "a2", <<1>>), Loc(2, 1, "a1", <<2>>), Loc(3, 1, "b3", <<3>>), Loc(5, 1, "b5", <<>>)>>,
              <<Smp(<<1, 2>>, <<1, 4>>, <<>>), Smp(<<3>>, <<1, 6>>, <<>>), Smp(<<5, 3>>, <<0, 0>>, <<>>)>>, 11)
(* Only nanoseconds, a sample without a stack, and a location whose second *)
(* line has no function.                                                   *)
Cpu3 == Pprof(<<"", "cpu", "ns", "main", "work">>, <<VT(1, 2)>>, VT(1, 2), <<Fn(1, 3, 0), Fn(2, 4, 0)>>, <<>>,
              <<Loc(1, 0, "a1", <<1>>), Loc(2, 0, "a2", <<2, 0>>)>>,
              <<Smp(<<1>>, <<8>>, <<>>), Smp(<<2, 1>>, <<9>>, <<>>), Smp(<<>>, <<1>>, <<>>)>>, 10)
NoPeriod == [Cpu3 EXCEPT !.period = VT(0, 0)]
NoFunction == [Cpu3 EXCEPT !.locations = <<Loc(1, 0, "a1", <<0>>), Loc(2, 0, "a2", <<2>>)>>]
Uneven == [Cpu1 EXCEPT !.samples = <<Smp(<<1, 4>>, <<2>>, <<>>)>>]

Good == [kind |-> "multipart", boundary |-> TRUE, file |-> TRUE, gzip |-> TRUE, size |-> 3]
Binary == [Good EXCEPT !.kind = "binary", !.gzip = FALSE]
App(app, fields) == [app |-> app, braces |-> "closed", fields |-> fields]
Body(from, name, body, profile) == [from |-> from, until |-> from, name |-> name, body |-> body, profile |-> profile]
PprofBodies ==
  <<Body(12, App("app", <<"k", "v1", "env", "x">>), Good, Cpu1), Body(125, App("app", <<"env", "x", "k", "v1">>), Binary, Cpu2),
    Body(148, App("other", <<"env", "x", "k", "v2">>), Binary, Cpu3),
    Body(124, App("app", <<"k", "v1", "env", "x">>), Binary, NoPeriod)>>
PlainApp == [app |-> "app", braces |-> "none", fields |-> <<>>]
OddBodies ==
  {Body(0, PlainApp, Good, Cpu3), Body(-1, PlainApp, Good, Cpu3), Body(13, App("app", <<"k", "">>), Good, Cpu3),
   Body(13, [PlainApp EXCEPT !.braces = "open"], Good, Cpu3), Body(13, PlainApp, [Good EXCEPT !.size = MaxBody + 1], Cpu3),
   Body(13, PlainApp, [Good EXCEPT !.gzip = FALSE], Cpu3), Body(13, PlainApp, [Good EXCEPT !.file = FALSE], Cpu3),
   Body(13, PlainApp, [Good EXCEPT !.size = 0], Cpu3), Body(13, PlainApp, Binary, NoFunction), Body(13, PlainApp, Binary, Uneven)}

Dict == [strings |-> <<"", "unused", "cpu", "ns", "main", "work", "lib.so", "tid", "thread">>,
         functions |-> <<1, 4, 5, 0>>, mappings |-> <<1, 6>>, attrs |-> <<1, 7>>,
         locations |-> <<[addr |-> "z", mapping |-> 0, lines |-> <<0>>], [addr |-> "a1", mapping |-> 1, lines |-> <<1>>],
                         [addr |-> "a2", mapping |-> 1, lines |-> <<2, 1>>], [addr |-> "a4", mapping |-> 9, lines |-> <<3>>]>>,
         stacks |-> <<<<0>>, <<2, 1>>, <<3, 1>>, <<2, 8, 1>>>>]
OS(stack, vals) == [stack |-> stack, vals |-> vals, attrs |-> <<1>>]
OP(time, samples) == [time |-> time, type |-> <<2, 3>>, period |-> <<2, 3>>, attrs |-> <<>>, samples |-> samples]
OtlpBodies ==
  <<[dict |-> Dict, scopes |->
      <<[resource |-> <<<<"service.name", "app">>, <<"k", "v1">>>>, scope |-> <<>>,
         profiles |-> <<OP(125, <<OS(1, <<4, 1>>), OS(2, <<2>>), OS(9, <<1>>)>>), OP(151, <<OS(3, <<6>>), OS(1, <<3>>)>>)>>],
        [resource |-> <<<<"env", "x">>>>, scope |-> <<<<"k", "v3">>>>,
         profiles |-> <<[OP(160, <<OS(1, <<5>>)>>) EXCEPT !.period = <<0, 0>>]>>]>>]>>

(******************************* Questions *********************************)
Sel(name, op, val) == [name |-> name, op |-> op, val |-> val]
Scripts == {<<>>, <<Sel("service_name", "=", "app")>>, <<Sel("k", "=", "v1"), Sel("env", "=~", ".*")>>, <<Sel("k", "!=", "v1")>>,
            <<Sel("env", "!~", "x")>>, <<Sel("__sample_type__", "!=", "cpu"), Sel("k", "=", "v1")>>,
            <<Sel("__profile_type__", "=", "process_cpu:cpu:ns:cpu:ns")>>}
Type(type, sample, unit) == [type |-> type, sample |-> sample, unit |-> unit, period |-> "cpu", punit |-> "ns"]
Types == {Type("process_cpu", "cpu", "ns"), Type("process_cpu", "samples", "count"), Type("cpu", "cpu", "ns"), Type("process_cpu", "cpu", "count")}
Unperiodic == {[Type(type, "cpu", "ns") EXCEPT !.period = "", !.punit = ""] : type \in {"", "cpu"}}
W(from, to) == [from |-> from, to |-> to]
Windows == {W(100, 200), W(118, 125), W(121, 152), W(125, 149)}

(******************************* The machine *******************************)
VARIABLES db,      \* the rows of profiles
          pushed,  \* the bodies that were pushed
          refused, \* what the last push was refused for
          ask, answer

vars == <<db, pushed, refused, ask, answer>>

None == [err |-> "none"]
NoAsk == [kind |-> "none"]
Init == db = <<>> /\ pushed = {} /\ refused = "" /\ ask = NoAsk /\ answer = None

Pushing == ask = NoAsk /\ Cardinality(pushed) < MaxPushes
Push(name, result) ==
  /\ name \notin pushed
  /\ pushed' = pushed \cup {name}
  /\ refused' = result.err
  /\ db' = db \o result.rows
  /\ UNCHANGED <<ask, answer>>
(* The order of the pushes shows nowhere but in the order of the rows.  A  *)
(* profile without a period type is kept for the small stores.             *)
PushPprof == Pushing /\ \E i \in DOMAIN PprofBodies :
               /\ \A p \in pushed : p[1] = "pprof" /\ p[2] < i
               /\ i = 4 => Cardinality(pushed) < 2
               /\ Push(<<"pprof", i>>, PprofDecode(PprofBodies[i]))
PushOtlp == Pushing /\ \E i \in DOMAIN OtlpBodies : Push(<<"otlp", i>>, OtlpDecode(OtlpBodies[i]))
PushOdd == Pushing /\ refused = "" /\ \E b \in OddBodies : Push(<<"odd", b>>, PprofDecode(b))

Ask(q, a) == ask = NoAsk /\ refused = "" /\ ask' = q /\ answer' = a /\ UNCHANGED <<db, pushed, refused>>
Question(kind, s, t, w) == [kind |-> kind, script |-> s, type |-> t, w |-> w]

(* The maxNodes of SelectMergeStacktraces is never read.                   *)
AskFlame == \E s \in Scripts, t \in Types, w \in Windows, flip \in BOOLEAN, n \in {0, 3} :
              /\ (s # <<>> \/ flip) => n = 0
              /\ Ask(Question("flame", s, t, w) @@ [n |-> n], MergeStackTraces(db, s, t, w, flip))
AskRender == \E t \in Types, w \in Windows :
               Ask(Question("render", <<>>, t, w) @@ [n |-> 0], Render(db, <<>>, t, w, FALSE))
AskDot == \E w \in Windows, n \in 0 .. 4 :
            Ask([kind |-> "dot", n |-> n], RenderDot(db, <<>>, Type("process_cpu", "cpu", "ns"), w, n))
AskDiff == \E t, u \in Types, w, v \in Windows :
             Ask([kind |-> "diff"], RenderDiff(db, Question("", <<>>, t, w), Question("", <<>>, u, v)))
AskMerge == \E s \in Scripts, t \in Types \cup Unperiodic, w \in Windows, flip \in BOOLEAN :
              Ask(Question("merge", s, t, w), MergeProfiles(db, s, t, w, flip))
AskSeries == \E s \in Scripts, t \in Types, w \in Windows, by \in {{}, {"env"}, {"k", "env"}}, agg \in {"sum", "average"}, step \in {3} :
               Ask(Question("series", s, t, w) @@ [by |-> by, agg |-> agg], SelectSeries(db, s, t, by, agg, step, w))
AskLabels == \E ss \in {<<>>} \cup {<<s>> : s \in Scripts} \cup {<<s, <<Sel("k", "=", "v1")>>>> : s \in Scripts}, w \in Windows, names \in {{}, {"k"}} :
               Ask([kind |-> "labels", scripts |-> ss, w |-> w, filter |-> names],
                   [names |-> LabelNames(db, ss, w), values |-> LabelValues(db, ss, "k", w),
                    series |-> PlanSeries(db, ss, names, w)])
AskStats == \E s \in Scripts, w \in Windows :
              Ask([kind |-> "stats"], [stats |-> ProfileStats(db), impact |-> AnalyzeQuery(db, s, w), types |-> ProfileTypes(db, w)])

Next == \/ PushPprof \/ PushOtlp \/ PushOdd
        \/ AskFlame \/ AskRender \/ AskDot \/ AskDiff \/ AskMerge \/ AskSeries \/ AskLabels \/ AskStats

Spec == Init /\ [][Next]_vars

(******************************* Properties ********************************)
Of(kind) == ask.kind = kind
PprofOf(row) == IF row.otlp THEN OtlpToPProf(row.payload) ELSE row.payload
(* A frame of a profile by its texts, and the name the trees give it.      *)
Frame(p, id) == LET l == ById(p.locations, id)
                    name(fn) == IF \E f \in ToSet(p.functions) : f.id = fn
                                THEN <<StrAt(p.strings, ById(p.functions, fn).name)>> ELSE <<>>
                IN  <<l.addr, [k \in DOMAIN l.lines |-> name(l.lines[k].fn)]>>
FrameText(frame) == IF frame[2] # <<>> /\ frame[2][1] \notin {<<>>, <<"">>} THEN frame[2][1][1] ELSE frame[1]
Frames(p, s) == [k \in DOMAIN s.locs |-> Frame(p, s.locs[k])]
IndexOfType(row, t) == SelectInSeq(row.types, LAMBDA x : x = <<t.sample, t.unit>>)
(* What a profile's samples without a stack are worth.                     *)
StacklessOf(samples, j) == SumOf({i \in DOMAIN samples : samples[i].locs = <<>>}, LAMBDA i : samples[i].vals[j])
Stackless(row, j) == StacklessOf(PprofOf(row).samples, j)

(* go_pprof.go, otlp_profile.go: the total of a stored node is its self    *)
(* and its children's totals, and the nodes at the root and the samples    *)
(* without a stack make the sum of values_agg, for every sample type.      *)
TreesAddUp ==
  \A i \in DOMAIN db : \A j \in DOMAIN db[i].types :
    LET tree == db[i].tree
        under(p) == SumOf({q \in DOMAIN tree : Front(q) = p}, LAMBDA q : tree[q][j].total)
    IN  /\ \A p \in DOMAIN tree : tree[p][j].total = tree[p][j].self + under(p)
        /\ db[i].agg[j][2] = under(Root) + Stackless(db[i], j)

(* otlp_profile.go, otlp_pprof.go: the payload cut out of a shared         *)
(* dictionary still tells the stacks of the stored tree once the reader    *)
(* has converted it, unless a stack has a location the dictionary lacks.   *)
PayloadTellsTheTree ==
  \A i \in DOMAIN db :
    LET p == PprofOf(db[i])
        tree == FoldLeft(LAMBDA acc, s : AddSample(acc, [k \in DOMAIN s.locs |-> FrameText(Frame(p, s.locs[k]))], s.vals),
                         <<>>, p.samples)
        hasUnknown == \E path \in DOMAIN db[i].tree : "n/a" \in ToSet(path)
    IN  (db[i].otlp /\ ~hasUnknown) => tree = db[i].tree /\ TypesOf(p) = db[i].types

(* Where a bar of a level starts.                                          *)
Start(level, k, Skip(_), Width(_)) == SumOf(1 .. k, LAMBDA i : Skip(level[i])) + SumOf(1 .. k - 1, LAMBDA i : Width(level[i]))
Nested(levels, Skip(_), Width(_)) ==
  \A n \in 2 .. Len(levels) : \A k \in DOMAIN levels[n] :
    LET up == levels[n - 1]
        x == Start(levels[n], k, Skip, Width)
    IN  /\ Skip(levels[n][k]) >= 0
        /\ \E m \in DOMAIN up : /\ up[m].path = Front(levels[n][k].path)
                                /\ Start(up, m, Skip, Width) <= x
                                /\ x + Width(levels[n][k]) <= Start(up, m, Skip, Width) + Width(up[m])
Cut(nodes) == NodesNum(nodes) >= MaxNodes
BarsOf(levels) == UNION {ToSet(levels[n]) : n \in DOMAIN levels}

(* prof_tree.go BFS: every node of the tree is one bar, the bars of a      *)
(* level do not overlap, and each lies under its parent, in whatever order *)
(* the children come, unless the tree was cut at MaxNodes.                 *)
BarsNest ==
  (Of("flame") \/ Of("render")) =>
    /\ {b.path : b \in BarsOf(answer.levels)} = {Root} \cup {n.path : n \in AllNodes(answer.nodes)}
    /\ SumOf(DOMAIN answer.levels, LAMBDA n : Len(answer.levels[n])) = 1 + NodesNum(answer.nodes)
    /\ Cut(answer.nodes) \/ Nested(answer.levels, LAMBDA b : b.skip, LAMBDA b : b.total)

(* prof_tree.go mergeNodes, computeFlameGraphDiff: the difference shows    *)
(* every node of either tree once with its values of both, and on both     *)
(* sides each bar lies under its parent.                                   *)
DiffAligned ==
  (Of("diff") /\ answer.err = "" /\ ~Cut(answer.l) /\ ~Cut(answer.r)) =>
    LET bars == BarsOf(answer.diff.levels)
        value(nodes, p) == SumOf({n \in AllNodes(nodes) : n.path = p}, LAMBDA n : n.total)
    IN  /\ {b.path : b \in bars} = {Root} \cup {n.path : n \in AllNodes(answer.l) \cup AllNodes(answer.r)}
        /\ \A b \in bars : b.path # Root => b.left.total = value(answer.l, b.path) /\ b.right.total = value(answer.r, b.path)
        /\ Nested(answer.diff.levels, LAMBDA b : b.skipL, LAMBDA b : b.left.total)
        /\ Nested(answer.diff.levels, LAMBDA b : b.skipR, LAMBDA b : b.right.total)

(* prof_tree.go ToDot: the nodes left out of the graph are no heavier than *)
(* any shown, at least maxNodes are shown if there are as many, and more   *)
(* only when nodes weigh the same.                                         *)
DotKeepsTheHeaviest ==
  Of("dot") =>
    LET all == AllNodes(answer.nodes)
        lightest == IF answer.dot = {} THEN 0 ELSE Min({n.total : n \in answer.dot})
    IN  IF ask.n = 0 THEN answer.dot = all
        ELSE /\ \A n \in all \ answer.dot : \A m \in answer.dot : n.total <= m.total
             /\ Cardinality(answer.dot) >= Min({ask.n, Cardinality(all)})
             /\ lightest > 0 => Cardinality({n \in answer.dot : n.total > lightest}) < ask.n

Chosen == {db[i] : i \in MergeProfilesRows(db, ask.script, ask.type, ask.w)}
NotEmpty(p) == p.samples # <<>> /\ Len(p.strings) >= 2
Contributes(row) == NotEmpty(PprofOf(row))
LabelTexts(p, s) == {<<StrAt(p.strings, l.key), StrAt(p.strings, l.str)>> : l \in ToSet(s.labels)}
(* Locations go with any line that has no function.                        *)
Survives(p, s) == \A k \in DOMAIN s.locs : \A n \in DOMAIN Frame(p, s.locs[k])[2] : Frame(p, s.locs[k])[2][n] # <<>>

Key(p, s) == <<Frames(p, s), LabelTexts(p, s)>>
Kept(p) == {i \in DOMAIN p.samples : Survives(p, p.samples[i])}
KeysOf(p) == {Key(p, p.samples[i]) : i \in Kept(p)}
Weighs(p, k, j) == SumOf({i \in Kept(p) : Key(p, p.samples[i]) = k}, LAMBDA i : p.samples[i].vals[j])
SumsUp(rows, keys) ==
  /\ \A r \in rows : TypesOf(answer) = r.types
  /\ {Key(answer, s) : s \in ToSet(answer.samples)} = keys
  /\ Len(answer.samples) = Cardinality(keys)
  /\ \A k \in keys, j \in DOMAIN answer.types : Weighs(answer, k, j) = SumOf(rows, LAMBDA r : Weighs(PprofOf(r), k, j))

(* prof_merge_v1.go, prof_merge_v2.go: each stack, with its labels, weighs *)
(* in the merged profile what it weighs in the profiles together, though   *)
(* every index and id was rewritten; samples through a line that has no    *)
(* function are lost.                                                      *)
MergedAddsUp ==
  (Of("merge") /\ answer.err = "") =>
    LET rows == {r \in Chosen : Contributes(r)}
    IN  SumsUp(rows, UNION {KeysOf(PprofOf(r)) : r \in rows})

(* prof_merge_v1.go compatible, prof_merge_v2.go: a merge fails exactly    *)
(* when two of its profiles have other sample types, which a query by one  *)
(* type id finds, or one was pushed as pprof without a period type, on     *)
(* which it panics; OTLP profiles without one are merged.                  *)
MergeErrorsHaveCause ==
  Of("merge") =>
    LET rows == {r \in Chosen : Contributes(r)}
        bare == {r \in rows : ~r.otlp /\ r.period = <<"", "">>}
    IN  /\ answer.err # "" <=> bare # {} \/ \E r, q \in rows : r.types # q.types
        /\ answer.err = "panic" => bare # {}

(* planner_selector.go: a merge takes the profiles of the window that meet *)
(* the script and have the type.  It may miss one that lacks a tag the     *)
(* script speaks of, or whose series begins in the half hour after         *)
(* midnight that FormatFromDate takes off the end; and it may take one too *)
(* many when a matcher holds for another of its sample types.              *)
SelectionMeansScript ==
  Of("merge") =>
    LET t == ask.type
        tag(r, name) == LET is == {i \in DOMAIN r.tags : r.tags[i][1] = name} IN IF is = {} THEN "" ELSE r.tags[Max(is)][2]
        meets(r, sel) == CASE sel.name = "service_name" -> GetMatcherClause(sel.op, r.service, sel.val)
                           [] sel.name = "__sample_type__" -> GetMatcherClause(sel.op, t.sample, sel.val)
                           [] sel.name = "__profile_type__" -> GetMatcherClause(sel.op, FullType(r, <<t.sample, t.unit>>), sel.val)
                           [] OTHER -> GetMatcherClause(sel.op, tag(r, sel.name), sel.val)
        typed(r) == r.type = t.type /\ r.period = <<t.period, t.punit>> /\ <<t.sample, t.unit>> \in ToSet(r.types)
        inside(r) == ask.w.from <= r.ts /\ r.ts <= ask.w.to
        wanted(r) == inside(r) /\ typed(r) /\ \A i \in DOMAIN ask.script : meets(r, ask.script[i])
        lacks(r) == \E i \in DOMAIN ask.script :
                      ask.script[i].name \notin GlobalNames /\ tag(r, ask.script[i].name) = ""
        night(r) == Date(r.ts) > FormatFromDate(ask.w.to)
        loose(r) == Len(r.types) > 1
    IN  \A r \in {db[i] : i \in DOMAIN db} :
          /\ wanted(r) => r \in Chosen \/ lacks(r) \/ night(r)
          /\ r \in Chosen => inside(r) /\ (wanted(r) \/ loose(r))

(* planner_select_series.go, planner_merge_raw.go: over a window, the      *)
(* points of the time series and the total of the flame graph differ by    *)
(* what was stored at the very end of the window, which only the former    *)
(* takes in, and by the samples without a stack.                           *)
SeriesAgreeWithFlameGraph ==
  (Of("series") /\ answer.err = "") =>
    LET points == SumOf(answer.series, LAMBDA s : SumOf(s.points, LAMBDA p : p.value))
        value(r) == ArrayFirst(r.agg, TypeUnit(ask.type))
        last == {r \in Chosen : r.ts = ask.w.to}
        none(r) == LET j == IndexOfType(r, ask.type) IN IF j = 0 THEN 0 ELSE Stackless(r, j)
    IN  points = MergeStackTraces(db, ask.script, ask.type, ask.w, FALSE).total
                   + SumOf(last, value) + SumOf(Chosen \ last, none)

(* planner_select_series.go:50: time series are refused exactly when the   *)
(* average is asked for, whatever is stored, although                      *)
(* docs/profiling-api.md:65 lists it: "Aggregation type (sum, avg, etc.)". *)
OnlyAveragesFail == Of("series") => (answer.err # "" <=> ask.agg = "average")

(* prof.go Render: for one window the flame graph of the render endpoint   *)
(* and that of the querier differ by what was stored between the ends of   *)
(* the window and the whole seconds before them.                           *)
RenderLosesPartSeconds ==
  Of("render") =>
    LET full == PopulateTypeId(ask.script, ask.type)
        between(from, to) == {db[i] : i \in Rows(db, full, full, W(from, to), FALSE)}
        value(r) == LET j == IndexOfType(r, ask.type)
                    IN  IF j = 0 THEN 0 ELSE r.agg[j][2] - Stackless(r, j)
        whole(t) == t - (t % Second)
    IN  answer.total = MergeStackTraces(db, ask.script, ask.type, ask.w, FALSE).total
                         + SumOf(between(whole(ask.w.from), ask.w.from), value)
                         - SumOf(between(whole(ask.w.to), ask.w.to), value)

(* planner_get_labels.go: two time series of an answer have the same       *)
(* labels only if their profiles list the tags in another order or have    *)
(* other sample types.                                                     *)
SeriesApart ==
  (Of("series") /\ answer.err = "") =>
    \A a, b \in answer.series : (a # b /\ a.labels.tags = b.labels.tags) =>
      IF ask.by = {} THEN \E r, q \in Chosen : r.types # q.types
      ELSE LET by(r) == SelectSeq(r.tags, LAMBDA x : x[1] \in ask.by)
           IN  \E r, q \in Chosen : by(r) # by(q) /\ ToSet(by(r)) = ToSet(by(q))

(* planner_label_generic.go, transpiler.go: the label names and values of  *)
(* some scripts are those of the series the same scripts list.             *)
LabelsComeFromSeries ==
  (Of("labels") /\ ask.filter = {}) =>
    LET tags == UNION {ToSet(s.tags) : s \in answer.series}
    IN  answer.names \ {""} = {t[1] : t \in tags} /\ answer.values = {t[2] : t \in {x \in tags : x[1] = "k"}}

(* prof.go ProfileStats: looking at the first and the last day alone, the  *)
(* statistics still tell the oldest and the newest profile of all, and a   *)
(* query is never said to touch fewer series than it finds profiles of.    *)
StatsCoverEverything ==
  Of("stats") => /\ answer.stats.ingested = (db # <<>>)
                 /\ db # <<>> => /\ answer.stats.oldest = Min({db[i].ts : i \in DOMAIN db})
                                 /\ answer.stats.newest = Max({db[i].ts : i \in DOMAIN db})
                 /\ answer.impact.profiles > 0 => answer.impact.series > 0

(* go_pprof.go, otlp_profile.go, prof_merge_v1.go, prof_merge_v2.go:       *)
(* stored trees, payloads and merged profiles weigh every stack as the     *)
(* pushed profiles did.                                                    *)
ProfilesAddUp ==
  /\ TreesAddUp
  /\ PayloadTellsTheTree
  /\ MergedAddsUp
  /\ MergeErrorsHaveCause

(* prof_tree.go: the flame graph, the difference and the graph of the      *)
(* heaviest nodes show the merged tree.                                    *)
GraphsShowTheTree ==
  /\ BarsNest
  /\ DiffAligned
  /\ DotKeepsTheHeaviest

(* prof_transpiler, prof.go: flame graphs, time series, labels and         *)
(* statistics of one script and window are about the same profiles, those  *)
(* the script means.                                                       *)
ProfileAnswersAgree ==
  /\ SelectionMeansScript
  /\ SeriesAgreeWithFlameGraph
  /\ OnlyAveragesFail
  /\ RenderLosesPartSeconds
  /\ SeriesApart
  /\ LabelsComeFromSeries
  /\ StatsCoverEverything

(* docs/profiling-api.md: "maxNodes - Optional limit on number of nodes    *)
(* returned" by SelectMergeStacktraces; and prof_tree.go ToDot: "maxNodes  *)
(* limits output to the top-N nodes by total sample count".  No answer has *)
(* more nodes than were asked for.                                         *)
MaxNodesIsALimit ==
  (ask.kind \in {"flame", "dot"} /\ ask.n > 0) =>
    Cardinality(IF Of("dot") THEN answer.dot ELSE AllNodes(answer.nodes)) <= ask.n
=============================================================================
