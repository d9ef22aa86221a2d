---------------------------- MODULE ProfileStore ----------------------------
(***************************************************************************)
(* How pushed profiles become rows: the pprof decoders, multipart and      *)
(* binary, and the OTLP decoder of the writer, and the tables profiles,    *)
(* profiles_series and profiles_series_gin that ClickHouse derives from    *)
(* what they insert.                                                       *)
(*                                                                         *)
(* A pprof profile is its tables: entries of functions, mappings and       *)
(* locations have ids, texts are indexes into strings, counted from 0.  It *)
(* is given as google/pprof writes it, with "" first in strings.  The city *)
(* hash of a tree node (parent, function, level) is taken to be injective: *)
(* a node is the path of function names that leads to it.                  *)
(***************************************************************************)
EXTENDS Integers, Sequences, FiniteSets, SequencesExt, FiniteSetsExt, Functions

CONSTANTS NsMin,    \* the least nanosecond timestamp, 10^18 in the code
          MaxBody,  \* the limit of a decompressed multipart profile, 100000
          Day       \* ticks per day

ASSUME ProfileStoreAssumption == NsMin \in Nat \ {0} /\ MaxBody \in Nat /\ Day \in Nat \ {0}

Date(ts) == ts \div Day
At(table, i) == table[i + 1]
InTable(table, i) == 0 <= i /\ i < Len(table)
StrAt(strings, i) == IF InTable(strings, i) THEN At(strings, i) ELSE ""
SumOf(S, Val(_)) == FoldSet(LAMBDA x, acc : Val(x) + acc, 0, S)
ValueName(t) == t[1] \o ":" \o t[2]
ById(table, id) == CHOOSE e \in ToSet(table) : e.id = id

(*************************** The tree of a profile *************************)
(* A node has, of every sample type, its self and its total value.  A      *)
(* sample adds to the total of each node on its stack, and to the self of  *)
(* the last.  The frames of a sample come leaf first.                      *)
AddSample(tree, frames, vals) ==
  LET stack == Reverse(frames)
      visited == {SubSeq(stack, 1, i) : i \in DOMAIN stack}
      old(p) == IF p \in DOMAIN tree THEN tree[p] ELSE [j \in DOMAIN vals |-> [self |-> 0, total |-> 0]]
      new(p) == [j \in DOMAIN vals |-> [self |-> old(p)[j].self + (IF p = stack THEN vals[j] ELSE 0),
                                        total |-> old(p)[j].total + vals[j]]]
  IN  [p \in DOMAIN tree \cup visited |-> IF p \in visited THEN new(p) ELSE tree[p]]

FrameOf(p, loc) == LET lines == ById(p.locations, loc).lines
                   IN  IF lines = <<>> THEN "n/a" ELSE StrAt(p.strings, ById(p.functions, lines[1].fn).name)
FramesOf(p, s) == [i \in DOMAIN s.locs |-> FrameOf(p, s.locs[i])]
PostProcessProf(p) ==
  FoldLeft(LAMBDA tree, s : AddSample(tree, FramesOf(p, s), s.vals), <<>>, p.samples)

(********************************** Pprof **********************************)
TypesOf(p) == [i \in DOMAIN p.types |-> <<StrAt(p.strings, p.types[i].type), StrAt(p.strings, p.types[i].unit)>>]
ProfileType(periodType) ==
  CASE periodType = "cpu" -> "process_cpu"
    [] periodType \in {"mutex", "contentions"} -> "mutex"
    [] periodType = "goroutine" -> "goroutines"
    [] periodType \in {"objects", "space", "alloc", "inuse"} -> "memory"
    [] periodType \in {"wall", "block"} -> periodType
    [] OTHER -> ""
CalculateSumAndCount(p, j) ==
  <<SumOf(DOMAIN p.samples, LAMBDA i : p.samples[i].vals[j]), Len(p.samples)>>
ValuesAgg(p) == [j \in DOMAIN p.types |-> <<ValueName(TypesOf(p)[j])>> \o CalculateSumAndCount(p, j)]

(* Multiplying 0 by ten never reaches NsMin.                               *)
RECURSIVE Ns(_)
Ns(t) == IF t >= NsMin THEN t ELSE Ns(10 * t)

(* The fields between = and , of the name's braces; empty ones are lost.   *)
Words(fields) == SelectSeq(fields, LAMBDA w : w # "")
Tags(fields) == [i \in 1 .. Len(Words(fields)) \div 2 |-> <<Words(fields)[2 * i - 1], Words(fields)[2 * i]>>]
NameError(name) ==
  CASE name.braces = "none" -> ""
    [] name.braces = "open" -> "panic"
    [] name.fields # <<>> /\ Len(Words(name.fields)) \in {0} \cup {2 * i + 1 : i \in 0 .. Len(name.fields)} -> "labels"
    [] OTHER -> ""

ProcessMIMEData(body) == IF body.boundary /\ body.file THEN "" ELSE "form"
Decompress(body) ==
  CASE ~body.gzip -> "gzip"
    [] body.size < 1 -> "empty"
    [] body.size > MaxBody -> "size"
    [] OTHER -> ""
BodyError(body) ==
  CASE body.kind = "multipart" /\ ProcessMIMEData(body) # "" -> ProcessMIMEData(body)
    [] body.kind = "multipart" -> Decompress(body)
    [] OTHER -> ""

(* google/pprof checks the ids and the number of values; a line may still  *)
(* have no function, on which the decoder panics when it is the first.     *)
ParseError(p) ==
  LET ids(table) == {e.id : e \in ToSet(table)}
  IN  CASE \E s \in ToSet(p.samples) : Len(s.vals) # Len(p.types) \/ ~(ToSet(s.locs) \subseteq ids(p.locations)) -> "parse"
        [] \E s \in ToSet(p.samples) : \E l \in ToSet(s.locs) :
             LET lines == ById(p.locations, l).lines IN lines # <<>> /\ lines[1].fn \notin ids(p.functions) -> "panic"
        [] OTHER -> ""

(* What google/pprof writes back has no period type unless the type or the *)
(* unit is named.                                                          *)
NoPeriodType == [type |-> -1, unit |-> -1]
WriteUncompressed(p) ==
  IF StrAt(p.strings, p.period.type) = "" /\ StrAt(p.strings, p.period.unit) = ""
  THEN [p EXCEPT !.period = NoPeriodType] ELSE p

Refused(err) == [err |-> err, rows |-> <<>>]
OnProfiles(rows) == [err |-> "", rows |-> rows]
PprofDecode(b) ==
  LET p == b.profile
      period == <<StrAt(p.strings, p.period.type), StrAt(p.strings, p.period.unit)>>
  IN  CASE b.from < 0 \/ b.until < 0 -> Refused("time")
        [] NameError(b.name) # "" -> Refused(NameError(b.name))
        [] b.from = 0 \/ b.until = 0 -> Refused("hang")
        [] BodyError(b.body) # "" -> Refused(BodyError(b.body))
        [] ParseError(p) # "" -> Refused(ParseError(p))
        [] OTHER -> OnProfiles(
             <<[ts |-> Ns(b.from), type |-> ProfileType(period[1]), service |-> b.name.app, types |-> TypesOf(p),
                period |-> period, tags |-> IF b.name.braces = "none" THEN <<>> ELSE Tags(b.name.fields),
                otlp |-> FALSE, payload |-> WriteUncompressed(p), agg |-> ValuesAgg(p), tree |-> PostProcessProf(p)]>>)

(********************************** OTLP ***********************************)
(* A profile refers to the dictionary that all profiles of a body share.   *)
FrameName(d, loc) ==
  LET fn == IF loc.lines = <<>> THEN -1 ELSE loc.lines[1]
      name == IF InTable(d.functions, fn) THEN StrAt(d.strings, At(d.functions, fn)) ELSE ""
  IN  IF name # "" THEN name ELSE loc.addr
OtlpFrames(d, stack) ==
  [i \in DOMAIN stack |-> IF InTable(d.locations, stack[i]) THEN FrameName(d, At(d.locations, stack[i])) ELSE "n/a"]
SampleValue(s) == SumOf(DOMAIN s.vals, LAMBDA i : s.vals[i])
BuildOTLPTree(d, p) ==
  FoldLeft(LAMBDA tree, s : IF InTable(d.stacks, s.stack)
                            THEN AddSample(tree, OtlpFrames(d, At(d.stacks, s.stack)), <<SampleValue(s)>>)
                            ELSE tree,
           <<>>, p.samples)

(* Mutant: the index in the shared dictionary is kept.                     *)
RemapIdxNowhere(keys, i) == i

(* The new index of an entry among those that are kept.                    *)
RemapIdx(keys, i) == IF i \in keys THEN Cardinality({k \in keys : k < i}) ELSE i

(* The entries of the shared dictionary a profile leads to.  Links, and    *)
(* the attributes of locations and mappings, go the way of a sample's      *)
(* attributes and are left out.                                            *)
Referenced(d, p) ==
  LET known(is, table) == {i \in is : InTable(table, i)}
      entries(is, table) == {At(table, i) : i \in is}
      samples == ToSet(p.samples)
      stacks == known({s.stack : s \in samples}, d.stacks)
      locs == known(UNION {ToSet(st) : st \in entries(stacks, d.stacks)}, d.locations)
      maps == known({l.mapping : l \in entries(locs, d.locations)}, d.mappings)
      fns == known(UNION {ToSet(l.lines) : l \in entries(locs, d.locations)}, d.functions)
      attrs == known(ToSet(p.attrs) \cup UNION {ToSet(s.attrs) : s \in samples}, d.attrs)
      strs == known({p.type[1], p.type[2], p.period[1], p.period[2]} \cup entries(maps, d.mappings)
                      \cup entries(fns, d.functions) \cup entries(attrs, d.attrs), d.strings)
  IN  [stacks |-> stacks, locs |-> locs, maps |-> maps, fns |-> fns, attrs |-> attrs, strs |-> strs]

(* The profile alone with the entries it refers to, in their old order     *)
(* under new indexes; an index that leads nowhere is kept, but left out of *)
(* a list.                                                                 *)
SliceOTLPProfile(d, p) ==
  LET ref == Referenced(d, p)
      each(keys, is) == [k \in DOMAIN is |-> RemapIdx(keys, is[k])]
      listed(keys, is) == each(keys, SelectSeq(is, LAMBDA i : i \in keys))
      table(keys, old, New(_)) == LET sorted == SetToSortSeq(keys, <) IN [k \in DOMAIN sorted |-> New(At(old, sorted[k]))]
      str(i) == RemapIdx(ref.strs, i)
      location(l) == [l EXCEPT !.mapping = RemapIdx(ref.maps, @), !.lines = each(ref.fns, @)]
      sample(s) == [s EXCEPT !.stack = RemapIdx(ref.stacks, @), !.attrs = listed(ref.attrs, @)]
  IN  [dict |-> [strings |-> table(ref.strs, d.strings, LAMBDA e : e),
                 functions |-> table(ref.fns, d.functions, str), mappings |-> table(ref.maps, d.mappings, str),
                 attrs |-> table(ref.attrs, d.attrs, str), locations |-> table(ref.locs, d.locations, location),
                 stacks |-> table(ref.stacks, d.stacks, LAMBDA st : listed(ref.locs, st))],
       profile |-> [p EXCEPT !.type = each(ref.strs, @), !.period = each(ref.strs, @), !.attrs = listed(ref.attrs, @),
                             !.samples = [i \in DOMAIN @ |-> sample(@[i])]]]

(* The last service.name of the resource and then the scope names it.      *)
ExtractOTLPMeta(resource, scope) ==
  LET attrs == resource \o scope
      names == SelectSeq(attrs, LAMBDA a : a[1] = "service.name")
  IN  [service |-> IF names = <<>> THEN "unknown_service" ELSE Last(names)[2],
       tags |-> SelectSeq(attrs, LAMBDA a : a[1] # "service.name")]
OtlpRow(d, resource, scope, p) ==
  LET meta == ExtractOTLPMeta(resource, scope)
      text(i) == StrAt(d.strings, i)
      type == <<text(p.type[1]), text(p.type[2])>>
  IN  [ts |-> p.time, type |-> type[1], service |-> meta.service, types |-> <<type>>,
       period |-> <<text(p.period[1]), text(p.period[2])>>, tags |-> meta.tags, otlp |-> TRUE,
       payload |-> SliceOTLPProfile(d, p),
       agg |-> <<<<ValueName(type), SumOf(DOMAIN p.samples, LAMBDA i : SampleValue(p.samples[i])), Len(p.samples)>>>>,
       tree |-> BuildOTLPTree(d, p)]
OtlpDecode(b) ==
  OnProfiles(FlattenSeq([i \in DOMAIN b.scopes |->
     [k \in DOMAIN b.scopes[i].profiles |->
        OtlpRow(b.dict, b.scopes[i].resource, b.scopes[i].scope, b.scopes[i].profiles[k])]]))

(******************************** The tables *******************************)
(* The views compute the fingerprint from the sorted tags and types.       *)
Fingerprint(row) ==
  [tags |-> [t \in ToSet(row.tags) |-> Cardinality({i \in DOMAIN row.tags : row.tags[i] = t})], type |-> row.type,
   period |-> row.period, types |-> ToSet(row.types), service |-> row.service]
SeriesRow(row) ==
  [date |-> Date(row.ts), fp |-> Fingerprint(row), type |-> row.type, period |-> row.period, types |-> row.types,
   service |-> row.service, tags |-> Append(row.tags, <<"service_name", row.service>>)]
ProfilesSeries(db) == {SeriesRow(db[i]) : i \in DOMAIN db}
ProfilesSeriesGin(db) ==
  UNION {{[s |-> s, key |-> s.tags[i][1], val |-> s.tags[i][2]] : i \in DOMAIN s.tags} : s \in ProfilesSeries(db)}

=============================================================================
