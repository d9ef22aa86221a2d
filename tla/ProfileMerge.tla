---------------------------- MODULE ProfileMerge ----------------------------
(***************************************************************************)
(* How the reader merges stored payloads into one pprof profile: the       *)
(* conversion of OTLP payloads, the clean-up of a profile's tables and the *)
(* rewriting of every index into the tables of the merged one.  The city   *)
(* hashes the tables are keyed by are taken to be injective.               *)
(***************************************************************************)
EXTENDS ProfileStore

(************************* OTLP payloads as pprof **************************)
(* The values of fs in the order they are first met.                       *)
Distinct(seq) == FoldLeft(LAMBDA acc, x : IF x \in ToSet(acc) THEN acc ELSE Append(acc, x), <<>>, seq)
Position(seq, x) == CHOOSE i \in DOMAIN seq : seq[i] = x

OtlpToPProf(o) ==
  LET d == o.dict  p == o.profile
      text(i) == StrAt(d.strings, i)
      stack(s) == IF InTable(d.stacks, s.stack) THEN At(d.stacks, s.stack) ELSE <<>>
      locs == Distinct(FlattenSeq([i \in DOMAIN p.samples |-> stack(p.samples[i])]))
      lines(l) == IF InTable(d.locations, l) THEN At(d.locations, l).lines ELSE <<>>
      fns == Distinct(FlattenSeq([i \in DOMAIN locs |-> lines(locs[i])]))
      fnName(f) == IF InTable(d.functions, f) THEN text(At(d.functions, f)) ELSE ""
      strings == Distinct(<<"", text(p.type[1]), text(p.type[2]), text(p.period[1]), text(p.period[2])>>
                            \o [i \in DOMAIN fns |-> fnName(fns[i])])
      intern(s) == Position(strings, s) - 1
  IN  [strings |-> strings, types |-> <<[type |-> intern(text(p.type[1])), unit |-> intern(text(p.type[2]))]>>,
       period |-> [type |-> intern(text(p.period[1])), unit |-> intern(text(p.period[2]))],
       functions |-> [i \in DOMAIN fns |-> [id |-> i, name |-> intern(fnName(fns[i])), file |-> 0]],
       mappings |-> <<>>,
       locations |-> [i \in DOMAIN locs |->
                        [id |-> i, mapping |-> 0,
                         addr |-> IF InTable(d.locations, locs[i]) THEN At(d.locations, locs[i]).addr ELSE "",
                         lines |-> [k \in DOMAIN lines(locs[i]) |-> [fn |-> Position(fns, lines(locs[i])[k]), line |-> 0]]]],
       samples |-> [i \in DOMAIN p.samples |->
                      [locs |-> [k \in DOMAIN stack(p.samples[i]) |-> Position(locs, stack(p.samples[i])[k])],
                       vals |-> <<SampleValue(p.samples[i])>>, labels |-> <<>>]],
       time |-> 0, duration |-> 0]

(****************************** Cleaning up ********************************)
(* The empty text moves to index 0; entries are numbered from 1; locations *)
(* without a mapping share a new one, and those of an unknown mapping or   *)
(* with a line of an unknown function go, and the samples through them.    *)
SanitizeProfile(p) ==
  LET strings0 == IF "" \in ToSet(p.strings) THEN p.strings ELSE Append(p.strings, "")
      z == SelectInSeq(strings0, LAMBDA s : s = "")
      strings == [strings0 EXCEPT ![1] = strings0[z], ![z] = strings0[1]]
      str(i) == CASE i = 0 /\ z > 1 -> z - 1
                  [] i = z - 1 \/ ~InTable(strings, i) -> 0
                  [] OTHER -> i
      value(t) == [type |-> str(t.type), unit |-> str(t.unit)]
      number(table, id) == IF \E e \in ToSet(table) : e.id = id
                           THEN SelectLastInSeq(table, LAMBDA e : e.id = id) ELSE 0
      renumbered(table) == [i \in DOMAIN table |-> [table[i] EXCEPT !.id = i]]
      shared == Len(p.mappings) + 1
      mappings == renumbered([i \in DOMAIN p.mappings |-> [p.mappings[i] EXCEPT !.build = str(@), !.file = str(@)]])
      mapped == [i \in DOMAIN p.locations |->
                   [p.locations[i] EXCEPT !.mapping = IF @ = 0 THEN shared ELSE number(p.mappings, @),
                      !.lines = [k \in DOMAIN @ |-> [@[k] EXCEPT !.fn = number(p.functions, @)]]]]
      locations == SelectSeq(mapped, LAMBDA l : l.mapping # 0 /\ \A k \in DOMAIN l.lines : l.lines[k].fn # 0)
      label(l) == [l EXCEPT !.key = str(@), !.str = str(@), !.numUnit = str(@)]
      sampled == [i \in DOMAIN p.samples |->
                    [p.samples[i] EXCEPT !.locs = [k \in DOMAIN @ |-> number(locations, @[k])],
                                         !.labels = [k \in DOMAIN @ |-> label(@[k])]]]
  IN  [p EXCEPT !.strings = strings, !.types = [i \in DOMAIN @ |-> value(@[i])],
         !.period = IF @ = NoPeriodType THEN @ ELSE value(@),
         !.functions = renumbered([i \in DOMAIN @ |-> [@[i] EXCEPT !.name = str(@), !.file = str(@)]]),
         !.mappings = IF \E l \in ToSet(p.locations) : l.mapping = 0
                      THEN Append(mappings, [id |-> shared, build |-> 0, file |-> 0]) ELSE mappings,
         !.locations = renumbered(locations),
         !.samples = SelectSeq(sampled, LAMBDA s : Len(s.vals) = Len(p.types) /\ \A k \in DOMAIN s.locs : s.locs[k] # 0)]

(****************************** Rewriting **********************************)
FunctionKey(f) == <<f.name, f.file>>
MappingKey(m) == IF m.build # 0 THEN m.build ELSE m.file
LocationKey(l) == <<l.addr, l.lines, l.mapping>>

(* Labels are keyed by key and text, whatever their number.                *)
SampleKey(s) == <<s.locs, [kv \in {<<l.key, l.str>> : l \in ToSet(s.labels)} |->
                             Cardinality({k \in DOMAIN s.labels : <<s.labels[k].key, s.labels[k].str>> = kv})]>>

(* The table with the entries it lacks, and where a table has an entry.    *)
Rewrite(table, entries, Key(_)) ==
  FoldLeft(LAMBDA acc, e : IF \E i \in DOMAIN acc : Key(acc[i]) = Key(e) THEN acc
                           ELSE Append(acc, e), table, entries)
Get(table, e, Key(_)) == CHOOSE i \in DOMAIN table : Key(table[i]) = Key(e)

NewMerge == [err |-> "", started |-> FALSE, strings |-> <<>>, functions |-> <<>>, mappings |-> <<>>,
             locations |-> <<>>, samples |-> <<>>, types |-> <<>>, period |-> [type |-> 0, unit |-> 0],
             time |-> 0, duration |-> 0]

CombineHeaders(m, p) ==
  LET a == IF m.started THEN m
           ELSE [m EXCEPT !.started = TRUE, !.types = p.types, !.period = p.period, !.time = p.time]
  IN  IF a.period # p.period \/ a.types # p.types
      THEN [a EXCEPT !.err = "incompatible"]
      ELSE [a EXCEPT !.time = IF a.time = 0 \/ p.time < a.time THEN p.time ELSE @, !.duration = @ + p.duration]

(* The unit of a label's number keeps its index.                           *)
MergeTables(m, p) ==
  LET same(x) == x
      strings == Rewrite(m.strings, p.strings, same)
      strIdx(i) == Get(strings, At(p.strings, i), same) - 1
      value(t) == [type |-> strIdx(t.type), unit |-> strIdx(t.unit)]
      head == CombineHeaders([m EXCEPT !.strings = strings],
                             [p EXCEPT !.types = [i \in DOMAIN @ |-> value(@[i])], !.period = value(@)])
      fs == [i \in DOMAIN p.functions |-> [p.functions[i] EXCEPT !.name = strIdx(@), !.file = strIdx(@)]]
      functions == Rewrite(m.functions, fs, FunctionKey)
      ms == [i \in DOMAIN p.mappings |-> [p.mappings[i] EXCEPT !.build = strIdx(@), !.file = strIdx(@)]]
      mappings == Rewrite(m.mappings, ms, MappingKey)
      line(l) == [l EXCEPT !.fn = Get(functions, fs[@], FunctionKey)]
      ls == [i \in DOMAIN p.locations |->
               [p.locations[i] EXCEPT !.mapping = Get(mappings, ms[@], MappingKey),
                                      !.lines = [k \in DOMAIN @ |-> line(@[k])]]]
      locations == Rewrite(m.locations, ls, LocationKey)
      ss == [i \in DOMAIN p.samples |->
               [p.samples[i] EXCEPT !.locs = [k \in DOMAIN @ |-> Get(locations, ls[@[k]], LocationKey)],
                                    !.labels = [k \in DOMAIN @ |-> [@[k] EXCEPT !.key = strIdx(@), !.str = strIdx(@)]]]]
      zero(s) == [s EXCEPT !.vals = [j \in DOMAIN @ |-> 0]]
      samples == Rewrite(m.samples, [i \in DOMAIN ss |-> zero(ss[i])], SampleKey)
      into(k, j) == SumOf({i \in DOMAIN ss : Get(samples, ss[i], SampleKey) = k}, LAMBDA i : ss[i].vals[j])
  IN  IF head.err # "" THEN head
      ELSE [head EXCEPT !.functions = functions, !.mappings = mappings, !.locations = locations,
              !.samples = [k \in DOMAIN samples |->
                             [samples[k] EXCEPT !.vals = [j \in DOMAIN @ |-> @[j] + into(k, j)]]]]

(* The clean-up minds a profile without a period type, the merge does not. *)
Merge(m, p) ==
  CASE p.samples = <<>> \/ Len(p.strings) < 2 -> m
    [] p.period = NoPeriodType -> [m EXCEPT !.err = "panic"]
    [] OTHER -> MergeTables(m, SanitizeProfile(p))

(* Profile(): the tables with their entries numbered from 1.               *)
Numbered(table) == [i \in DOMAIN table |-> [table[i] EXCEPT !.id = i]]
Profile(m) == [m EXCEPT !.functions = Numbered(@), !.mappings = Numbered(@), !.locations = Numbered(@)]

MergeAll(rows) ==
  Profile(FoldLeft(LAMBDA m, row : IF m.err # "" THEN m
                                   ELSE Merge(m, IF row.otlp THEN OtlpToPProf(row.payload) ELSE row.payload),
                   NewMerge, rows))

=============================================================================
