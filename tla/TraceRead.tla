----------------------------- MODULE TraceRead ------------------------------
(***************************************************************************)
(* The reading side without a query language: one trace by its id, the tag *)
(* names and values, and the search by tags of /api/search.                *)
(***************************************************************************)
EXTENDS TraceStore

CONSTANT MaxTraceRows   \* rows of one trace that Query reads, 2000 in the code

(* The rows of a set, oldest first.                                        *)
ByTime(rows) == SetToSortSeq(rows, LAMBDA a, b : a.ts < b.ts)
NewestFirst(rows) == SetToSortSeq(rows, LAMBDA a, b : a.ts > b.ts)
Limited(seq, n) == IF n > 0 /\ n < Len(seq) THEN SubSeq(seq, 1, n) ELSE seq

(****************************** One trace **********************************)
GetQueryRequest(db, tid, start, end) ==
  Limited(ByTime({r \in db.traces : /\ r.tid = tid
                                    /\ start = 0 \/ r.ts >= start
                                    /\ end = 0 \/ r.ts < end}), MaxTraceRows)

Field(payload, key, none) ==
  LET at == {i \in DOMAIN payload.fields : payload.fields[i].key = key}
  IN  IF at = {} THEN none ELSE payload.fields[Min(at)].val

(* Identifiers of a Zipkin span are texts; a parent that is shorter than   *)
(* 16 digits is dropped here although the writer padded it.                *)
CONSTANT ShortIds
DecodeParentId(id) == IF id \in ShortIds THEN "" ELSE id

EndpointAttrs(name, ep) == IF ep = "" THEN <<>> ELSE <<<<name \o ".serviceName", StrValue(ep)>>>>
ParseZipkinJSON(row) ==
  LET p == row.payload
      tags == Field(p, "tags", <<>>)
      local == Field(p, "localEndpoint", "")
      remote == Field(p, "remoteEndpoint", "")
  IN  [tid |-> row.tid, sid |-> row.sid, parent |-> DecodeParentId(Field(p, "parentId", "")),
       name |-> Field(p, "name", ""), start |-> row.ts, end |-> row.ts + row.dur,
       kind |-> Field(p, "kind", "UNSPECIFIED"), status |-> "unset",
       service |-> IF local # "" THEN local ELSE remote,
       attrs |-> SelectSeq(tags, LAMBDA t : t[2].kind = "string")
                   \o EndpointAttrs("localEndpoint", local) \o EndpointAttrs("remoteEndpoint", remote)]

(* The last value of a key stays, in the order of a Go map.                *)
ParseOTLP(row) ==
  LET p == row.payload
      text(n) == IF n \in KeysOf(p.attrs) THEN GetStringValue(LastValue(p.attrs, n)) ELSE ""
      named == FirstNamed(LocalNames, text)
      service == IF named = "" THEN NoServiceName ELSE named
  IN  [tid |-> p.tid, sid |-> p.sid, parent |-> p.parent, name |-> p.name, start |-> p.start, end |-> p.end,
       kind |-> p.kind, status |-> p.status, service |-> service,
       attrs |-> SetToSeq(Override(LastWins(p.attrs), "service.name", StrValue(service)))]

(* The rows until the first one whose payload does not parse: the rest of  *)
(* the trace is dropped without an error.                                  *)
Parses(row) == row.ptype = "otlp" \/ row.payload # NoPayload
OutputQuery(rows) ==
  LET bad == {i \in DOMAIN rows : ~Parses(rows[i])}
      good == SubSeq(rows, 1, IF bad = {} THEN Len(rows) ELSE Min(bad) - 1)
  IN  [i \in DOMAIN good |-> IF good[i].ptype = "zipkin" THEN ParseZipkinJSON(good[i]) ELSE ParseOTLP(good[i])]

(* The text of a value in the JSON answer.                                 *)
JsonText(v) == IF v.kind \in {"string", "bool", "int", "double"} THEN v.str ELSE "{json}"
SpanToJSONSpan(span) ==
  LET texts == {<<span.attrs[i][1], JsonText(span.attrs[i][2])>> : i \in DOMAIN span.attrs}
      named == {i \in Indexes(span.attrs, "service.name") : GetStringValue(span.attrs[i][2]) # ""}
      service == IF named = {} THEN span.service ELSE GetStringValue(span.attrs[Max(named)][2])
      inject == service # "" /\ "service.name" \notin KeysOf(span.attrs)
  IN  [span EXCEPT !.service = service,
                   !.attrs = texts \cup IF inject THEN {<<"service.name", service>>} ELSE {}]

WriteTrace(spans, accept) ==
  IF spans = <<>> THEN [code |-> 404, spans |-> {}]
  ELSE [code |-> 200, spans |->
          IF accept = "protobuf"
          THEN {[spans[i] EXCEPT !.attrs = {<<@[j][1], JsonText(@[j][2])>> : j \in DOMAIN @}] : i \in DOMAIN spans}
          ELSE {SpanToJSONSpan(spans[i]) : i \in DOMAIN spans}]
Trace(db, tid, start, end, accept) ==
  WriteTrace(OutputQuery(GetQueryRequest(db, tid, start * Second, end * Second)), accept)

(******************************** Tags *************************************)
Tags(db) == {r.key : r \in db.kv}
(* A tag is written with a scope or without one: scope "" is the bare name.*)
Unscoped(tag) == IF tag.scope \in {"span", "dot", "resource"} THEN tag.name ELSE tag.text
Values(db, tag) ==
  LET name == IF tag.text = "status" THEN "otel.status_code" ELSE Unscoped(tag)
  IN  {r.val : r \in {k \in db.kv : k.key = name}}

(* With a start the version 2 requests look at the days asked for.         *)
OfDays(db, from, to) == {r \in db.kv : Date(from) <= r.date /\ r.date <= Date(to)}
AllTags(db, from, to) == {r.key : r \in OfDays(db, from, to)}
AllValues(db, key, from, to) == {r.val : r \in {k \in OfDays(db, from, to) : k.key = key}}

Answered(tags) == [err |-> "", tags |-> tags]
Refused(why) == [err |-> why, tags |-> {}]

(* q is "none", "empty" for {} and "cond" for a selector with a condition; *)
(* ClickHouse refuses the statement a condition leads to, because key is   *)
(* neither grouped by nor aggregated.  {} has no condition to evaluate and *)
(* TagsV2 follows a nil pointer.                                           *)
TagsV2(db, q, from, to) ==
  CASE from = 0 -> Answered(Tags(db))
    [] from # 0 /\ q = "none" -> Answered(AllTags(db, from, to))
    [] from # 0 /\ q = "empty" -> Refused("panic")
    [] from # 0 /\ q = "cond" -> Refused("clickhouse")
ValuesV2(db, tag, q, from, to) ==
  CASE from = 0 -> Answered(Values(db, tag))
    [] from # 0 /\ q = "none" -> Answered(AllTags(db, from, to))
    [] from # 0 /\ q = "empty" ->
         Answered(AllValues(db, IF tag.text = "status" THEN "otel.status_code" ELSE tag.text, from, to))
    [] from # 0 /\ q = "cond" -> Refused("clickhouse")

(*************************** Search by tags ********************************)
(* A tag of the search is a key, a condition and a value; match gives the  *)
(* meaning of the regular expressions.                                     *)
CONSTANT Match(_, _)
TagHolds(cond, val, want) ==
  CASE cond = "=" -> val = want
    [] cond = "!=" -> val # want
    [] cond = "=~" -> Match(val, want)
    [] cond = "!~" -> ~Match(val, want)

(* The version the index is asked about, tempo_v2, is one no upgrade of    *)
(* the schema records: only the dates of the window narrow the index.      *)
IndexSpans(db, tag, from, to) ==
  {<<a.tid, a.sid>> : a \in {x \in db.attrs : /\ x.key = tag.key /\ TagHolds(tag.cond, x.val, tag.val)
                                              /\ from > 0 => Date(x.ts) >= Date(from)
                                              /\ to > 0 => Date(x.ts) <= Date(to)}}

SQLIndexQuery(db, tags, from, to) ==
  {s \in IndexSpans(db, tags[1], from, to) : \A i \in DOMAIN tags : s \in IndexSpans(db, tags[i], from, to)}

DurMs(row) == row.dur \div Ms
GetTracesQuery(db, q) ==
  LET index == SQLIndexQuery(db, q.tags, q.from, q.to)
      rows == {r \in db.traces : /\ q.tags # <<>> => <<r.tid, r.sid>> \in index
                                 /\ q.from > 0 => r.ts > q.from
                                 /\ q.to > 0 => r.ts <= q.to
                                 /\ q.min > 0 => DurMs(r) > q.min \div Ms
                                 /\ q.max > 0 => DurMs(r) <= q.max \div Ms}
  IN  Limited(NewestFirst(rows), q.limit)

(* One entry per span, named after the span.                               *)
Search(db, q) ==
  LET rows == GetTracesQuery(db, q)
  IN  [i \in DOMAIN rows |-> [tid |-> rows[i].tid, rootService |-> rows[i].service, rootName |-> rows[i].name,
                              start |-> rows[i].ts, durMs |-> DurMs(rows[i])]]

=============================================================================
