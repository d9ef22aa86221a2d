----------------------------- MODULE TraceStore -----------------------------
(***************************************************************************)
(* How pushed spans become rows: the OTLP and Zipkin decoders of the       *)
(* writer and the three tables they fill, tempo_traces, the attribute      *)
(* index tempo_traces_attrs_gin and its digest tempo_traces_kv.            *)
(*                                                                         *)
(* An attribute is a <<key, value>> pair.  A value has a kind, the text    *)
(* str that %v prints, for a double the text fixed that %f prints, and for *)
(* a list of pairs its items.  Time is in ticks, Ms of them a millisecond. *)
(***************************************************************************)
EXTENDS Integers, Sequences, FiniteSets, SequencesExt, FiniteSetsExt

CONSTANTS Ms,           \* ticks per millisecond, 10^6 in the code
          MsPerSecond,  \* 1000 in the code
          Day,          \* ticks per day
          MaxLine       \* the buffer of bufio.Scanner, 64 KB in the code,
                        \* in fields of the span that the line holds

Second == Ms * MsPerSecond
Date(ts) == ts \div Day

EmptyDb == [traces |-> {}, attrs |-> {}, kv |-> {}]

KeysOf(attrs) == {attrs[i][1] : i \in DOMAIN attrs}
Indexes(attrs, key) == {i \in DOMAIN attrs : attrs[i][1] = key}
FirstValue(attrs, key) == attrs[Min(Indexes(attrs, key))][2]
LastValue(attrs, key) == attrs[Max(Indexes(attrs, key))][2]
LastWins(pairs) == {<<k, LastValue(pairs, k)>> : k \in KeysOf(pairs)}

StrValue(s) == [kind |-> "string", str |-> s, fixed |-> "", items |-> <<>>]
GetStringValue(v) == IF v.kind = "string" THEN v.str ELSE ""

(********************************* OTLP ************************************)
NoServiceName == "OTLPResourceNoServiceName"
RemoteNames == <<"service.name", "faas.name", "k8s.deployment.name", "process.executable.name">>
LocalNames == <<"peer.service">> \o RemoteNames

(* The first of the names that has a text, "" when none has.               *)
FirstNamed(names, Text(_)) ==
  LET named == {i \in DOMAIN names : Text(names[i]) # ""}
  IN  IF named = {} THEN "" ELSE Text(names[Min(named)])

ServiceNames(attrs) ==
  LET text(name) == IF name \in KeysOf(attrs) THEN GetStringValue(FirstValue(attrs, name)) ELSE ""
      local == FirstNamed(LocalNames, text)
  IN  [local |-> IF local = "" THEN NoServiceName ELSE local, remote |-> FirstNamed(RemoteNames, text)]

PopulateServiceNames(attrs) ==
  LET names == ServiceNames(attrs)
      add(key, name) == IF key \in KeysOf(attrs) THEN <<>> ELSE <<<<key, StrValue(name)>>>>
  IN  attrs \o add("service.name", names.local) \o add("remoteService.name", names.remote)

(* An element of an array arrives wrapped once more than the switch on its *)
(* type expects, so arrays leave nothing; neither do bytes.                *)
WriteScalar(key, v) ==
  CASE v.kind \in {"string", "bool", "int"} -> <<<<key, v.str>>>>
    [] v.kind = "double" -> <<<<key, v.fixed>>>>
    [] OTHER -> <<>>
WriteAttrValue(key, v) ==
  IF v.kind = "kvlist"
  THEN FlattenSeq([i \in DOMAIN v.items |-> WriteScalar(key \o "." \o v.items[i][1], v.items[i][2])])
  ELSE WriteScalar(key, v)
InitAttributesMap(attrs) ==
  LastWins(FlattenSeq([i \in DOMAIN attrs |-> WriteAttrValue(attrs[i][1], attrs[i][2])]))

Override(pairs, key, val) == {p \in pairs : p[1] # key} \cup {<<key, val>>}

(* onSpan: the row of a span and a row of the index per attribute.         *)
OnSpan(db, row, pairs) ==
  LET attrs == {[tid |-> row.tid, sid |-> row.sid, ts |-> row.ts, dur |-> row.dur,
                 key |-> p[1], val |-> p[2]] : p \in pairs}
  IN  [traces |-> db.traces \cup {row},
       attrs |-> db.attrs \cup attrs,
       kv |-> db.kv \cup {[date |-> Date(a.ts), key |-> a.key, val |-> a.val] : a \in attrs}]

SpanRow(tid, sid, parent, name, ts, dur, service, ptype, payload) ==
  [tid |-> tid, sid |-> sid, parent |-> parent, name |-> name, ts |-> ts, dur |-> dur,
   service |-> service, ptype |-> ptype, payload |-> payload]

ValueIn(pairs, key) == IF \E p \in pairs : p[1] = key THEN (CHOOSE p \in pairs : p[1] = key)[2] ELSE ""

(* One span of OTLPDecoder.Decode, with the attributes of its resource.    *)
OtlpPairs(attrs, span) ==
  Override(Override(Override(InitAttributesMap(attrs),
     "name", span.name), "status", span.status), "kind", span.kind)
OtlpDecode(db, resource, span) ==
  LET attrs == PopulateServiceNames(span.attrs \o resource)
      pairs == OtlpPairs(attrs, span)
  IN  OnSpan(db, SpanRow(span.tid, span.sid, span.parent, span.name, span.start, span.end - span.start,
                         ValueIn(pairs, "service.name"), "otlp", [span EXCEPT !.attrs = attrs]), pairs)

(* A body is a sequence of resources with their spans.  Nothing of a body  *)
(* is kept when a resource is missing: Decode panics before the flush.     *)
PushOtlp(db, body) ==
  IF \E i \in DOMAIN body : ~body[i].described /\ body[i].spans # <<>>
  THEN [err |-> "panic", db |-> db]
  ELSE LET one(d, r) == FoldLeft(LAMBDA e, s : OtlpDecode(e, r.resource, s), d, r.spans)
       IN  [err |-> "", db |-> FoldLeft(one, db, body)]

(******************************** Zipkin ***********************************)
(* The decoder's fields; kv are the keys and the values found so far.      *)
ZipkinReset ==
  [tid |-> "", sid |-> "", ts |-> 0, dur |-> 0, parent |-> "", name |-> "", service |-> "", kv |-> <<>>]
NoPayload == [fields |-> <<>>]
Lower == [CLIENT |-> "client", SERVER |-> "server", PRODUCER |-> "producer", CONSUMER |-> "consumer"]

(* A Zipkin span is an object whose fields are visited in the order of the *)
(* text: each of them is one step of the decoder.                          *)
ParseEndpoint(prefix, ep) ==
  IF ep = "" THEN <<>> ELSE <<<<prefix \o "service_name", ep>>>>
ParseTags(tags) ==
  FlattenSeq([i \in DOMAIN tags |-> IF tags[i][2].kind = "string" THEN <<<<tags[i][1], tags[i][2].str>>>> ELSE <<>>])
DecodeField(z, f) ==
  CASE f.key = "traceId" -> [z EXCEPT !.tid = f.val]
    [] f.key = "id" -> [z EXCEPT !.sid = f.val]
    [] f.key = "parentId" -> [z EXCEPT !.parent = f.val]
    [] f.key = "timestamp" -> [z EXCEPT !.ts = f.val]
    [] f.key = "duration" -> [z EXCEPT !.dur = f.val]
    [] f.key = "name" -> [z EXCEPT !.name = f.val, !.kv = Append(@, <<"name", f.val>>)]
    [] f.key = "localEndpoint" ->
         [z EXCEPT !.service = f.val, !.kv = @ \o ParseEndpoint("local_endpoint_", f.val)]
    [] f.key = "remoteEndpoint" ->
         [z EXCEPT !.service = IF @ # "" THEN f.val ELSE @, !.kv = @ \o ParseEndpoint("remote_endpoint_", f.val)]
    [] f.key = "tags" -> [z EXCEPT !.kv = @ \o ParseTags(f.val)]
    [] f.key = "kind" -> [z EXCEPT !.kv = Append(@, <<"kind", Lower[f.val]>>)]
    [] OTHER -> z

StatusOf(kv) ==
  IF "otel.status_code" \notin KeysOf(kv) THEN <<>>
  ELSE CASE FirstValue(kv, "otel.status_code") = "ERROR" -> <<<<"status", "error">>>>
         [] FirstValue(kv, "otel.status_code") = "OK" -> <<<<"status", "ok">>>>
         [] OTHER -> <<>>

DecodeSpan(z, span) ==
  LET read == FoldLeft(DecodeField, z, span)
      named == Append(read.kv, <<"service.name", read.service>>)
  IN  [read EXCEPT !.kv = named \o StatusOf(named)]
ZipkinRow(z, payload) ==
  SpanRow(z.tid, z.sid, z.parent, z.name, z.ts, z.dur, z.service, "zipkin", payload)

(* Mutant: the fields are not reset between two spans.                     *)
PushZipkinKeeping(db, body) ==
  LET one(acc, span) == LET z == DecodeSpan(acc.z, span)
                        IN  [z |-> z, db |-> OnSpan(acc.db, ZipkinRow(z, [fields |-> span]), ToSet(z.kv))]
  IN  FoldLeft(one, [z |-> ZipkinReset, db |-> db], body).db

PushZipkin(db, body) ==
  LET one(d, span) == LET z == DecodeSpan(ZipkinReset, span)
                      IN  OnSpan(d, ZipkinRow(z, [fields |-> span]), ToSet(z.kv))
  IN  FoldLeft(one, db, body)

(* A line that does not fit ends the scan, and nobody asks scanner.Err:    *)
(* what came before it is stored and the push succeeds.                    *)
Scanned(body) ==
  LET long == {i \in DOMAIN body : Len(body[i]) > MaxLine}
  IN  IF long = {} THEN body ELSE SubSeq(body, 1, Min(long) - 1)

(* The line by line decoder keeps its fields from span to span and has no  *)
(* payload to store.                                                       *)
PushZipkinND(db, body) ==
  LET one(acc, span) == LET z == DecodeSpan(acc.z, span)
                        IN  [z |-> z, db |-> OnSpan(acc.db, ZipkinRow(z, NoPayload), ToSet(z.kv))]
  IN  FoldLeft(one, [z |-> ZipkinReset, db |-> db], Scanned(body)).db

=============================================================================
