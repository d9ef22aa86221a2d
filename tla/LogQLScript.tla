----------------------------- MODULE LogQLScript -----------------------------
(***************************************************************************)
(* LogQL queries and the tables they read, as far as the planners tell     *)
(* them apart.                                                             *)
(*                                                                         *)
(* A set of labels is a set of <<name, value>> pairs.  A line is the set   *)
(* of its tokens, the set of its substrings that some query asks for, and, *)
(* when it is a JSON object, its fields.  A regular expression is the set  *)
(* of the strings it matches.  A fingerprint is the labels it hashes and   *)
(* the way they are serialised for the hash.  Time is in seconds.          *)
(***************************************************************************)
EXTENDS Integers, Sequences, FiniteSets, SequencesExt, FiniteSetsExt

CONSTANTS NumberOf,   \* [the strings that parse as numbers -> their value]
          Unit,       \* the integer that stands for the value 1
          Grid        \* seconds per row of metrics_15s, 15 in the code

Get(labels, name) == LET hit == {p \in labels : p[1] = name}
                     IN  IF hit = {} THEN "" ELSE (CHOOSE p \in hit : TRUE)[2]
Put(labels, name, value) == {p \in labels : p[1] # name} \cup {<<name, value>>}
Update(labels, news) ==
  {p \in labels : \A q \in news : q[1] # p[1]} \cup news

StoredFp(labels) == <<"stored", labels>>
CanonicalFp(labels) == <<"canonical", labels>>
ZippedFp(labels) == <<"zipped", labels>>

ErrorLabel == "__error__"
ErrorDetails == "__error_details__"

(* Comparison of a label with a string, and of its number with a number.   *)
StringHolds(f, value) ==
  CASE f.fn = "=" -> value = f.val
    [] f.fn = "!=" -> value # f.val
    [] f.fn = "=~" -> value \in f.re
    [] f.fn = "!~" -> value \notin f.re
Compare(fn, a, b) ==
  CASE fn = "==" -> a = b
    [] fn = "!=" -> a # b
    [] fn = ">" -> a > b
    [] fn = ">=" -> a >= b
    [] fn = "<" -> a < b
    [] fn = "<=" -> a <= b
NumberHolds(f, value) == value \in DOMAIN NumberOf /\ Compare(f.fn, NumberOf[value], f.num)

(* The value of f1 op1 (f2 op2 (...)): filters chain to the right.         *)
Chain(exp, Holds(_)) ==
  LET rest[i \in 1..Len(exp)] ==
        IF i = Len(exp) THEN Holds(exp[i])
        ELSE IF exp[i].op = "or" THEN Holds(exp[i]) \/ rest[i + 1]
        ELSE Holds(exp[i]) /\ rest[i + 1]
  IN  rest[1]

(* The parts of a script.  A part that the query does not have has fn "".  *)
NoBy == [fn |-> "", labels |-> {}]
NoComparison == [fn |-> "", val |-> 0]
NoLra == [fn |-> "", dur |-> 0, by |-> NoBy, cmp |-> NoComparison]
NoAgg == [fn |-> "", by |-> NoBy, cmp |-> NoComparison]
NoTopK == [fn |-> "", len |-> 0]

HasLra(s) == s.lra.fn # ""
HasAgg(s) == s.agg.fn # ""
HasTopK(s) == s.top.fn # ""
IsQuantile(s) == s.lra.fn = "quantile_over_time"
IsStream(s) == ~HasLra(s)

IsParser(st) == st.kind = "parser"
IsPlainParser(st) == IsParser(st) /\ (st.fn = "logfmt" \/ (st.fn = "json" /\ st.params = <<>>))
HasUnwrap(s) == s.pipe # <<>> /\ Last(s.pipe).kind = "unwrap"

GetDuration(s) == s.lra.dur

(* What an entry of the pipeline carries, in SQL a row and in the reader a *)
(* LogEntry.  src tells apart the entries that are equal otherwise: the    *)
(* sample it comes from, or the series it was computed for.  null marks a  *)
(* value that is not a number.                                             *)
Entry(src, ts, fp, labels, line, value) ==
  [src |-> src, ts |-> ts, fp |-> fp, labels |-> labels, line |-> line, value |-> value,
   null |-> FALSE]
EmptyLine == [tokens |-> {}, subs |-> {""}, object |-> FALSE, fields |-> {}, size |-> 0]

CutLabels(labels, by) ==
  IF by.fn = "by" THEN {p \in labels : p[1] \in by.labels}
  ELSE {p \in labels : p[1] \notin by.labels}

(* The part of a bucket that the request's window covers; rates and totals *)
(* are extrapolated from it to the whole bucket.                           *)
Covered(bucket, dur, from, to, now) ==
  Max({1, Min({bucket + dur, to, now}) - Max({bucket, from})})
RateValue(total, covered) == (total * Unit) \div covered
TotalValue(total, dur, covered) == (total * Unit * dur) \div covered

Bucket(ts, dur) == (ts \div dur) * dur
SumOf(S, Value(_)) == MapThenSumSet(Value, S)
Bytes(rows) == SumOf(rows, LAMBDA r : r.line.size)

RangeValue(fn, rows, dur, covered) ==
  CASE fn = "rate" -> RateValue(Cardinality(rows), covered)
    [] fn = "count_over_time" -> TotalValue(Cardinality(rows), dur, covered)
    [] fn = "bytes_rate" -> RateValue(Bytes(rows), covered)
    [] fn = "bytes_over_time" -> TotalValue(Bytes(rows), dur, covered)

(* argMin and argMax by the time; rows of one time may come in any order.  *)
Earliest(rows) == CHOOSE r \in rows : \A q \in rows : r.ts <= q.ts
Latest(rows) == CHOOSE r \in rows : \A q \in rows : r.ts >= q.ts
Values(rows) == {r.value : r \in rows}
Total(rows) == SumOf(rows, LAMBDA r : r.value)

AggValue(fn, rows) ==
  CASE fn = "sum" -> Total(rows)
    [] fn = "min" -> Min(Values(rows))
    [] fn = "max" -> Max(Values(rows))
    [] fn = "avg" -> Total(rows) \div Cardinality(rows)
    [] fn = "count" -> Cardinality(rows) * Unit
=============================================================================
