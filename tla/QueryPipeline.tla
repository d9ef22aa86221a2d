---------------------------- MODULE QueryPipeline ----------------------------
(***************************************************************************)
(* A log query that runs partly in the reader: the goroutine that scans    *)
(* the rows of ClickHouse, one goroutine per stage of the internal         *)
(* planner, the exporter that writes the answer and the HTTP handler, all  *)
(* joined by unbuffered channels.  The stages are a line filter, a line    *)
(* format, the limit and the response optimizer.                           *)
(*                                                                         *)
(* A row is its stream and what becomes of it: it matches the filter or    *)
(* not, its template fails, the scan of it fails, or formatting it panics. *)
(* A goroutine that blocks on a send keeps what it still has to send in    *)
(* queue; a send and the receive that meets it are one step.               *)
(***************************************************************************)
EXTENDS Naturals, Sequences, SequencesExt, FiniteSetsExt

CONSTANTS Streams,        \* fingerprints
          MaxRows,        \* bound on the rows of the result
          BatchSize,      \* rows per batch of Scan, 100 in the code
          OptimizerSize,  \* entries the optimizer collects, 3000 in the code
          Limits,         \* values of the parameter limit, 0 for none
          MaxBody         \* entries the answer's buffer takes, 100 MB in the code

RowKinds == {"match", "miss", "fault", "panic", "bad"}

ASSUME PipelineAssumption ==
  /\ MaxRows \in Nat /\ MaxBody \in Nat /\ Limits \subseteq Nat
  /\ BatchSize \in Nat \ {0} /\ OptimizerSize \in Nat \ {0}

VARIABLES result,   \* the result of the SQL query
          rows,     \* the part of it that reaches the reader: all of it, or a
                    \* prefix when the connection breaks in mid-result
          limit,    \* PlannerContext.Limit
          pos,      \* rows scanned
          buf,      \* Scan's entries that are not sent yet
          queue,    \* [goroutine -> the batches it is about to send]
          live,     \* [goroutine -> run, drain or end]
          sent,     \* LimitPlanner's counter
          fpMap,    \* the optimizer's entries, in the order of arrival
          ctxDone,  \* the query's context is cancelled
          gone,     \* the client closed the connection
          body,     \* rows in the answer's buffer
          answer    \* serving, ok, error, or overflow of the buffer

pipelineVars == <<result, rows, limit, pos, buf, queue, live, sent, fpMap, ctxDone,
                  gone, body, answer>>

Getter == 1
Filter == 2
Format == 3
Limiter == 4
Optimizer == 5
Exporter == 6
Goroutines == Getter..Exporter

Row(i) == [kind |-> "row", row |-> i]
Eof == [kind |-> "eof", row |-> 0]
Err == [kind |-> "err", row |-> 0]

PipelineInit ==
  /\ result \in {r \in SeqOf([fp : Streams, kind : RowKinds], MaxRows) :
                 Quantify(DOMAIN r, LAMBDA i : r[i].kind \notin {"match", "miss"}) <= 1}
  /\ rows \in {SubSeq(result, 1, n) : n \in 0..Len(result)}
  /\ limit \in Limits
  /\ pos = 0 /\ buf = <<>> /\ sent = 0 /\ fpMap = <<>>
  /\ queue = [g \in Goroutines |-> <<>>]
  /\ live = [g \in Goroutines |-> "run"]
  /\ ctxDone = FALSE /\ gone = FALSE
  /\ body = <<>> /\ answer = "serving"

(* Its output channel is closed: it returned and nothing is being sent. *)
Closed(g) == live[g] # "run" /\ queue[g] = <<>>

Emit(g, batches) == queue' = [queue EXCEPT ![g] = batches]
End(g) == live' = [live EXCEPT ![g] = "end"]

(* rows.Next found no row, lost the connection, or gave up because the     *)
(* context was cancelled: rows.Err is not asked which.                     *)
ScanEof ==
  /\ live[Getter] = "run" /\ queue[Getter] = <<>>
  /\ pos = Len(rows) \/ ctxDone
  /\ Emit(Getter, <<Append(buf, Eof)>>)
  /\ End(Getter)
  /\ UNCHANGED <<result, rows, limit, pos, buf, sent, fpMap, ctxDone, gone, body, answer>>

(* The context was cancelled after rows.Next found a row. *)
ScanCancelled ==
  /\ live[Getter] = "run" /\ queue[Getter] = <<>>
  /\ pos < Len(rows) /\ ctxDone
  /\ Emit(Getter, <<buf>>)
  /\ End(Getter)
  /\ UNCHANGED <<result, rows, limit, pos, buf, sent, fpMap, ctxDone, gone, body, answer>>

ScanRow ==
  /\ live[Getter] = "run" /\ queue[Getter] = <<>>
  /\ pos < Len(rows) /\ ~ctxDone
  /\ pos' = pos + 1
  /\ LET bad == rows[pos + 1].kind = "bad"
         now == Append(buf, IF bad THEN Err ELSE Row(pos + 1))
         full == bad \/ Len(now) >= BatchSize
     IN  /\ buf' = IF full THEN <<>> ELSE now
         /\ IF full THEN Emit(Getter, <<now>>) ELSE UNCHANGED queue
         /\ IF bad THEN End(Getter) ELSE UNCHANGED live
  /\ UNCHANGED <<result, rows, limit, sent, fpMap, ctxDone, gone, body, answer>>

(* The entries of s that are in T, in their order. *)
Keep(s, T) ==
  LET kept[n \in 0..Len(s)] ==
        IF n = 0 THEN <<>>
        ELSE IF s[n] \in T THEN Append(kept[n - 1], s[n]) ELSE kept[n - 1]
  IN  kept[Len(s)]

(* g waits for its input and the goroutine before it has a batch for it. *)
Meets(g) == live[g] = "run" /\ queue[g] = <<>> /\ queue[g - 1] # <<>>

Batch(g) == Head(queue[g - 1])

Forward(g, batches) ==
  queue' = [queue EXCEPT ![g - 1] = Tail(@), ![g] = batches]

Passes(e) == e.kind # "row" \/ rows[e.row].kind # "miss"

LineFilter ==
  /\ Meets(Filter)
  /\ Forward(Filter, <<Keep(Batch(Filter), {e \in ToSet(Batch(Filter)) : Passes(e)})>>)
  /\ UNCHANGED <<result, rows, limit, pos, buf, live, sent, fpMap, ctxDone, gone, body, answer>>

(* Mutant: a failed stage returns without draining its input. *)
OnErrNoDrain(panics) == "end"

(* onErr drains the input in a goroutine of its own; TamePanic does not. *)
OnErr(panics) == IF panics THEN "end" ELSE "drain"

FirstOf(batch, kinds) ==
  SelectInSeq(batch, LAMBDA e : e.kind = "row" /\ rows[e.row].kind \in kinds)

LineFormat ==
  /\ Meets(Format)
  /\ LET f == FirstOf(Batch(Format), {"fault", "panic"})
     IN  IF f = 0
         THEN Forward(Format, <<Batch(Format)>>) /\ UNCHANGED live
         ELSE /\ Forward(Format, <<<<Err>>>>)
              /\ live' = [live EXCEPT ![Format] =
                            OnErr(rows[Batch(Format)[f].row].kind = "panic")]
  /\ UNCHANGED <<result, rows, limit, pos, buf, sent, fpMap, ctxDone, gone, body, answer>>

(* Mutant: the batch that reaches the limit is sent whole. *)
CutWhole(batch) == batch

(* The part of the batch that LimitPlanner sends when it reaches the limit. *)
Cut(batch) == SubSeq(batch, 1, limit - sent)

LimitBatch ==
  /\ Meets(Limiter)
  /\ \/ /\ limit > 0 /\ sent >= limit
        /\ Forward(Limiter, <<>>)
        /\ UNCHANGED <<sent, ctxDone>>
     \/ /\ limit = 0 \/ sent + Len(Batch(Limiter)) < limit
        /\ Forward(Limiter, <<Batch(Limiter)>>)
        /\ sent' = sent + Len(Batch(Limiter))
        /\ UNCHANGED ctxDone
     \/ /\ limit > 0 /\ sent < limit /\ sent + Len(Batch(Limiter)) >= limit
        /\ Forward(Limiter, <<Cut(Batch(Limiter))>>)
        /\ sent' = limit
        /\ ctxDone' = TRUE
  /\ UNCHANGED <<result, rows, limit, pos, buf, live, fpMap, gone, body, answer>>

(* The stream an entry is collected under; the sentinel and a row that     *)
(* could not be scanned have none.                                         *)
FpOf(e) == IF e.kind = "row" THEN <<rows[e.row].fp>> ELSE <<>>

(* What ranging over fpMap may send: one batch per stream, in any order. *)
Batches(entries) ==
  {[i \in DOMAIN order |-> Keep(entries, {e \in ToSet(entries) : FpOf(e) = order[i]})] :
     order \in SetToSeqs({FpOf(e) : e \in ToSet(entries)})}

Optimize ==
  /\ Meets(Optimizer)
  /\ LET all == fpMap \o Batch(Optimizer)
     IN  \/ /\ Len(all) < OptimizerSize
            /\ fpMap' = all
            /\ Forward(Optimizer, <<>>)
         \/ /\ Len(all) >= OptimizerSize
            /\ fpMap' = <<>>
            /\ \E bs \in Batches(all) : Forward(Optimizer, bs)
  /\ UNCHANGED <<result, rows, limit, pos, buf, live, sent, ctxDone, gone, body, answer>>

(* exportStreamsValue writes an entry at a time and returns at the first   *)
(* error, leaving what the optimizer still sends unread.                   *)
Export ==
  /\ Meets(Exporter)
  /\ LET e == SelectInSeq(Batch(Exporter), LAMBDA x : x.kind = "err")
         done == IF e = 0 THEN Batch(Exporter) ELSE SubSeq(Batch(Exporter), 1, e)
         out == Keep(done, {x \in ToSet(done) : x.kind # "eof"})
     IN  /\ Forward(Exporter, [i \in DOMAIN out |-> <<out[i]>>])
         /\ IF e = 0 THEN UNCHANGED live ELSE End(Exporter)
  /\ UNCHANGED <<result, rows, limit, pos, buf, sent, fpMap, ctxDone, gone, body, answer>>

(* The goroutine that onErr started discards a batch. *)
Drain(g) ==
  /\ live[g] = "drain" /\ queue[g] = <<>> /\ queue[g - 1] # <<>>
  /\ Forward(g, <<>>)
  /\ UNCHANGED <<result, rows, limit, pos, buf, live, sent, fpMap, ctxDone, gone, body, answer>>

(* The input is closed: OnAfterEntries, and the output is closed. *)
InputEnds(g) ==
  /\ live[g] = "run" /\ queue[g] = <<>> /\ Closed(g - 1)
  /\ End(g)
  /\ IF g = Optimizer THEN \E bs \in Batches(fpMap) : Emit(g, bs) ELSE UNCHANGED queue
  /\ UNCHANGED <<result, rows, limit, pos, buf, sent, fpMap, ctxDone, gone, body, answer>>

(* SmartBufferServe takes one output of the exporter.  Returning from the  *)
(* handler cancels the request's context.                                  *)
Serve ==
  /\ answer = "serving" /\ queue[Exporter] # <<>>
  /\ queue' = [queue EXCEPT ![Exporter] = Tail(@)]
  /\ LET e == Head(queue[Exporter])[1]
     IN  \/ e.kind = "err" /\ answer' = "error" /\ ctxDone' = TRUE /\ UNCHANGED body
         \/ e.kind = "row" /\ Len(body) < MaxBody /\ body' = Append(body, e.row)
              /\ UNCHANGED <<answer, ctxDone>>
         \/ e.kind = "row" /\ Len(body) >= MaxBody /\ answer' = "overflow"
              /\ ctxDone' = TRUE /\ UNCHANGED body
  /\ UNCHANGED <<result, rows, limit, pos, buf, live, sent, fpMap, gone>>

ServeEnds ==
  /\ answer = "serving" /\ Closed(Exporter)
  /\ answer' = "ok" /\ ctxDone' = TRUE
  /\ UNCHANGED <<result, rows, limit, pos, buf, queue, live, sent, fpMap, gone, body>>

ClientGone ==
  /\ answer = "serving" /\ ~gone
  /\ gone' = TRUE /\ ctxDone' = TRUE
  /\ UNCHANGED <<result, rows, limit, pos, buf, queue, live, sent, fpMap, body, answer>>

Progress ==
  \/ ScanEof \/ ScanCancelled \/ ScanRow
  \/ LineFilter \/ LineFormat \/ LimitBatch \/ Optimize \/ Export
  \/ \E g \in {Format} : Drain(g)
  \/ \E g \in Filter..Exporter : InputEnds(g)
  \/ Serve \/ ServeEnds

PipelineNext == Progress \/ ClientGone

PipelineSpec == PipelineInit /\ [][PipelineNext]_pipelineVars

-----------------------------------------------------------------------------
Faulty == {i \in DOMAIN rows : rows[i].kind \in {"fault", "panic", "bad"}}
Matches(r) == {i \in DOMAIN r : r[i].kind = "match"}

(* The rows of r that a complete answer holds. *)
Expected(r) ==
  IF limit = 0 THEN Matches(r)
  ELSE {i \in Matches(r) : Cardinality({j \in Matches(r) : j < i}) < limit}

PipelineTypeOK ==
  /\ pos \in 0..Len(rows) /\ Len(buf) < BatchSize
  /\ live \in [Goroutines -> {"run", "drain", "end"}]
  /\ limit > 0 => sent <= limit
  /\ answer \in {"serving", "ok", "error", "overflow"}

(* An answer 200 to a client that is still there holds exactly the first   *)
(* limit matching rows of the result, as far as they reached the reader,   *)
(* each once and each stream in the order of the rows, although reaching   *)
(* the limit cancels the query in mid-scan; and it never hides a failed    *)
(* row that was needed to fill the limit.  A connection that breaks in     *)
(* mid-result is all that may shorten it, since Scan does not ask rows.Err *)
(* (planner_clickhouse_getter.go).                                         *)
OkMeansComplete ==
  (answer = "ok" /\ ~gone) =>
    /\ ToSet(body) = Expected(result) \cap DOMAIN rows
    /\ Len(body) = Cardinality(ToSet(body))
    /\ \A i, j \in DOMAIN body :
         (i < j /\ rows[body[i]].fp = rows[body[j]].fp) => body[i] < body[j]
    /\ (limit = 0 \/ Cardinality(Matches(rows)) < limit) => Faulty = {}

(* What may leave goroutines of a query blocked for ever: the buffer of    *)
(* the answer overflows, a stage panics, or a failed row leaves the        *)
(* optimizer with further batches that the exporter no longer reads.       *)
Abandoned ==
  \/ answer = "overflow"
  \/ \E i \in Faulty : rows[i].kind = "panic"
  \/ Faulty # {} /\ live[Exporter] = "end" /\ queue[Optimizer] # <<>>

(* Every query is answered, and every one of its goroutines returns,       *)
(* whatever fails and whenever the client leaves, except in those cases.   *)
GoroutinesEnd ==
  <>(\/ answer # "serving" /\ \A g \in Goroutines : Closed(g)
     \/ Abandoned)
=============================================================================
