------------------------------ MODULE LogQLPlan ------------------------------
(***************************************************************************)
(* How a LogQL request is answered: the choice between one SQL query and a *)
(* SQL query with the rest of the script run in the reader, where the      *)
(* script is cut, and what is done to the points of a matrix.              *)
(***************************************************************************)
EXTENDS LogQLSql, LogQLInternal

(********************************* The cut *********************************)
BreakpointNo == 0
BreakpointLra == -2

(* The first stage that SQL cannot run.                                    *)
GetBreakpoint(s) ==
  LET stages == {i \in DOMAIN s.pipe : IsPlainParser(s.pipe[i]) \/ s.pipe[i].kind = "lineformat"}
  IN  IF stages # {} THEN Min(stages)
      ELSE IF s.lra.fn = "absent_over_time" THEN BreakpointLra ELSE BreakpointNo

DecidePlanMode(s) ==
  IF GetBreakpoint(s) = BreakpointNo \/ AnalyzeMetrics15sShortcut(s) THEN "clickhouse" ELSE "internal"

(* json directly before logfmt cancels out.  The stages are looked at from *)
(* the end; the stage before a pair that ended the pipeline, when it is a  *)
(* parser, is compared with a stage that is not there any more.            *)
IsPair(pipe, i) == /\ i < Len(pipe) /\ IsParser(pipe[i]) /\ IsParser(pipe[i + 1])
                   /\ pipe[i].fn = "json" /\ pipe[i + 1].fn = "logfmt"
CancelJsonAndLogFmt(pipe) ==
  LET step(i, acc) ==
        IF acc.panic THEN acc
        ELSE IF IsPair(acc.pipe, i)
        THEN [acc EXCEPT !.pipe = SubSeq(@, 1, i - 1) \o SubSeq(@, i + 2, Len(@))]
        ELSE [acc EXCEPT !.panic = i = Len(acc.pipe) /\ IsParser(acc.pipe[i])]
  IN  FoldRight(step, [i \in 1..(Len(pipe) - 1) |-> i], [pipe |-> pipe, panic |-> FALSE])

(* The SQL part and the part run in the reader.                            *)
BreakScript(s) ==
  LET bp == GetBreakpoint(s)
      ch(pipe) == [s EXCEPT !.pipe = pipe, !.lra = NoLra, !.agg = NoAgg, !.top = NoTopK]
      cut(sql, ram) == [err |-> "", ch |-> ch(sql), internal |-> [s EXCEPT !.pipe = ram]]
  IN  IF HasTopK(s) \/ IsQuantile(s) THEN [err |-> "not supported", ch |-> s, internal |-> s]
      ELSE IF bp = BreakpointNo THEN [err |-> "nil script", ch |-> s, internal |-> s]
      ELSE IF bp = BreakpointLra THEN cut(s.pipe, <<>>)
      ELSE cut(SubSeq(s.pipe, 1, bp - 1), SubSeq(s.pipe, bp, Len(s.pipe)))

(******************************** A matrix *********************************)
TruncDiv(a, n) == IF a >= 0 THEN a \div n ELSE -((-a) \div n)

(* The window is widened to whole durations for everything below.          *)
FixedCtx(ctx, dur) == [ctx EXCEPT !.from = Bucket(@, dur), !.to = Bucket(@, dur) + dur]

(* The slots of the answer that a point at ts fills.                       *)
Slots(ctx, dur, ts) ==
  LET n == (ctx.to - ctx.from) \div ctx.step + 1
      idxFrom == TruncDiv(Bucket(ts, dur) - ctx.from, ctx.step)
      idxTo == TruncDiv(Bucket(ts, dur) + dur - ctx.from, ctx.step)
      first == Max({idxFrom, 0})
  IN  IF idxTo < 0 \/ idxFrom >= n THEN {} ELSE first..(Max({Min({idxTo, n}), first + 1}) - 1)

(* ZeroEater drops the zeros.  FixPeriod fills the slots of a series with  *)
(* its points in the order of time, a later point over an earlier one.     *)
FixPeriod(ctx, dur, rows) ==
  LET points == {r \in rows : r.value # 0}
      filling(fp, i) == {r \in points : r.fp = fp /\ i \in Slots(ctx, dur, r.ts)}
      labelsOf(fp) == Earliest({r \in points : r.fp = fp}).labels
      slots == UNION {{<<r.fp, i>> : i \in Slots(ctx, dur, r.ts)} : r \in points}
  IN  {Entry(k[1], ctx.from + k[2] * ctx.step, k[1], labelsOf(k[1]), EmptyLine,
             Latest(filling(k[1], k[2])).value) : k \in slots}

MatrixPostProcessors(ctx, s, res) ==
  IF res.err # "" \/ IsStream(s) THEN res ELSE Rows(FixPeriod(ctx, GetDuration(s), res.rows))

(********************************* Requests ********************************)
RequestCtx(ctx, s) == IF IsStream(s) THEN ctx ELSE FixedCtx(ctx, GetDuration(s))

Emitted(ram) == [err |-> ram.err, rows |-> ram.entries]
RunRest(ctx, internal, sql) ==
  IF sql.err # "" THEN sql ELSE Emitted(InternalPlan(ctx, internal, sql.rows))
RunCut(db, ctx, b) ==
  IF b.err # "" THEN Fail(b.err) ELSE RunRest(ctx, b.internal, SqlPlan(db, ctx, b.ch, FALSE))
RunInternal(db, ctx, s) == RunCut(db, ctx, BreakScript(s))

RunAs(mode, db, ctx, s) == IF mode = "clickhouse" THEN SqlPlan(db, ctx, s, TRUE) ELSE RunInternal(db, ctx, s)
PlanAs(mode, db, ctx, s) == MatrixPostProcessors(ctx, s, RunAs(mode, db, RequestCtx(ctx, s), s))

(* Mutant: the mode is not decided again after the pair is cancelled.      *)
PlanKeepingMode(db, ctx, s) ==
  LET cancelled == CancelJsonAndLogFmt(s.pipe)
      t == [s EXCEPT !.pipe = cancelled.pipe]
  IN  IF cancelled.panic THEN Fail("panic") ELSE PlanAs(DecidePlanMode(s), db, ctx, t)

Plan(db, ctx, s) ==
  LET cancelled == CancelJsonAndLogFmt(s.pipe)
      t == [s EXCEPT !.pipe = cancelled.pipe]
  IN  IF cancelled.panic THEN Fail("panic") ELSE PlanAs(DecidePlanMode(t), db, ctx, t)

(******************************** Arithmetic *******************************)
Arithmetic(op, a, b) ==
  CASE op = "+" -> a + b
    [] op = "-" -> a - b
    [] op = "*" -> (a * b) \div Unit
    [] op = "/" -> (a * Unit) \div b

ValidateBinaryOps(l, r) == ~IsStream(l) /\ ~IsStream(r)
DecideBinaryMode(l, r) ==
  IF "internal" \in {DecidePlanMode(l), DecidePlanMode(r)} THEN "internal" ELSE "clickhouse"

(* The union of both sides, grouped: a side without the point counts as 0. *)
BinaryExprSQL(op, left, right) ==
  LET keys == {<<r.fp, r.ts>> : r \in left \cup right}
      at(rows, k) == {r \in rows : <<r.fp, r.ts>> = k}
      value(rows, k) == IF at(rows, k) = {} THEN 0 ELSE (CHOOSE r \in at(rows, k) : TRUE).value
      labels(k) == IF at(left, k) = {} THEN {} ELSE (CHOOSE r \in at(left, k) : TRUE).labels
  IN  {Entry(k[1], k[2], k[1], labels(k), EmptyLine, Arithmetic(op, value(left, k), value(right, k))) : k \in keys}

(* In the reader only the points both sides have; a division by zero is 0. *)
ApplyBinaryOp(op, a, b) == IF op = "/" /\ b = 0 THEN 0 ELSE Arithmetic(op, a, b)
EmitBinary(op, left, right) ==
  {[p[1] EXCEPT !.value = ApplyBinaryOp(op, @, p[2].value)] :
     p \in {q \in left \X right : q[1].fp = q[2].fp /\ q[1].ts = q[2].ts}}

(* FixPeriod of the left side has moved the window when the right side     *)
(* starts from it.                                                         *)
OfSides(left, right, rows) == IF left.err # "" THEN left ELSE IF right.err # "" THEN right ELSE Rows(rows)
EmitSides(op, left, right) ==
  OfSides(left, right, {e \in EmitBinary(op, left.rows, right.rows) : e.value # 0})
BinaryInternal(db, ctx, l, op, r) ==
  EmitSides(op, Plan(db, ctx, l), Plan(db, FixedCtx(ctx, GetDuration(l)), r))

ExprOfSides(ctx, dur, op, left, right) ==
  OfSides(left, right, FixPeriod(ctx, dur, BinaryExprSQL(op, left.rows, right.rows)))
BinaryClickhouse(db, ctx, l, op, r) ==
  LET c == FixedCtx(ctx, GetDuration(l))
  IN  ExprOfSides(ctx, GetDuration(l), op, SqlPlan(db, c, l, TRUE), SqlPlan(db, c, r, TRUE))

PlanBinary(db, ctx, l, op, r) ==
  IF ~ValidateBinaryOps(l, r) THEN Fail("syntax error")
  ELSE IF DecideBinaryMode(l, r) = "clickhouse" THEN BinaryClickhouse(db, ctx, l, op, r)
  ELSE BinaryInternal(db, ctx, l, op, r)
=============================================================================
