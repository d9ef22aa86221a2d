---------------------------- MODULE RulerManager ----------------------------
(***************************************************************************)
(* The ruler: the rule groups in ClickHouse (ruler/service.go) and the     *)
(* manager that evaluates them (ruler/manager.go): one goroutine per       *)
(* distinct interval, a goroutine that polls the groups and starts and     *)
(* cancels the others, the health map, and Stop.                           *)
(*                                                                         *)
(* A group holds one rule.  Its definition is a record with the interval   *)
(* and the record name, NoRecord for an alerting rule.  The results are    *)
(* not modelled: writing them back goes through the push pipeline.  A read *)
(* of the groups that fails is logged and changes nothing.                 *)
(***************************************************************************)
EXTENDS Naturals, FiniteSets

CONSTANTS Groups, Namespaces,
          NamespaceOf,     \* [Groups -> Namespaces]
          Intervals,       \* positive intervals
          ZeroIntervals,   \* intervals that parse and are not positive
          BadIntervals,    \* intervals that time.ParseDuration refuses
          Records, NoRecord,
          None,            \* no group, no interval
          InitialRules,    \* what the table may hold at the start
          Definitions,     \* what SetRuleGroup may store for a group
          MaxEdits,        \* bound on the edits of the table
          Slots            \* bound on the interval goroutines at one time

AllDefinitions ==
  [interval : Intervals \cup ZeroIntervals \cup BadIntervals,
   record   : Records \cup {NoRecord}]

ASSUME RulerAssumption ==
  /\ NamespaceOf \in [Groups -> Namespaces]
  /\ Intervals \cap ZeroIntervals = {}
  /\ (Intervals \cup ZeroIntervals) \cap BadIntervals = {}
  /\ NoRecord \notin Records
  /\ Definitions \in [Groups -> SUBSET AllDefinitions]
  /\ None \notin AllDefinitions /\ None \notin Intervals
  /\ InitialRules \subseteq [Groups -> AllDefinitions \cup {None}]
  /\ MaxEdits \in Nat
  /\ IsFiniteSet(Groups) /\ IsFiniteSet(Slots)

VARIABLES rules,     \* the newest row of every group in the table rules
          edits,     \* how often the table was edited
          mgr,       \* where Start or Stop is
          poll,      \* the goroutine pollForChanges
          upd,       \* where updateRoutines is, in Start or in the poll
          snap,      \* the groups it was given
          routines,  \* RuleManager.routines, by interval
          rt,        \* [Slots -> an intervalRoutine and its goroutine]
          wg,        \* the counter of RuleManager.wg
          health     \* RuleManager.health, by group and record name

vars == <<rules, edits, mgr, poll, upd, snap, routines, rt, wg, health>>

NoRoutine == [pc |-> "free", interval |-> None, cancelled |-> FALSE, todo |-> {}]
NoHealth == "unknown"

(* The newest row of every group whose is_valid is 1. *)
GetAllRuleGroups == rules

(* RuleGroup.EvalInterval, over the groups that exist: an empty interval   *)
(* is DefaultInterval, one of Intervals; an error skips the group.         *)
Parsed(groups) ==
  {groups[g].interval : g \in {h \in Groups : groups[h] # None}} \ BadIntervals

(* The keys ruleHealthKey forms for the recording rules. *)
HealthKeys(groups) ==
  {<<g, groups[g].record>> : g \in {h \in Groups : /\ groups[h] # None
                                                  /\ groups[h].record # NoRecord}}

(* The rules evaluateInterval evaluates. *)
Due(groups, i) ==
  {k \in HealthKeys(groups) : groups[k[1]].interval = i}

Init ==
  /\ rules \in InitialRules
  /\ edits = 0
  /\ mgr = "new" /\ poll = "off" /\ upd = "idle"
  /\ snap = [g \in Groups |-> None]
  /\ routines = [i \in {} |-> 0]
  /\ rt = [r \in Slots |-> NoRoutine]
  /\ wg = 0
  /\ health = [k \in Groups \X Records |-> NoHealth]
-----------------------------------------------------------------------------
(* The table.  Any process may edit it; the row with the highest           *)
(* updated_at counts, and a tombstone hides the group.                     *)

storeVars == <<rules, edits>>
managerVars == <<mgr, poll, upd, snap, routines, rt, wg, health>>

SetRuleGroup(g, def) ==
  /\ edits < MaxEdits
  /\ rules' = [rules EXCEPT ![g] = def]
  /\ edits' = edits + 1
  /\ UNCHANGED managerVars

DeleteRuleGroup(g) ==
  /\ edits < MaxEdits
  /\ rules' = [rules EXCEPT ![g] = None]
  /\ edits' = edits + 1
  /\ UNCHANGED managerVars

DeleteNamespace(n) ==
  /\ edits < MaxEdits
  /\ rules' = [g \in Groups |-> IF NamespaceOf[g] = n THEN None ELSE rules[g]]
  /\ edits' = edits + 1
  /\ UNCHANGED managerVars
-----------------------------------------------------------------------------
(* Start, and the poll that repeats what Start does.                       *)

StartReads ==
  /\ mgr = "new"
  /\ mgr' = "starting" /\ upd' = "apply" /\ snap' = GetAllRuleGroups
  /\ UNCHANGED <<storeVars, poll, routines, rt, wg, health>>

(* The first read fails: Init logs it, and the ruler stays off.            *)
StartFails ==
  /\ mgr = "new"
  /\ mgr' = "failed"
  /\ UNCHANGED <<storeVars, poll, upd, snap, routines, rt, wg, health>>

PollReads ==
  /\ mgr = "running" /\ poll = "on" /\ upd = "idle"
  /\ upd' = "apply" /\ snap' = GetAllRuleGroups
  /\ UNCHANGED <<storeVars, mgr, poll, routines, rt, wg, health>>

(* m.ctx was cancelled. *)
Cancelled == mgr \in {"stopping", "waiting", "stopped"}

PollExits ==
  /\ Cancelled /\ poll = "on" /\ upd = "idle"
  /\ poll' = "gone" /\ wg' = wg - 1
  /\ UNCHANGED <<storeVars, mgr, upd, snap, routines, rt, health>>
-----------------------------------------------------------------------------
(* updateRoutines *)

Unused == DOMAIN routines \ Parsed(snap)

Added == Parsed(snap) \ DOMAIN routines

(* Mutant: the cancelled routine stays in the map.                         *)
KeptUndeleted == DOMAIN routines

Kept == DOMAIN routines \ Unused

Free == {r \in Slots : rt[r].pc = "free"}

(* Under routinesMtx: cancels the routines of unused intervals and starts  *)
(* one, on a context below m.ctx, for every new interval.                  *)
UpdateRoutines ==
  /\ mgr # "dead" /\ upd = "apply"
  /\ Added \cap ZeroIntervals = {}
  /\ Cardinality(Added) <= Cardinality(Free)
  /\ LET slot == CHOOSE f \in [Added -> Free] :
                   \A i, j \in Added : f[i] = f[j] => i = j
         stale == {routines[i] : i \in Unused}
     IN  /\ routines' = [i \in Kept \cup Added |->
                           IF i \in Added THEN slot[i] ELSE routines[i]]
         /\ rt' = [r \in Slots |->
                     IF \E i \in Added : slot[i] = r
                       THEN [NoRoutine EXCEPT !.pc = "select",
                               !.interval = CHOOSE i \in Added : slot[i] = r]
                     ELSE IF r \in stale THEN [rt[r] EXCEPT !.cancelled = TRUE]
                     ELSE rt[r]]
  /\ wg' = wg + Cardinality(Added)
  /\ upd' = "prune"
  /\ UNCHANGED <<storeVars, mgr, poll, snap, health>>

(* time.NewTicker panics on an interval that is not positive, and nothing  *)
(* recovers: the process is gone.                                          *)
NewTickerPanics ==
  /\ mgr # "dead" /\ upd = "apply"
  /\ Added \cap ZeroIntervals # {}
  /\ mgr' = "dead"
  /\ UNCHANGED <<storeVars, poll, upd, snap, routines, rt, wg, health>>

(* Mutant: a renamed rule keeps its entry, the group is still there.       *)
StaleKeysOfGroups ==
  {k \in DOMAIN health : snap[k[1]] = None}

(* The entries pruneHealth deletes. *)
StaleKeys == {k \in DOMAIN health : k \notin HealthKeys(snap)}

(* Start: m.wg.Add(1) *)
CountPoll == 1

(* Ends updateRoutines; Start then starts the poll and returns.            *)
PruneHealth ==
  /\ mgr # "dead" /\ upd = "prune"
  /\ health' = [k \in DOMAIN health |->
                  IF k \in StaleKeys THEN NoHealth ELSE health[k]]
  /\ upd' = "idle"
  /\ IF mgr = "starting"
       THEN mgr' = "running" /\ poll' = "on" /\ wg' = wg + CountPoll
       ELSE UNCHANGED <<mgr, poll, wg>>
  /\ UNCHANGED <<storeVars, snap, routines, rt>>
-----------------------------------------------------------------------------
(* runIntervalRoutine.  A tick after the cancellation only fails to read   *)
(* the groups.                                                             *)

(* Mutant: the routine's context is not below m.ctx.                       *)
CtxDoneDetached(r) == rt[r].cancelled

CtxDone(r) == rt[r].cancelled \/ Cancelled

(* Back in the select once nothing is left to evaluate. *)
Proceed(todo) == IF todo = {} THEN "select" ELSE "eval"

Tick(r) ==
  /\ mgr # "dead" /\ rt[r].pc = "select" /\ ~CtxDone(r)
  /\ LET due == Due(GetAllRuleGroups, rt[r].interval)
     IN  /\ due # {}
         /\ rt' = [rt EXCEPT ![r].todo = due, ![r].pc = Proceed(due)]
  /\ UNCHANGED <<storeVars, mgr, poll, upd, snap, routines, wg, health>>

(* evaluateRecordingRule: the evaluation fails; nothing is written.        *)
EvaluationFails(r, k) ==
  /\ mgr # "dead" /\ rt[r].pc = "eval" /\ k \in rt[r].todo
  /\ health' = [health EXCEPT ![k] = "err"]
  /\ rt' = [rt EXCEPT ![r].todo = @ \ {k}, ![r].pc = Proceed(rt[r].todo \ {k})]
  /\ UNCHANGED <<storeVars, mgr, poll, upd, snap, routines, wg>>

(* It succeeds; the health is stored before the result is written ...      *)
EvaluationSucceeds(r, k) ==
  /\ mgr # "dead" /\ rt[r].pc = "eval" /\ k \in rt[r].todo
  /\ health' = [health EXCEPT ![k] = "ok"]
  /\ rt' = [rt EXCEPT ![r].todo = @ \ {k}, ![r].pc = "write"]
  /\ UNCHANGED <<storeVars, mgr, poll, upd, snap, routines, wg>>

(* ... by a Write that no context interrupts.                              *)
WriteBack(r) ==
  /\ mgr # "dead" /\ rt[r].pc = "write"
  /\ rt' = [rt EXCEPT ![r].pc = Proceed(rt[r].todo)]
  /\ UNCHANGED <<storeVars, mgr, poll, upd, snap, routines, wg, health>>

RoutineExits(r) ==
  /\ mgr # "dead" /\ rt[r].pc = "select" /\ CtxDone(r)
  /\ rt' = [rt EXCEPT ![r] = NoRoutine]
  /\ wg' = wg - 1
  /\ UNCHANGED <<storeVars, mgr, poll, upd, snap, routines, health>>
-----------------------------------------------------------------------------
(* Stop.  It is called after Start has returned, with or without an error. *)

StopCancels ==
  /\ mgr \in {"running", "failed"}
  /\ mgr' = "stopping"
  /\ UNCHANGED <<storeVars, poll, upd, snap, routines, rt, wg, health>>

StopRoutines ==
  /\ mgr = "stopping"
  /\ mgr' = "waiting"
  /\ rt' = [r \in Slots |->
              IF \E i \in DOMAIN routines : routines[i] = r /\ rt[r].pc # "free"
              THEN [rt[r] EXCEPT !.cancelled = TRUE] ELSE rt[r]]
  /\ UNCHANGED <<storeVars, poll, upd, snap, routines, wg, health>>

(* m.wg.Wait *)
WaitOver == wg = 0

StopReturns ==
  /\ mgr = "waiting" /\ WaitOver
  /\ mgr' = "stopped"
  /\ UNCHANGED <<storeVars, poll, upd, snap, routines, rt, wg, health>>
-----------------------------------------------------------------------------
Evaluate(r) == \/ WriteBack(r)
               \/ \E k \in rt[r].todo : EvaluationFails(r, k) \/ EvaluationSucceeds(r, k)

Next ==
  \/ \E g \in Groups : DeleteRuleGroup(g) \/ \E def \in Definitions[g] : SetRuleGroup(g, def)
  \/ \E n \in Namespaces : DeleteNamespace(n)
  \/ StartReads \/ StartFails \/ PollReads \/ PollExits
  \/ UpdateRoutines \/ NewTickerPanics \/ PruneHealth
  \/ \E r \in Slots : Tick(r) \/ Evaluate(r) \/ RoutineExits(r)
  \/ StopCancels \/ StopRoutines \/ StopReturns

(* Tickers tick, evaluations and writes end, a select whose context is     *)
(* done takes that branch, a table that is read again and again answers.   *)
(* Nobody has to edit the table or to call Stop.                           *)
Spec ==
  /\ Init /\ [][Next]_vars
  /\ WF_vars(StartReads \/ StartFails)
  /\ WF_vars(PollReads) /\ WF_vars(PollExits)
  /\ WF_vars(UpdateRoutines \/ NewTickerPanics) /\ WF_vars(PruneHealth)
  /\ \A r \in Slots : WF_vars(Tick(r)) /\ WF_vars(Evaluate(r)) /\ WF_vars(RoutineExits(r))
  /\ WF_vars(StopRoutines) /\ WF_vars(StopReturns)
-----------------------------------------------------------------------------
TypeOK ==
  /\ rules \in [Groups -> AllDefinitions \cup {None}]
  /\ edits \in 0..MaxEdits
  /\ mgr \in {"new", "starting", "failed", "running", "stopping", "waiting",
              "stopped", "dead"}
  /\ poll \in {"off", "on", "gone"}
  /\ upd \in {"idle", "apply", "prune"}
  /\ snap \in [Groups -> AllDefinitions \cup {None}]
  /\ DOMAIN routines \subseteq Intervals
  /\ \A i \in DOMAIN routines : routines[i] \in Slots
  /\ rt \in [Slots -> [pc : {"free", "select", "eval", "write"},
                       interval : Intervals \cup {None},
                       cancelled : BOOLEAN,
                       todo : SUBSET (Groups \X Records)]]
  /\ \A r \in Slots : rt[r].pc # "free" => rt[r].interval \in Intervals
  /\ wg \in 0..(Cardinality(Slots) + 1)
  /\ health \in [Groups \X Records -> {NoHealth, "ok", "err"}]

(* "Stop cancels all routines and waits for in-flight evaluations to       *)
(* finish": once Stop has returned no goroutine of the manager is left,    *)
(* not even one that the poll started while Stop was waiting, so that the  *)
(* writer, which is stopped next, gets no more results to write.           *)
StoppedIsQuiet ==
  mgr = "stopped" => /\ poll # "on" /\ upd = "idle"
                     /\ \A r \in Slots : rt[r].pc = "free"

(* The map names exactly the goroutines that may still evaluate: no        *)
(* interval has two of them, and none is lost from the map (updateRoutines *)
(* cancels, deletes and starts under one lock).                            *)
LiveRoutinesAreMapped ==
  mgr \in {"starting", "running"} =>
    \A r \in Slots : (rt[r].pc # "free" /\ ~rt[r].cancelled)
                        <=> (\E i \in DOMAIN routines : routines[i] = r /\ rt[r].interval = i)

(* pruneHealth bounds the health map to the current rules: entries of      *)
(* deleted or renamed rules go in the end, also those that an evaluation   *)
(* in flight has stored again after the prune.                             *)
HealthSettles ==
  <>[](mgr = "running") =>
    <>[](\A k \in DOMAIN health : health[k] # NoHealth => k \in HealthKeys(rules))

(* What GetPrometheusRules reports of a rule. *)
Reported(k) == health[k]

(* "Changes take effect without restart": a recording rule that stays in   *)
(* the table with a valid interval is evaluated again and again and its    *)
(* health is reported, however the intervals of other groups come and go.  *)
StableRulesAreReported ==
  \A g \in Groups, i \in Intervals, rec \in Records :
    <>[](mgr = "running" /\ rules[g] = [interval |-> i, record |-> rec]) =>
      /\ <>[](Reported(<<g, rec>>) # NoHealth)
      /\ []<>(\E r \in Slots : rt[r].interval = i /\ <<g, rec>> \in rt[r].todo)

(* Stop ends, although the poll may start another goroutine after Stop has *)
(* cancelled those it found in the map.                                    *)
StopEnds == (mgr = "stopping") ~> (mgr \in {"stopped", "dead"})

(* updateRoutines, Stop: no goroutine evaluates rules that the map does    *)
(* not know of, and none at all once Stop has returned.                    *)
RoutinesAreManaged ==
  /\ TypeOK
  /\ StoppedIsQuiet
  /\ LiveRoutinesAreMapped

(* pruneHealth, evaluateInterval: in the end the health map tells of the rules  *)
(* in the table, of all that stay and of no others.                        *)
HealthFollowsTheRules ==
  /\ HealthSettles
  /\ StableRulesAreReported
=============================================================================
