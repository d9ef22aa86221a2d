------------------------- MODULE RulerManagerProofs -------------------------
(***************************************************************************)
(* Proofs about the safety of RulerManager, for any groups, intervals,     *)
(* definitions and edits.                                                  *)
(*                                                                         *)
(* That nothing is left once Stop has returned depends on the counter wg,  *)
(* which IInv ties to the goroutines it counts (WaitGroupCounts) although  *)
(* an updateRoutines that was under way when Stop was called goes on       *)
(* starting goroutines; that it is counted itself, as part of the poll, is *)
(* UpdatesAreCounted.  While the manager runs, the map and the goroutines  *)
(* name each other (MapIsExact).                                           *)
(***************************************************************************)
EXTENDS RulerManager, FiniteSetTheorems, FunctionTheorems, TLAPS

Routine == [pc : {"free", "select", "eval", "write"},
            interval : Intervals \cup {None},
            cancelled : BOOLEAN,
            todo : SUBSET (Groups \X Records)]

Live == {r \in Slots : rt[r].pc # "free"}

WaitGroupCounts ==
  wg = Cardinality(Live) + (IF poll = "on" THEN 1 ELSE 0)

(* Who runs updateRoutines: Start, or the poll, which is in the counter. *)
UpdatesAreCounted ==
  /\ upd # "idle" => mgr \in {"starting", "dead"} \/ poll = "on"
  /\ mgr \in {"new", "failed"} => upd = "idle"
  /\ mgr \in {"new", "starting", "failed"} => poll = "off"
  /\ mgr = "stopped" => wg = 0

MapIsExact ==
  mgr \in {"new", "starting", "failed", "running"} =>
    /\ \A i \in DOMAIN routines : /\ rt[routines[i]].pc # "free"
                                  /\ ~rt[routines[i]].cancelled
                                  /\ rt[routines[i]].interval = i
    /\ \A r \in Slots : rt[r].pc # "free" /\ ~rt[r].cancelled =>
                          /\ rt[r].interval \in DOMAIN routines
                          /\ routines[rt[r].interval] = r

IInv ==
  /\ TypeOK
  /\ WaitGroupCounts
  /\ UpdatesAreCounted
  /\ MapIsExact
-----------------------------------------------------------------------------
(* Facts about the sets that are counted. *)

LEMMA LiveFacts ==
  /\ IsFiniteSet(Live) /\ Cardinality(Live) \in Nat
  /\ Cardinality(Live) <= Cardinality(Slots) /\ Cardinality(Slots) \in Nat
<1>1. Live \in SUBSET Slots /\ IsFiniteSet(Slots)
  BY RulerAssumption DEF Live
<1> QED BY <1>1, FS_Subset, FS_CardinalityType

(* The intervals updateRoutines adds are finitely many, and none of them   *)
(* is one that does not parse.                                             *)
LEMMA AddedFacts ==
  ASSUME TypeOK
  PROVE  IsFiniteSet(Added) /\ Added \subseteq Intervals \cup ZeroIntervals
<1> DEFINE G == {h \in Groups : snap[h] # None}
           P == {snap[g].interval : g \in G}
<1>1. IsFiniteSet(G)
  <2>1. G \in SUBSET Groups /\ IsFiniteSet(Groups)
    BY RulerAssumption
  <2> QED BY <2>1, FS_Subset
<1>2. IsFiniteSet(P)
  <2>1. [g \in G |-> snap[g].interval] \in Surjection(G, P)
    BY DEF Surjection
  <2> QED BY <1>1, <2>1, FS_Surjection
<1>3. P \subseteq Intervals \cup ZeroIntervals \cup BadIntervals
  <2>1. \A g \in G : snap[g] \in AllDefinitions
    BY DEF TypeOK
  <2> QED BY <2>1 DEF AllDefinitions
<1>4. Added = P \ (BadIntervals \cup DOMAIN routines)
  BY DEF Added, Parsed
<1>5. IsFiniteSet(Added)
  BY <1>2, <1>4, FS_Difference
<1> QED BY <1>3, <1>4, <1>5

(* A set with no more members than another can be mapped into it. *)
LEMMA RoomMeansInjection ==
  ASSUME NEW S, NEW T, IsFiniteSet(S), IsFiniteSet(T), Cardinality(S) <= Cardinality(T)
  PROVE  \E f \in [S -> T] : \A i, j \in S : f[i] = f[j] => i = j
<1> DEFINE m == Cardinality(S)
           n == Cardinality(T)
<1>1. m \in Nat /\ n \in Nat /\ ExistsBijection(1..m, S) /\ ExistsBijection(1..n, T)
  BY FS_CardinalityType
<1>2. PICK f \in Bijection(S, 1..m) : TRUE
  BY <1>1, Fun_ExistsBijSymmetric DEF ExistsBijection
<1>3. PICK g \in Bijection(1..n, T) : TRUE
  BY <1>1 DEF ExistsBijection
<1>4. /\ f \in [S -> 1..m] /\ \A i, j \in S : f[i] = f[j] => i = j
      /\ g \in [1..n -> T] /\ \A a, b \in 1..n : g[a] = g[b] => a = b
  BY <1>2, <1>3 DEF Bijection, Injection, IsInjective
<1>5. 1..m \subseteq 1..n
  BY <1>1
<1> DEFINE h == [s \in S |-> g[f[s]]]
<1>6. h \in [S -> T]
  BY <1>4, <1>5
<1>7. ASSUME NEW i \in S, NEW j \in S, h[i] = h[j] PROVE i = j
  BY <1>4, <1>5, <1>7
<1> QED BY <1>6, <1>7
-----------------------------------------------------------------------------
LEMMA InitIInv == Init => IInv
<1> SUFFICES ASSUME Init PROVE IInv
  OBVIOUS
<1> USE DEF Init
<1>1. NoRoutine \in Routine /\ NoRoutine.pc = "free"
  <2>1. FALSE \in BOOLEAN
    BY Zenon
  <2> QED BY <2>1 DEF NoRoutine, Routine
<1>2. Live = {}
  BY <1>1 DEF Live
<1>3. Cardinality(Live) = 0
  BY <1>2, FS_EmptySet
<1>4. TypeOK
  <2>1. rt \in [Slots -> Routine] /\ \A r \in Slots : rt[r].pc = "free"
    BY <1>1
  <2>2. rules \in [Groups -> AllDefinitions \cup {None}] /\ edits \in 0..MaxEdits
    BY RulerAssumption
  <2>3. wg \in 0..(Cardinality(Slots) + 1)
    BY LiveFacts
  <2> QED BY <2>1, <2>2, <2>3 DEF TypeOK, Routine, NoHealth
<1>5. WaitGroupCounts
  BY <1>3 DEF WaitGroupCounts
<1>6. UpdatesAreCounted
  BY DEF UpdatesAreCounted
<1>7. MapIsExact
  BY <1>1 DEF MapIsExact
<1> QED BY <1>4, <1>5, <1>6, <1>7 DEF IInv

(* The actions that change neither the goroutines nor the map. *)

LEMMA EditIInv ==
  ASSUME IInv,
         \/ \E g \in Groups : DeleteRuleGroup(g) \/ \E d \in Definitions[g] : SetRuleGroup(g, d)
         \/ \E n \in Namespaces : DeleteNamespace(n)
  PROVE  IInv'
<1>1. UNCHANGED <<mgr, poll, upd, snap, routines, rt, wg, health>>
  BY DEF DeleteRuleGroup, SetRuleGroup, DeleteNamespace, managerVars
<1>2. edits' \in 0..MaxEdits
  BY RulerAssumption DEF IInv, TypeOK, DeleteRuleGroup, SetRuleGroup, DeleteNamespace
<1>3. rules' \in [Groups -> AllDefinitions \cup {None}]
  BY RulerAssumption DEF IInv, TypeOK, DeleteRuleGroup, SetRuleGroup, DeleteNamespace
<1>4. TypeOK'
  BY <1>1, <1>2, <1>3 DEF IInv, TypeOK
<1> QED BY <1>1, <1>4
        DEF IInv, WaitGroupCounts, Live, UpdatesAreCounted, MapIsExact

LEMMA ControlIInv ==
  ASSUME IInv,
         StartReads \/ StartFails \/ PollReads \/ NewTickerPanics \/ StopCancels
         \/ StopReturns
  PROVE  IInv'
<1>1. UNCHANGED <<rules, edits, poll, routines, rt, wg, health>>
  BY DEF StartReads, StartFails, PollReads, NewTickerPanics, StopCancels, StopReturns,
         storeVars
<1>2. /\ mgr' \in {"new", "starting", "failed", "running", "stopping", "waiting",
                   "stopped", "dead"}
      /\ upd' \in {"idle", "apply", "prune"}
      /\ snap' \in [Groups -> AllDefinitions \cup {None}]
  BY DEF IInv, TypeOK, StartReads, StartFails, PollReads, NewTickerPanics, StopCancels,
         StopReturns, GetAllRuleGroups
<1>3. TypeOK'
  BY <1>1, <1>2 DEF IInv, TypeOK
<1>4. WaitGroupCounts'
  BY <1>1 DEF IInv, WaitGroupCounts, Live
<1>5. UpdatesAreCounted'
  BY <1>1 DEF IInv, UpdatesAreCounted, StartReads, StartFails, PollReads,
         NewTickerPanics, StopCancels, StopReturns, WaitOver
<1>6. mgr' \in {"new", "starting", "failed", "running"} =>
        mgr \in {"new", "starting", "failed", "running"}
  BY DEF StartReads, StartFails, PollReads, NewTickerPanics, StopCancels, StopReturns
<1>7. MapIsExact'
  BY <1>1, <1>6 DEF IInv, MapIsExact
<1> QED BY <1>3, <1>4, <1>5, <1>7 DEF IInv

LEMMA PollExitsIInv == ASSUME IInv, PollExits PROVE IInv'
<1>1. /\ poll = "on" /\ poll' = "gone" /\ wg' = wg - 1 /\ upd = "idle" /\ Cancelled
      /\ UNCHANGED <<rules, edits, mgr, upd, snap, routines, rt, health>>
  BY DEF PollExits, storeVars
<1>2. Live' = Live
  BY <1>1 DEF Live
<1>3. wg = Cardinality(Live) + 1 /\ wg' = Cardinality(Live)
  BY <1>1, LiveFacts DEF IInv, WaitGroupCounts
<1>4. TypeOK'
  <2>1. wg' \in 0..(Cardinality(Slots) + 1)
    BY <1>3, LiveFacts
  <2> QED BY <1>1, <2>1 DEF IInv, TypeOK
<1>5. WaitGroupCounts'
  BY <1>1, <1>2, <1>3, LiveFacts DEF WaitGroupCounts
<1>6. UpdatesAreCounted'
  BY <1>1, <1>3, LiveFacts DEF IInv, UpdatesAreCounted, Cancelled
<1>7. MapIsExact'
  BY <1>1 DEF IInv, MapIsExact
<1> QED BY <1>4, <1>5, <1>6, <1>7 DEF IInv

LEMMA PruneHealthIInv == ASSUME IInv, PruneHealth PROVE IInv'
<1>1. /\ upd = "prune" /\ upd' = "idle" /\ mgr # "dead"
      /\ UNCHANGED <<rules, edits, snap, routines, rt>>
  BY DEF PruneHealth, storeVars
<1>2. Live' = Live
  BY <1>1 DEF Live
<1>3. health' \in [Groups \X Records -> {NoHealth, "ok", "err"}]
  BY DEF IInv, TypeOK, PruneHealth
<1>4. CASE mgr = "starting"
  <2>1. mgr' = "running" /\ poll' = "on" /\ wg' = wg + 1 /\ poll = "off"
    BY <1>4 DEF PruneHealth, CountPoll, IInv, UpdatesAreCounted
  <2>2. wg = Cardinality(Live) /\ wg' = Cardinality(Live) + 1
    BY <2>1, LiveFacts DEF IInv, WaitGroupCounts
  <2>3. wg' \in 0..(Cardinality(Slots) + 1)
    BY <2>2, LiveFacts
  <2>4. TypeOK'
    BY <1>1, <1>3, <2>1, <2>3 DEF IInv, TypeOK
  <2>5. WaitGroupCounts' /\ UpdatesAreCounted'
    BY <1>1, <1>2, <2>1, <2>2 DEF WaitGroupCounts, UpdatesAreCounted
  <2>6. MapIsExact'
    BY <1>1, <1>4 DEF IInv, MapIsExact
  <2> QED BY <2>4, <2>5, <2>6 DEF IInv
<1>5. CASE mgr # "starting"
  <2>1. UNCHANGED <<mgr, poll, wg>>
    BY <1>5 DEF PruneHealth
  <2>2. TypeOK'
    BY <1>1, <1>3, <2>1 DEF IInv, TypeOK
  <2>3. WaitGroupCounts' /\ UpdatesAreCounted'
    BY <1>1, <1>2, <2>1 DEF IInv, WaitGroupCounts, UpdatesAreCounted
  <2>4. MapIsExact'
    BY <1>1, <2>1 DEF IInv, MapIsExact
  <2> QED BY <2>2, <2>3, <2>4 DEF IInv
<1> QED BY <1>4, <1>5
-----------------------------------------------------------------------------
(* The interval goroutines. *)

(* A goroutine that goes on stays what it is for the map and the counter. *)
LEMMA RoutineStepIInv ==
  ASSUME IInv, NEW r \in Slots, NEW pc \in {"select", "eval", "write"},
         NEW todo \in SUBSET (Groups \X Records),
         rt[r].pc # "free",
         rt' = [rt EXCEPT ![r].todo = todo, ![r].pc = pc],
         health' \in [Groups \X Records -> {NoHealth, "ok", "err"}],
         UNCHANGED <<storeVars, mgr, poll, upd, snap, routines, wg>>
  PROVE  IInv'
<1>1. rt \in [Slots -> Routine]
  BY DEF IInv, TypeOK, Routine
<1>2. /\ rt' \in [Slots -> Routine]
      /\ \A s \in Slots : /\ rt'[s].interval = rt[s].interval
                          /\ rt'[s].cancelled = rt[s].cancelled
                          /\ rt'[s].pc = "free" <=> rt[s].pc = "free"
  <2> DEFINE e == [rt[r] EXCEPT !.todo = todo, !.pc = pc]
  <2>1. rt[r] \in Routine
    BY <1>1
  <2>2. /\ e \in Routine /\ e.interval = rt[r].interval
        /\ e.cancelled = rt[r].cancelled /\ e.pc = pc
    BY <2>1 DEF Routine
  <2>3. rt' = [rt EXCEPT ![r] = e]
    BY <1>1, <2>1 DEF Routine
  <2> HIDE DEF e
  <2>4. rt'[r] = e /\ \A s \in Slots : s # r => rt'[s] = rt[s]
    BY <1>1, <2>3
  <2>5. rt' \in [Slots -> Routine]
    BY <1>1, <2>2, <2>3
  <2>6. pc # "free"
    OBVIOUS
  <2> QED BY <2>2, <2>4, <2>5, <2>6
<1>3. TypeOK'
  BY <1>2 DEF IInv, TypeOK, Routine, storeVars
<1>4. Live' = Live
  BY <1>2 DEF Live
<1>5. WaitGroupCounts' /\ UpdatesAreCounted'
  BY <1>4 DEF IInv, WaitGroupCounts, UpdatesAreCounted
<1>6. MapIsExact'
  BY <1>2 DEF IInv, TypeOK, MapIsExact
<1> QED BY <1>3, <1>5, <1>6 DEF IInv

LEMMA EvaluateIInv == ASSUME IInv, NEW r \in Slots, Tick(r) \/ Evaluate(r) PROVE IInv'
<1>1. /\ rt \in [Slots -> Routine] /\ rt[r] \in Routine
      /\ rt[r].todo \in SUBSET (Groups \X Records)
      /\ health \in [Groups \X Records -> {NoHealth, "ok", "err"}]
      /\ rules \in [Groups -> AllDefinitions \cup {None}]
  BY DEF IInv, TypeOK, Routine
<1>2. CASE Tick(r)
  <2> DEFINE due == Due(GetAllRuleGroups, rt[r].interval)
  <2>1. /\ rt[r].pc = "select"
        /\ rt' = [rt EXCEPT ![r].todo = due, ![r].pc = Proceed(due)]
        /\ UNCHANGED <<storeVars, mgr, poll, upd, snap, routines, wg, health>>
    BY <1>2 DEF Tick
  <2>2. due \in SUBSET (Groups \X Records)
    BY <1>1 DEF Due, HealthKeys, GetAllRuleGroups, AllDefinitions
  <2>3. PICK pc \in {"select", "eval", "write"} : pc = Proceed(due)
    BY DEF Proceed
  <2>4. rt' = [rt EXCEPT ![r].todo = due, ![r].pc = pc] /\ rt[r].pc # "free"
    BY <2>1, <2>3
  <2>5. health' \in [Groups \X Records -> {NoHealth, "ok", "err"}]
    BY <1>1, <2>1
  <2> HIDE DEF due
  <2> QED BY <2>1, <2>2, <2>4, <2>5, RoutineStepIInv
<1>3. ASSUME NEW k \in rt[r].todo, EvaluationFails(r, k) PROVE IInv'
  <2> DEFINE rest == rt[r].todo \ {k}
  <2>1. /\ rt[r].pc = "eval" /\ health' = [health EXCEPT ![k] = "err"]
        /\ rt' = [rt EXCEPT ![r].todo = @ \ {k}, ![r].pc = Proceed(rt[r].todo \ {k})]
        /\ UNCHANGED <<storeVars, mgr, poll, upd, snap, routines, wg>>
    BY <1>3 DEF EvaluationFails
  <2>2. rt' = [rt EXCEPT ![r].todo = rt[r].todo \ {k}, ![r].pc = Proceed(rt[r].todo \ {k})]
    BY <1>1, <2>1
  <2>3. /\ rt[r].todo \ {k} \in SUBSET (Groups \X Records) /\ rt[r].pc # "free"
        /\ health' \in [Groups \X Records -> {NoHealth, "ok", "err"}]
    BY <1>1, <2>1
  <2>4. PICK pc \in {"select", "eval", "write"} : pc = Proceed(rt[r].todo \ {k})
    BY DEF Proceed
  <2>5. rt' = [rt EXCEPT ![r].todo = rest, ![r].pc = pc] /\ rest \in SUBSET (Groups \X Records)
    BY <2>2, <2>3, <2>4
  <2> HIDE DEF rest
  <2> QED BY <2>1, <2>3, <2>5, RoutineStepIInv
<1>4. ASSUME NEW k \in rt[r].todo, EvaluationSucceeds(r, k) PROVE IInv'
  <2>1. /\ rt[r].pc = "eval" /\ health' = [health EXCEPT ![k] = "ok"]
        /\ rt' = [rt EXCEPT ![r].todo = @ \ {k}, ![r].pc = "write"]
        /\ UNCHANGED <<storeVars, mgr, poll, upd, snap, routines, wg>>
    BY <1>4 DEF EvaluationSucceeds
  <2>2. rt' = [rt EXCEPT ![r].todo = rt[r].todo \ {k}, ![r].pc = "write"]
    BY <1>1, <2>1
  <2>3. /\ rt[r].todo \ {k} \in SUBSET (Groups \X Records) /\ rt[r].pc # "free"
        /\ health' \in [Groups \X Records -> {NoHealth, "ok", "err"}]
    BY <1>1, <2>1
  <2>4. PICK rest \in SUBSET (Groups \X Records) : rest = rt[r].todo \ {k}
    BY <2>3
  <2>5. rt' = [rt EXCEPT ![r].todo = rest, ![r].pc = "write"]
    BY <2>2, <2>4
  <2> QED BY <2>1, <2>3, <2>5, RoutineStepIInv
<1>5. CASE WriteBack(r)
  <2> DEFINE same == rt[r].todo
  <2>1. /\ rt[r].pc = "write"
        /\ rt' = [rt EXCEPT ![r].pc = Proceed(rt[r].todo)]
        /\ UNCHANGED <<storeVars, mgr, poll, upd, snap, routines, wg, health>>
    BY <1>5 DEF WriteBack
  <2>2. [rt[r] EXCEPT !.todo = rt[r].todo] = rt[r]
    BY <1>1 DEF Routine
  <2>3. rt' = [rt EXCEPT ![r].todo = rt[r].todo, ![r].pc = Proceed(rt[r].todo)]
    BY <1>1, <2>1, <2>2
  <2>4. PICK pc \in {"select", "eval", "write"} : pc = Proceed(rt[r].todo)
    BY DEF Proceed
  <2>5. /\ rt' = [rt EXCEPT ![r].todo = same, ![r].pc = pc] /\ rt[r].pc # "free"
        /\ same \in SUBSET (Groups \X Records)
    BY <1>1, <2>1, <2>3, <2>4
  <2>6. health' \in [Groups \X Records -> {NoHealth, "ok", "err"}]
    BY <1>1, <2>1
  <2> HIDE DEF same
  <2> QED BY <2>1, <2>5, <2>6, RoutineStepIInv
<1> QED BY <1>2, <1>3, <1>4, <1>5 DEF Evaluate

(* A goroutine ends only when it was cancelled; while the manager runs it  *)
(* has then left the map.                                                  *)
LEMMA RoutineExitsIInv == ASSUME IInv, NEW r \in Slots, RoutineExits(r) PROVE IInv'
<1>1. /\ rt[r].pc = "select" /\ CtxDone(r) /\ mgr # "dead"
      /\ rt' = [rt EXCEPT ![r] = NoRoutine] /\ wg' = wg - 1
      /\ UNCHANGED <<rules, edits, mgr, poll, upd, snap, routines, health>>
  BY DEF RoutineExits, storeVars
<1>2. rt \in [Slots -> Routine]
  BY DEF IInv, TypeOK, Routine
<1>3. NoRoutine \in Routine /\ NoRoutine.pc = "free"
  <2>1. FALSE \in BOOLEAN
    BY Zenon
  <2> QED BY <2>1 DEF NoRoutine, Routine
<1>4. rt' \in [Slots -> Routine] /\ rt'[r].pc = "free"
      /\ \A s \in Slots : s # r => rt'[s] = rt[s]
  BY <1>1, <1>2, <1>3
<1>5. Live' = Live \ {r} /\ r \in Live
  BY <1>1, <1>4 DEF Live
<1>6. Cardinality(Live') = Cardinality(Live) - 1
  BY <1>5, LiveFacts, FS_RemoveElement
<1>7. Cardinality(Live') \in Nat /\ Cardinality(Live) <= Cardinality(Slots)
  <2>1. IsFiniteSet(Live')
    BY <1>5, LiveFacts, FS_RemoveElement
  <2> QED BY <2>1, LiveFacts, FS_CardinalityType
<1>8. WaitGroupCounts'
  BY <1>1, <1>6, LiveFacts DEF IInv, WaitGroupCounts
<1>9. wg' \in 0..(Cardinality(Slots) + 1)
  BY <1>1, <1>6, <1>7, LiveFacts DEF IInv, WaitGroupCounts
<1>10. TypeOK'
  BY <1>1, <1>4, <1>9 DEF IInv, TypeOK, Routine
<1>11. UpdatesAreCounted'
  BY <1>1, <1>6, <1>7, LiveFacts DEF IInv, UpdatesAreCounted, WaitGroupCounts
<1>12. MapIsExact'
  <2> SUFFICES ASSUME mgr \in {"new", "starting", "failed", "running"}
               PROVE  MapIsExact'
    BY <1>1 DEF MapIsExact
  <2>1. rt[r].cancelled
    BY <1>1 DEF CtxDone, Cancelled
  <2>2. \A i \in DOMAIN routines : routines[i] # r /\ routines[i] \in Slots
    BY <2>1 DEF IInv, MapIsExact, TypeOK
  <2> QED BY <1>1, <1>4, <2>2 DEF IInv, MapIsExact
<1> QED BY <1>8, <1>10, <1>11, <1>12 DEF IInv

LEMMA StopRoutinesIInv == ASSUME IInv, StopRoutines PROVE IInv'
<1>1. /\ mgr = "stopping" /\ mgr' = "waiting"
      /\ UNCHANGED <<rules, edits, poll, upd, snap, routines, wg, health>>
  BY DEF StopRoutines, storeVars
<1>2. rt \in [Slots -> Routine]
  BY DEF IInv, TypeOK, Routine
<1>3. ASSUME NEW r \in Slots
      PROVE  /\ [rt[r] EXCEPT !.cancelled = TRUE] \in Routine
             /\ [rt[r] EXCEPT !.cancelled = TRUE].pc = rt[r].pc
             /\ [rt[r] EXCEPT !.cancelled = TRUE].interval = rt[r].interval
  <2>1. TRUE \in BOOLEAN
    BY Zenon
  <2>2. rt[r] \in Routine
    BY <1>2
  <2> QED BY <2>1, <2>2 DEF Routine
<1>4. /\ rt' \in [Slots -> Routine]
      /\ \A r \in Slots : rt'[r].pc = rt[r].pc /\ rt'[r].interval = rt[r].interval
  BY <1>2, <1>3 DEF StopRoutines
<1>5. TypeOK'
  BY <1>1, <1>4 DEF IInv, TypeOK, Routine
<1>6. Live' = Live
  BY <1>4 DEF Live
<1>7. WaitGroupCounts' /\ UpdatesAreCounted' /\ MapIsExact'
  BY <1>1, <1>6 DEF IInv, WaitGroupCounts, UpdatesAreCounted, MapIsExact
<1> QED BY <1>5, <1>7 DEF IInv
-----------------------------------------------------------------------------
(* updateRoutines: every new interval gets a goroutine of its own, the     *)
(* goroutines of unused ones are cancelled, nothing else changes.          *)
LEMMA UpdateFacts ==
  ASSUME IInv, UpdateRoutines
  PROVE  \E slot \in [Added -> Free] :
           /\ \A i, j \in Added : slot[i] = slot[j] => i = j
           /\ DOMAIN routines' = Kept \cup Added
           /\ \A i \in Added : routines'[i] = slot[i]
           /\ \A i \in Kept : routines'[i] = routines[i]
           /\ rt' \in [Slots -> Routine]
           /\ \A i \in Added : /\ rt'[slot[i]].pc = "select"
                               /\ rt'[slot[i]].interval = i
                               /\ ~rt'[slot[i]].cancelled
           /\ \A r \in Slots : (\A i \in Added : slot[i] # r) =>
                 /\ rt'[r].pc = rt[r].pc /\ rt'[r].interval = rt[r].interval
                 /\ IF \E i \in Unused : routines[i] = r
                      THEN rt'[r].cancelled ELSE rt'[r] = rt[r]
<1> DEFINE Good(f) == \A i, j \in Added : f[i] = f[j] => i = j
           slot == CHOOSE f \in [Added -> Free] : Good(f)
           stale == {routines[i] : i \in Unused}
<1>1. /\ Added \cap ZeroIntervals = {} /\ Cardinality(Added) <= Cardinality(Free)
      /\ routines' = [i \in Kept \cup Added |-> IF i \in Added THEN slot[i] ELSE routines[i]]
      /\ rt' = [r \in Slots |->
                     IF \E i \in Added : slot[i] = r
                       THEN [NoRoutine EXCEPT !.pc = "select",
                               !.interval = CHOOSE i \in Added : slot[i] = r]
                     ELSE IF r \in stale THEN [rt[r] EXCEPT !.cancelled = TRUE]
                     ELSE rt[r]]
  BY DEF UpdateRoutines
<1>2. \E f \in [Added -> Free] : Good(f)
  <2>1. IsFiniteSet(Added)
    BY AddedFacts DEF IInv
  <2>2. IsFiniteSet(Free)
    <3>1. Free \in SUBSET Slots /\ IsFiniteSet(Slots)
      BY RulerAssumption DEF Free
    <3> QED BY <3>1, FS_Subset
  <2> QED BY <1>1, <2>1, <2>2, RoomMeansInjection
<1>3. slot \in [Added -> Free] /\ Good(slot)
  BY <1>2
<1> HIDE DEF slot
<1>4. Added \subseteq Intervals /\ Free \subseteq Slots /\ Added \cap DOMAIN routines = {}
  BY <1>1, AddedFacts DEF IInv, Free, Added
<1>5. rt \in [Slots -> Routine]
  BY DEF IInv, TypeOK, Routine
<1>6. DOMAIN routines' = Kept \cup Added /\ \A i \in Added : routines'[i] = slot[i]
  BY <1>1
<1>7. \A i \in Kept : routines'[i] = routines[i]
  BY <1>1, <1>4 DEF Kept
<1>8. ASSUME NEW i \in Added
      PROVE  /\ rt'[slot[i]] \in Routine
             /\ rt'[slot[i]].pc = "select" /\ rt'[slot[i]].interval = i
             /\ ~rt'[slot[i]].cancelled
  <2>1. slot[i] \in Slots /\ (CHOOSE j \in Added : slot[j] = slot[i]) = i
    BY <1>3, <1>4
  <2>2. rt'[slot[i]] = [NoRoutine EXCEPT !.pc = "select", !.interval = i]
    BY <1>1, <2>1
  <2>3. rt'[slot[i]] = [pc |-> "select", interval |-> i, cancelled |-> FALSE, todo |-> {}]
    BY <2>2 DEF NoRoutine
  <2>4. FALSE \in BOOLEAN
    BY Zenon
  <2> QED BY <1>4, <2>3, <2>4 DEF Routine
<1>9. ASSUME NEW r \in Slots, \A i \in Added : slot[i] # r
      PROVE  /\ rt'[r] \in Routine
             /\ rt'[r].pc = rt[r].pc /\ rt'[r].interval = rt[r].interval
             /\ IF \E i \in Unused : routines[i] = r
                  THEN rt'[r].cancelled ELSE rt'[r] = rt[r]
  <2>1. rt'[r] = IF r \in stale THEN [rt[r] EXCEPT !.cancelled = TRUE] ELSE rt[r]
    BY <1>1, <1>9
  <2>2. rt[r] \in Routine /\ TRUE \in BOOLEAN
    BY <1>5, Zenon
  <2>3. CASE r \in stale
    <3>1. rt'[r] = [rt[r] EXCEPT !.cancelled = TRUE]
      BY <2>1, <2>3
    <3>2. rt'[r] \in Routine /\ rt'[r].pc = rt[r].pc /\ rt'[r].interval = rt[r].interval
      BY <2>2, <3>1 DEF Routine
    <3>3. rt'[r].cancelled
      BY <2>2, <3>1 DEF Routine
    <3>4. \E i \in Unused : routines[i] = r
      BY <2>3
    <3> QED BY <3>2, <3>3, <3>4
  <2>4. CASE r \notin stale
    <3>1. rt'[r] = rt[r] /\ ~\E i \in Unused : routines[i] = r
      BY <2>1, <2>4
    <3> QED BY <2>2, <3>1
  <2> QED BY <2>3, <2>4
<1>10. rt' \in [Slots -> Routine]
  <2>1. \A r \in Slots : rt'[r] \in Routine
    BY <1>8, <1>9
  <2>2. rt' = [r \in Slots |-> rt'[r]]
    BY <1>1
  <2> QED BY <2>1, <2>2
<1> HIDE DEF stale
<1> QED BY <1>3, <1>6, <1>7, <1>8, <1>9, <1>10

LEMMA UpdateRoutinesIInv == ASSUME IInv, UpdateRoutines PROVE IInv'
<1>1. /\ upd = "apply" /\ upd' = "prune" /\ mgr # "dead"
      /\ Added \cap ZeroIntervals = {}
      /\ wg' = wg + Cardinality(Added)
      /\ UNCHANGED <<rules, edits, mgr, poll, snap, health>>
  BY DEF UpdateRoutines, storeVars
<1>2. PICK slot \in [Added -> Free] :
           /\ \A i, j \in Added : slot[i] = slot[j] => i = j
           /\ DOMAIN routines' = Kept \cup Added
           /\ \A i \in Added : routines'[i] = slot[i]
           /\ \A i \in Kept : routines'[i] = routines[i]
           /\ rt' \in [Slots -> Routine]
           /\ \A i \in Added : /\ rt'[slot[i]].pc = "select"
                               /\ rt'[slot[i]].interval = i
                               /\ ~rt'[slot[i]].cancelled
           /\ \A r \in Slots : (\A i \in Added : slot[i] # r) =>
                 /\ rt'[r].pc = rt[r].pc /\ rt'[r].interval = rt[r].interval
                 /\ IF \E i \in Unused : routines[i] = r
                      THEN rt'[r].cancelled ELSE rt'[r] = rt[r]
  BY UpdateFacts
<1>3. /\ Added \subseteq Intervals /\ IsFiniteSet(Added)
      /\ Kept \subseteq DOMAIN routines /\ Added \cap DOMAIN routines = {}
      /\ Free \subseteq Slots
  BY <1>1, AddedFacts DEF IInv, Kept, Added, Free
<1> DEFINE image == {slot[i] : i \in Added}
<1>4. image \subseteq Free /\ Live \cap image = {}
  BY <1>2 DEF Live, Free
<1>5. Live' = Live \cup image
  <2>1. ASSUME NEW r \in Slots PROVE rt'[r].pc # "free" <=> r \in Live \cup image
    <3>1. CASE r \in image
      BY <1>2, <3>1
    <3>2. CASE r \notin image
      BY <1>2, <3>2 DEF Live
    <3> QED BY <3>1, <3>2
  <2>2. Live \cup image \subseteq Slots
    BY <1>3, <1>4 DEF Live
  <2> QED BY <2>1, <2>2 DEF Live
<1>6. IsFiniteSet(image) /\ Cardinality(image) = Cardinality(Added)
  <2>1. slot \in Surjection(Added, image)
    BY <1>2 DEF Surjection
  <2>2. slot \in Injection(Added, image)
    BY <1>2, <2>1 DEF Injection, Surjection, IsInjective
  <2> QED BY <1>3, <2>1, <2>2, FS_Surjection
<1>7. Cardinality(Live') = Cardinality(Live) + Cardinality(Added)
  <2>1. Cardinality(Live \cap image) = 0
    BY <1>4, FS_EmptySet
  <2>2. Cardinality(Added) \in Nat
    BY <1>3, FS_CardinalityType
  <2> HIDE DEF image
  <2>3. Cardinality(Live \cup image) =
           Cardinality(Live) + Cardinality(image) - Cardinality(Live \cap image)
    BY <1>6, LiveFacts, FS_Union
  <2> QED BY <1>5, <1>6, <2>1, <2>2, <2>3, LiveFacts
<1>8. /\ Cardinality(Added) \in Nat /\ Cardinality(Live) \in Nat
      /\ Cardinality(Live') <= Cardinality(Slots) /\ Cardinality(Slots) \in Nat
  <2>1. Live' \in SUBSET Slots /\ IsFiniteSet(Slots)
    BY RulerAssumption DEF Live
  <2> QED BY <1>3, <2>1, LiveFacts, FS_Subset, FS_CardinalityType
<1>9. WaitGroupCounts'
  BY <1>1, <1>7, <1>8 DEF IInv, WaitGroupCounts
<1>10. wg' \in 0..(Cardinality(Slots) + 1)
  <2>1. wg' = Cardinality(Live') + (IF poll = "on" THEN 1 ELSE 0)
    BY <1>1, <1>9 DEF WaitGroupCounts
  <2>2. Cardinality(Live') \in Nat
    BY <1>7, <1>8
  <2> QED BY <1>8, <2>1, <2>2
<1>11. TypeOK'
  <2>1. \A i \in DOMAIN routines' : i \in Intervals /\ routines'[i] \in Slots
    BY <1>2, <1>3 DEF IInv, TypeOK
  <2>2. \A r \in Slots : rt'[r].pc # "free" => rt'[r].interval \in Intervals
    <3> SUFFICES ASSUME NEW r \in Slots, rt'[r].pc # "free"
                 PROVE  rt'[r].interval \in Intervals
      OBVIOUS
    <3>1. CASE \E i \in Added : slot[i] = r
      BY <1>2, <1>3, <3>1
    <3>2. CASE \A i \in Added : slot[i] # r
      BY <1>2, <3>2 DEF IInv, TypeOK
    <3> QED BY <3>1, <3>2
  <2> QED BY <1>1, <1>2, <1>10, <2>1, <2>2 DEF IInv, TypeOK, Routine
<1>12. UpdatesAreCounted'
  <2>1. mgr # "stopped"
    <3> SUFFICES ASSUME mgr = "stopped" PROVE FALSE
      OBVIOUS
    <3>1. poll = "on" /\ wg = 0
      BY <1>1 DEF IInv, UpdatesAreCounted
    <3> QED BY <1>8, <3>1 DEF IInv, WaitGroupCounts
  <2> QED BY <1>1, <2>1 DEF IInv, UpdatesAreCounted
<1>13. MapIsExact'
  <2> SUFFICES ASSUME mgr \in {"new", "starting", "failed", "running"}
               PROVE  MapIsExact'
    BY <1>1 DEF MapIsExact
  <2>1. ASSUME NEW i \in DOMAIN routines'
        PROVE  /\ rt'[routines'[i]].pc # "free"
               /\ ~rt'[routines'[i]].cancelled
               /\ rt'[routines'[i]].interval = i
    <3>1. CASE i \in Added
      BY <1>2, <3>1
    <3>2. CASE i \in Kept
      <4> DEFINE r == routines[i]
      <4>1. /\ r \in Slots /\ rt[r].pc # "free" /\ ~rt[r].cancelled /\ rt[r].interval = i
        BY <1>3, <3>2 DEF IInv, MapIsExact, TypeOK
      <4>2. \A j \in Added : slot[j] # r
        BY <1>2, <4>1 DEF Free
      <4>3. ~\E j \in Unused : routines[j] = r
        BY <3>2, <4>1 DEF IInv, MapIsExact, Kept, Unused
      <4>4. routines'[i] = r /\ rt'[r] = rt[r]
        BY <1>2, <3>2, <4>1, <4>2, <4>3
      <4> QED BY <4>1, <4>4
    <3> QED BY <1>2, <3>1, <3>2
  <2>2. ASSUME NEW r \in Slots, rt'[r].pc # "free", ~rt'[r].cancelled
        PROVE  rt'[r].interval \in DOMAIN routines' /\ routines'[rt'[r].interval] = r
    <3>1. CASE \E i \in Added : slot[i] = r
      BY <1>2, <3>1
    <3>2. CASE \A i \in Added : slot[i] # r
      <4>1. ~(\E i \in Unused : routines[i] = r) /\ rt'[r] = rt[r]
        BY <1>2, <2>2, <3>2
      <4>2. rt[r].interval \in DOMAIN routines /\ routines[rt[r].interval] = r
        BY <2>2, <4>1 DEF IInv, MapIsExact
      <4>3. rt[r].interval \in Kept
        BY <4>1, <4>2 DEF Kept, Unused
      <4> QED BY <1>2, <4>1, <4>2, <4>3
    <3> QED BY <3>1, <3>2
  <2> QED BY <2>1, <2>2 DEF MapIsExact
<1> QED BY <1>9, <1>11, <1>12, <1>13 DEF IInv
-----------------------------------------------------------------------------
LEMMA NextIInv == ASSUME IInv, [Next]_vars PROVE IInv'
<1>1. CASE UNCHANGED vars
  <2>1. UNCHANGED <<rules, edits, mgr, poll, upd, snap, routines, rt, wg, health>>
    BY <1>1 DEF vars
  <2>2. TypeOK'
    BY <2>1 DEF IInv, TypeOK
  <2>3. WaitGroupCounts'
    BY <2>1 DEF IInv, WaitGroupCounts, Live
  <2> QED BY <2>1, <2>2, <2>3 DEF IInv, UpdatesAreCounted, MapIsExact
<1>2. ASSUME NEW r \in Slots, Tick(r) \/ Evaluate(r) \/ RoutineExits(r) PROVE IInv'
  BY <1>2, EvaluateIInv, RoutineExitsIInv
<1> QED BY <1>1, <1>2, EditIInv, ControlIInv, PollExitsIInv, UpdateRoutinesIInv,
           PruneHealthIInv, StopRoutinesIInv DEF Next

(* The inductive invariant holds in every reachable state: the WaitGroup   *)
(* counts the goroutines of manager.go, and the map names them.            *)
THEOREM InvariantHolds == Spec => []IInv
<1>1. Init => IInv
  BY InitIInv
<1>2. IInv /\ [Next]_vars => IInv'
  BY NextIInv
<1> QED BY <1>1, <1>2, PTL DEF Spec

(* RoutinesAreManaged: while the manager runs the map and the goroutines   *)
(* that may evaluate name each other one to one (updateRoutines), and once *)
(* Stop has returned there is none, not even one that a poll in flight     *)
(* started while Stop was waiting.                                         *)
THEOREM RoutinesManaged == Spec => []RoutinesAreManaged
<1>1. IInv => StoppedIsQuiet
  <2> SUFFICES ASSUME IInv, mgr = "stopped"
               PROVE  /\ poll # "on" /\ upd = "idle"
                      /\ \A r \in Slots : rt[r].pc = "free"
    BY DEF StoppedIsQuiet
  <2>1. Cardinality(Live) = 0 /\ poll # "on"
    BY LiveFacts DEF IInv, UpdatesAreCounted, WaitGroupCounts
  <2>2. Live = {}
    BY <2>1, LiveFacts, FS_EmptySet
  <2> QED BY <2>1, <2>2 DEF Live, IInv, UpdatesAreCounted
<1>2. IInv => LiveRoutinesAreMapped
  <2> SUFFICES ASSUME IInv, mgr \in {"starting", "running"}, NEW r \in Slots
               PROVE  (rt[r].pc # "free" /\ ~rt[r].cancelled)
                        <=> (\E i \in DOMAIN routines : routines[i] = r /\ rt[r].interval = i)
    BY DEF LiveRoutinesAreMapped
  <2> QED BY DEF IInv, MapIsExact
<1>3. IInv => RoutinesAreManaged
  BY <1>1, <1>2 DEF IInv, RoutinesAreManaged
<1> QED BY <1>3, InvariantHolds, PTL
=============================================================================
