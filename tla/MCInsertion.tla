----------------------------- MODULE MCInsertion ----------------------------
(***************************************************************************)
(* Where the rows of a push go: an insert service with its Run goroutine,  *)
(* or the topology refresh loop that gives the handlers their services.    *)
(* They share no state, so a run is about one of them, chosen at the start.*)
(* The insert service gets one small request, one that fills the queue     *)
(* together with any other, and one without rows.                          *)
(***************************************************************************)
EXTENDS InsertService, MCShardRouting

CONSTANTS small, large, empty

MCCalls == {small, large, empty}
MCSize == [x \in MCCalls |-> CASE x = small -> 1 [] x = large -> 2 [] x = empty -> 0]
MCMaxQueueSize == 2

VARIABLE active

insertionVars == <<vars, shardVars, active>>

NoCluster == writeSet = {} /\ clusterRows = {<<1, a>>, <<3, c>>}

InsertionInit ==
  /\ Init /\ ShardInit
  /\ active \in {"insert", "shards"}
  /\ active = "insert" => NoCluster

OfInsert(A) == active = "insert" /\ A /\ UNCHANGED <<shardVars, active>>
OfShards(A) == active = "shards" /\ A /\ UNCHANGED <<vars, active>>

InsertionNext == OfInsert(Next) \/ OfShards(ShardNext)

(* The callers and the Run goroutine keep running, timers expire, client.Do *)
(* always returns (it has a deadline), the select of Go picks every branch  *)
(* that stays ready sooner or later, and ClickHouse accepts a connection    *)
(* if asked often enough.  Nothing makes anyone call Stop or PlanFlush, or  *)
(* a ping or an INSERT fail or succeed.                                     *)
InsertFairness ==
  /\ \A x \in Calls : WF_insertionVars(OfInsert(RequestEmpty(x) \/ RequestEnqueue(x)))
  /\ WF_insertionVars(OfInsert(PushIntervalElapsed))
  /\ SF_insertionVars(OfInsert(RunStopped))
  /\ SF_insertionVars(OfInsert(RunFetch))
  /\ SF_insertionVars(OfInsert(ConnectOk))
  /\ WF_insertionVars(OfInsert(SwapBuffers))
  /\ WF_insertionVars(OfInsert(SendInsert))
  /\ WF_insertionVars(OfInsert(InsertOk \/ InsertFailed))

(* Of the fairness of ShardFairSpec what a loop needs that is not stopped. *)
ShardFairness ==
  /\ WF_insertionVars(OfShards(Boot \/ BootRefused))
  /\ WF_insertionVars(OfShards(Refresh))
  /\ SF_insertionVars(OfShards(Discover))

InsertionSpec == InsertionInit /\ [][InsertionNext]_insertionVars /\ InsertFairness /\ ShardFairness
=============================================================================
