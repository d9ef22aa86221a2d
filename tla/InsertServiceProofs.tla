------------------------ MODULE InsertServiceProofs ------------------------
(***************************************************************************)
(* Proofs about InsertService, for any set of calls, any sizes and any     *)
(* queue limit.  The inductive invariant is IInv: the properties alone are *)
(* not inductive, because InsertOk acknowledges whoever is in res          *)
(* and stores whatever is in cols; that the two agree was decided          *)
(* two steps earlier by swapBuffers and before that by Request.            *)
(***************************************************************************)
EXTENDS InsertService, TLAPS

IInv ==
  /\ TypeOK
  /\ RowsWithPromises
  /\ CallsAndPromises
  /\ AckedRowsStored
  /\ OverfullIsFlushing

LEMMA InitIInv == Init => IInv
<1> SUFFICES ASSUME Init PROVE IInv
  OBVIOUS
<1> USE DEF Init
<1>1. TypeOK
  BY DEF TypeOK
<1>2. RowsWithPromises
  BY DEF RowsWithPromises
<1>3. CallsAndPromises
  BY DEF CallsAndPromises, Queued
<1>4. AckedRowsStored /\ OverfullIsFlushing
  BY MaxQueueSizeAssumption DEF AckedRowsStored, OverfullIsFlushing
<1> QED BY <1>1, <1>2, <1>3, <1>4 DEF IInv

(* The actions of the callers: only one call and the buffer change. *)
LEMMA RequestIInv ==
  ASSUME IInv, NEW c \in Calls,
         RequestCheck(c) \/ RequestRefused(c) \/ RequestEmpty(c) \/ RequestEnqueue(c)
  PROVE  IInv'
<1> USE SizeAssumption, MaxQueueSizeAssumption
    DEF IInv, TypeOK, RowsWithPromises, CallsAndPromises, Queued,
        AckedRowsStored, OverfullIsFlushing, EmptyCalls,
        bufferVars, promiseVars, portion, Done, OverLimit, QueuePromise
<1>1. CASE RequestCheck(c)
  BY <1>1 DEF RequestCheck
<1>4. CASE RequestRefused(c)
  BY <1>4 DEF RequestRefused
<1>2. CASE RequestEmpty(c)
  BY <1>2 DEF RequestEmpty
<1>3. CASE RequestEnqueue(c)
  BY <1>3 DEF RequestEnqueue
<1> QED BY <1>1, <1>2, <1>3, <1>4

(* The actions that only raise a signal or move the Run goroutine. *)
LEMMA SignalIInv ==
  ASSUME IInv,
         \/ PushIntervalElapsed \/ PlanFlush \/ Stop \/ RunPingFailed
         \/ RunFetch \/ ConnectOk \/ ConnectFailed \/ SendInsert
  PROVE  IInv'
  BY DEF IInv, TypeOK, RowsWithPromises, CallsAndPromises, Queued,
         AckedRowsStored, OverfullIsFlushing, EmptyCalls,
         bufferVars, promiseVars, portion, PushIntervalElapsed, PlanFlush, Stop,
         RunPingFailed, CloseClient, RunFetch, ConnectOk, ConnectFailed, SendInsert

LEMMA RunStoppedIInv == IInv /\ RunStopped => IInv'
<1> SUFFICES ASSUME IInv, RunStopped PROVE IInv'
  OBVIOUS
<1> USE DEF IInv, TypeOK, RunStopped, bufferVars, portion, DrainResults
<1>1. res = {}
  BY DEF RowsWithPromises
<1>2. TypeOK'
  BY DEF Done
<1>3. RowsWithPromises' /\ OverfullIsFlushing'
  BY <1>1 DEF RowsWithPromises, OverfullIsFlushing, EmptyCalls
<1>4. CallsAndPromises'
  BY <1>1 DEF RowsWithPromises, CallsAndPromises, Queued, Done
<1>5. AckedRowsStored'
  BY DEF AckedRowsStored, EmptyCalls, Done
<1> QED BY <1>2, <1>3, <1>4, <1>5

LEMMA SwapBuffersIInv == IInv /\ SwapBuffers => IInv'
<1> SUFFICES ASSUME IInv, SwapBuffers PROVE IInv'
  OBVIOUS
<1> USE DEF IInv, TypeOK, SwapBuffers, ResetResults, promiseVars
<1>1. CASE size = 0
  BY <1>1, MaxQueueSizeAssumption
     DEF RowsWithPromises, CallsAndPromises, Queued, AckedRowsStored,
         OverfullIsFlushing, EmptyCalls, bufferVars, portion
<1>2. CASE size # 0
  <2>1. res = {}
    BY DEF RowsWithPromises
  <2>2. TypeOK'
    BY <1>2
  <2>3. RowsWithPromises'
    BY <1>2 DEF RowsWithPromises, EmptyCalls
  <2>4. CallsAndPromises'
    BY <1>2, <2>1 DEF RowsWithPromises, CallsAndPromises, Queued
  <2>5. AckedRowsStored' /\ OverfullIsFlushing'
    BY <1>2, MaxQueueSizeAssumption
       DEF AckedRowsStored, OverfullIsFlushing, EmptyCalls
  <2> QED BY <2>2, <2>3, <2>4, <2>5
<1> QED BY <1>1, <1>2

LEMMA InsertReturnsIInv == IInv /\ (InsertOk \/ InsertFailed) => IInv'
<1> USE DEF IInv, TypeOK, RowsWithPromises, CallsAndPromises, Queued,
        AckedRowsStored, OverfullIsFlushing, EmptyCalls,
        bufferVars, Done
<1>1. IInv /\ InsertOk => IInv'
  BY DEF InsertOk, ReleaseWaiting
<1>2. IInv /\ InsertFailed => IInv'
  BY DEF InsertFailed, ReleaseWaiting, CloseClient
<1> QED BY <1>1, <1>2

LEMMA NextIInv == IInv /\ [Next]_vars => IInv'
<1> SUFFICES ASSUME IInv, [Next]_vars PROVE IInv'
  OBVIOUS
<1>1. CASE UNCHANGED vars
  BY <1>1 DEF vars, IInv, TypeOK, RowsWithPromises, CallsAndPromises, Queued,
         AckedRowsStored, OverfullIsFlushing, EmptyCalls
<1>2. CASE Next
  BY <1>2, RequestIInv, SignalIInv, RunStoppedIInv, SwapBuffersIInv,
     InsertReturnsIInv DEF Next, RunLoop
<1> QED BY <1>1, <1>2

(* The batcher's inductive invariant holds in every reachable state. *)
THEOREM InvariantHolds == Spec => []IInv
<1>1. Init => IInv
  BY InitIInv
<1>2. IInv /\ [Next]_vars => IInv'
  BY NextIInv
<1> QED BY <1>1, <1>2, PTL DEF Spec

(* The variables of the service keep their types (Init, Request, Run,      *)
(* swapBuffers, fetchLoopIteration).                                       *)
THEOREM TypeCorrect == Spec => []TypeOK
<1>1. IInv => TypeOK
  BY DEF IInv
<1> QED BY <1>1, InvariantHolds, PTL

(* An acknowledged Request with rows has them in ClickHouse, whatever the  *)
(* interleaving of callers, failures and Stop (fetchLoopIteration).        *)
THEOREM AcknowledgedRowsAreStored == Spec => []AckedRowsStored
<1>1. IInv => AckedRowsStored
  BY DEF IInv
<1> QED BY <1>1, InvariantHolds, PTL

(* Done is called at most once on every promise that Request returns.      *)
THEOREM PromisesSettledOnce == Spec => []SettledOnce
<1>1. IInv => SettledOnce
  BY DEF IInv, CallsAndPromises, SettledOnce
<1> QED BY <1>1, InvariantHolds, PTL

(* A pending promise is queued or in flight: no path of Request,           *)
(* swapBuffers or fetchLoopIteration drops one.                            *)
THEOREM PendingIsQueued == Spec => []NobodyForgotten
<1>1. IInv => NobodyForgotten
  BY DEF IInv, CallsAndPromises, NobodyForgotten, Queued
<1> QED BY <1>1, InvariantHolds, PTL

(* A queue above maxQueueSize always has a flush planned (Request and      *)
(* swapBuffers renewing the insert context).                               *)
THEOREM OverfullQueueFlushes == Spec => []OverfullIsFlushing
<1>1. IInv => OverfullIsFlushing
  BY DEF IInv
<1> QED BY <1>1, InvariantHolds, PTL

(* The batcher implements the contract of Request: every step of the       *)
(* service is a step of InsertContract or leaves promises and table alone. *)
THEOREM Refinement == Spec => ImplementsContract
<1> USE DEF Contract!Settle, Contract!contractVars
<1>1. Init => Contract!ContractInit
  BY DEF Init, Contract!ContractInit
<1>2. IInv /\ [Next]_vars => [Contract!ContractNext]_(Contract!contractVars)
  <2> SUFFICES ASSUME IInv, [Next]_vars
               PROVE  [Contract!ContractNext]_(Contract!contractVars)
    OBVIOUS
  <2>1. ASSUME NEW c \in Calls, RequestRefused(c)
        PROVE  Contract!Answer(c)
    BY <2>1 DEF RequestRefused, Contract!Answer, Done, IInv, TypeOK,
       CallsAndPromises
  <2>2. ASSUME NEW c \in Calls, RequestEmpty(c)
        PROVE  Contract!Answer(c)
    BY <2>2 DEF RequestEmpty, Contract!Answer, Done, IInv, TypeOK,
       CallsAndPromises
  <2>3. ASSUME NEW c \in Calls, RequestEnqueue(c)
        PROVE  Contract!Accept(c)
    BY <2>3 DEF RequestEnqueue, QueuePromise, Contract!Accept, IInv, TypeOK,
       CallsAndPromises
  <2>4. ASSUME RunStopped
        PROVE  Contract!Fail(results, {})
    BY <2>4 DEF RunStopped, DrainResults, Contract!Fail, Done, IInv, TypeOK,
       CallsAndPromises, Queued
  <2>5. ASSUME InsertOk
        PROVE  Contract!Acknowledge(res)
    BY <2>5 DEF InsertOk, ReleaseWaiting, Contract!Acknowledge, Done, IInv, TypeOK,
       CallsAndPromises, RowsWithPromises, Queued
  <2>6. ASSUME InsertFailed
        PROVE  \E T \in SUBSET res : Contract!Fail(res, T)
    <3>1. PICK T \in SUBSET cols : stored' = stored \cup T
      BY <2>6 DEF InsertFailed
    <3>2. T \in SUBSET res
      BY DEF IInv, RowsWithPromises
    <3>3. Contract!Fail(res, T)
      BY <2>6, <3>1, <3>2 DEF InsertFailed, ReleaseWaiting, Contract!Fail,
         Done, IInv, TypeOK, CallsAndPromises, Queued
    <3> QED BY <3>2, <3>3
  <2>7. ASSUME \/ \E c \in Calls : RequestCheck(c)
               \/ PushIntervalElapsed \/ PlanFlush \/ Stop \/ RunPingFailed
               \/ RunFetch \/ ConnectOk \/ ConnectFailed \/ SwapBuffers
               \/ SendInsert \/ UNCHANGED vars
        PROVE  UNCHANGED <<promise, stored>>
    BY <2>7 DEF RequestCheck, PushIntervalElapsed, PlanFlush, Stop, RunPingFailed, RunFetch,
       ConnectOk, ConnectFailed, SwapBuffers, SendInsert, vars, promiseVars
  <2>8. results \in SUBSET Calls /\ res \in SUBSET Calls
    BY DEF IInv, TypeOK
  <2>9. CASE UNCHANGED vars
    BY <2>9, <2>7
  <2>10. CASE \E c \in Calls : RequestRefused(c) \/ RequestEmpty(c) \/ RequestEnqueue(c)
    BY <2>10, <2>1, <2>2, <2>3 DEF Contract!ContractNext
  <2>11. CASE RunStopped
    BY <2>11, <2>4, <2>8 DEF Contract!ContractNext
  <2>12. CASE InsertOk
    BY <2>12, <2>5, <2>8 DEF Contract!ContractNext
  <2>13. CASE InsertFailed
    BY <2>13, <2>6, <2>8 DEF Contract!ContractNext
  <2> QED BY <2>7, <2>9, <2>10, <2>11, <2>12, <2>13 DEF Next, RunLoop
<1> QED BY <1>1, <1>2, InvariantHolds, PTL
        DEF Spec, ImplementsContract, Contract!ContractSpec
=============================================================================
