--------------------------- MODULE InsertService ---------------------------
(***************************************************************************)
(* One InsertServiceV2 of writer/service/generic_insert.go: the batcher    *)
(* that every write of gigapipe goes through.  HTTP handlers call Request  *)
(* concurrently; one goroutine executes Run, which swaps the buffer out    *)
(* and sends it to ClickHouse as a single INSERT; Stop and PlanFlush come  *)
(* from other goroutines.  Each critical section under svc.mtx is one      *)
(* step; what the code does outside the lock is a step of its own.         *)
(*                                                                         *)
(* The rows of a request are named by the call that brought them.  Times   *)
(* (lastRequest, pushInterval, the watchdog's ticker) are not measured:    *)
(* the insert context may expire at any moment.                            *)
(***************************************************************************)
EXTENDS Naturals, FiniteSets

CONSTANTS Calls,         \* the invocations of Request
          Size,          \* [Calls -> Nat], req.GetSize(); 0 for a request without rows
          MaxQueueSize   \* svc.maxQueueSize; 0 means no limit

ASSUME SizeAssumption == Size \in [Calls -> Nat]
ASSUME MaxQueueSizeAssumption == MaxQueueSize \in Nat

VARIABLES
  lifecycle,   \* svc.running: "running" or "stopped"
  ctx,         \* svc.ctx: "live", "done" once Stop has cancelled it
  insertCtx,   \* svc.insertCtx: "live", "done" when cancelled or timed out
  columns,     \* svc.columns: the calls whose rows are buffered
  size,        \* svc.size
  results,     \* svc.results: the calls whose promises wait for the buffer
  client,      \* svc.client: "nil" or "open"
  cols,        \* cols: the rows the Run goroutine is inserting
  res,         \* res: the calls that wait for them
  pc,          \* where the Run goroutine is
  call,        \* where each invocation of Request is
  promise,     \* the promise each invocation returns
  stored,      \* calls whose rows are in the ClickHouse table
  doneCalls    \* history: how often Done was called on each promise

vars == <<lifecycle, ctx, insertCtx, columns, size, results, client,
          cols, res, pc, call, promise, stored, doneCalls>>

bufferVars == <<columns, size, results>>
promiseVars == <<promise, doneCalls>>
portion == <<cols, res>>   \* the requestPortion in flight, empty when there is none

EmptyCalls == {c \in Calls : Size[c] = 0}

TypeOK ==
  /\ lifecycle \in {"running", "stopped"}
  /\ ctx \in {"live", "done"}
  /\ insertCtx \in {"live", "done"}
  /\ columns \in SUBSET Calls
  /\ size \in Nat
  /\ results \in SUBSET Calls
  /\ client \in {"nil", "open"}
  /\ cols \in SUBSET Calls
  /\ res \in SUBSET Calls
  /\ pc \in {"select", "connect", "swap", "prepare", "doing", "returned"}
  /\ call \in [Calls -> {"idle", "checked", "returned"}]
  /\ promise \in [Calls -> {"none", "pending", "ok", "err"}]
  /\ stored \in SUBSET Calls
  /\ doneCalls \in [Calls -> Nat]

(* Init() has run and the Run goroutine has been started. *)
Init ==
  /\ lifecycle = "running"
  /\ ctx = "live"
  /\ insertCtx = "live"
  /\ columns = {}
  /\ size = 0
  /\ results = {}
  /\ client = "nil"
  /\ cols = {} /\ res = {}
  /\ pc = "select"
  /\ call = [c \in Calls |-> "idle"]
  /\ promise = [c \in Calls |-> "none"]
  /\ stored = {}
  /\ doneCalls = [c \in Calls |-> 0]

-----------------------------------------------------------------------------
(* Promise.Done: the first call settles the promise, later ones are lost   *)
(* to the compare-and-swap.                                                *)
Done(S, outcome) ==
  /\ promise' = [c \in Calls |->
                   IF c \in S /\ promise[c] \notin {"ok", "err"}
                   THEN outcome ELSE promise[c]]
  /\ doneCalls' = [c \in Calls |->
                     IF c \in S THEN doneCalls[c] + 1 ELSE doneCalls[c]]

(* Request reads svc.running without holding the lock: it goes on...       *)
RequestCheck(c) ==
  /\ call[c] = "idle"
  /\ lifecycle = "running"
  /\ call' = [call EXCEPT ![c] = "checked"]
  /\ UNCHANGED <<lifecycle, ctx, insertCtx, bufferVars, client, portion, pc,
                 promiseVars, stored>>

(* ... or finds the service stopped and answers with an error.             *)
RequestRefused(c) ==
  /\ call[c] = "idle"
  /\ lifecycle = "stopped"
  /\ call' = [call EXCEPT ![c] = "returned"]
  /\ Done({c}, "err")
  /\ UNCHANGED <<lifecycle, ctx, insertCtx, bufferVars, client, portion, pc,
                 stored>>

(* The critical section of Request, for a request without rows: inserted   *)
(* is 0 and the promise is fulfilled at once.                              *)
RequestEmpty(c) ==
  /\ call[c] = "checked"
  /\ c \in EmptyCalls
  /\ call' = [call EXCEPT ![c] = "returned"]
  /\ Done({c}, "ok")
  /\ UNCHANGED <<lifecycle, ctx, insertCtx, bufferVars, client, portion,
                 pc, stored>>

(* Mutant: the limit is compared with the size before the request.         *)
OverLimitLate(newSize) == MaxQueueSize > 0 /\ size > MaxQueueSize

OverLimit(newSize) == MaxQueueSize > 0 /\ newSize > MaxQueueSize

(* Mutant: the promise is fulfilled as soon as the rows are buffered.      *)
QueuePromiseAcks(c) == results' = results \cup {c} /\ Done({c}, "ok")

QueuePromise(c) ==
  /\ results' = results \cup {c}
  /\ promise' = [promise EXCEPT ![c] = "pending"]
  /\ UNCHANGED doneCalls

(* The critical section of Request: append the rows to the columns, ask    *)
(* for a flush when the queue has outgrown its limit, queue the promise.   *)
(* processRequest fails only for a request of another service's type,      *)
(* which no caller makes; a request with rows has a positive size (at      *)
(* least 14 bytes per time_series row, 26 per sample, 40 per tag, 49 per   *)
(* span, 16 per profile).                                                  *)
RequestEnqueue(c) ==
  /\ call[c] = "checked"
  /\ c \notin EmptyCalls
  /\ columns' = columns \cup {c}
  /\ size' = size + Size[c]
  /\ insertCtx' = IF OverLimit(size') THEN "done" ELSE insertCtx
  /\ QueuePromise(c)
  /\ call' = [call EXCEPT ![c] = "returned"]
  /\ UNCHANGED <<lifecycle, ctx, client, portion, pc, stored>>

(* svc.insertCtx reaches its deadline, pushInterval after it was made. *)
PushIntervalElapsed ==
  /\ insertCtx = "live"
  /\ insertCtx' = "done"
  /\ UNCHANGED <<lifecycle, ctx, bufferVars, client, portion, pc, call,
                 promiseVars, stored>>

(* Another service is about to insert and asks this one to flush too. *)
PlanFlush ==
  /\ insertCtx' = "done"
  /\ UNCHANGED <<lifecycle, ctx, bufferVars, client, portion, pc, call,
                 promiseVars, stored>>

Stop ==
  /\ ctx' = "done"
  /\ UNCHANGED <<lifecycle, insertCtx, bufferVars, client, portion, pc, call,
                 promiseVars, stored>>

-----------------------------------------------------------------------------
(* The Run goroutine.  Run selects among the branches that are ready.      *)

CloseClient == client' = "nil"

(* case <-svc.watchdog.C, when the ping fails: the connection is dropped.  *)
(* A ping that succeeds changes nothing but lastRequest.                   *)
RunPingFailed ==
  /\ pc = "select"
  /\ client = "open"
  /\ CloseClient
  /\ UNCHANGED <<lifecycle, ctx, insertCtx, bufferVars, portion, pc, call,
                 promiseVars, stored>>

(* Mutant: Run returns without failing the queued promises.                *)
DrainNobody == UNCHANGED promiseVars

DrainResults == Done(results, "err")

(* case <-svc.ctx.Done(): every queued promise fails, the buffer is left   *)
(* as it is and Run returns.                                               *)
RunStopped ==
  /\ pc = "select"
  /\ ctx = "done"
  /\ DrainResults
  /\ lifecycle' = "stopped"
  /\ pc' = "returned"
  /\ UNCHANGED <<ctx, insertCtx, bufferVars, client, portion, call, stored>>

(* case <-svc.insertCtx.Done(): fetchLoopIteration. *)
RunFetch ==
  /\ pc = "select"
  /\ insertCtx = "done"
  /\ pc' = IF client = "nil" THEN "connect" ELSE "swap"
  /\ UNCHANGED <<lifecycle, ctx, insertCtx, bufferVars, client, portion,
                 call, promiseVars, stored>>

ConnectOk ==
  /\ pc = "connect"
  /\ client' = "open"
  /\ pc' = "swap"
  /\ UNCHANGED <<lifecycle, ctx, insertCtx, bufferVars, portion, call,
                 promiseVars, stored>>

(* V3Session fails: sleep a second and go back to the select. *)
ConnectFailed ==
  /\ pc = "connect"
  /\ pc' = "select"
  /\ UNCHANGED <<lifecycle, ctx, insertCtx, bufferVars, client, portion,
                 call, promiseVars, stored>>

(* Mutant: svc.results is not reset when it is handed to the portion.      *)
KeepResults == UNCHANGED results

ResetResults == results' = {}

(* swapBuffers: renew the insert context and take the buffer. *)
SwapBuffers ==
  /\ pc = "swap"
  /\ insertCtx' = "live"
  /\ IF size = 0
     THEN pc' = "select" /\ UNCHANGED <<bufferVars, portion>>
     ELSE /\ cols' = columns /\ res' = results
          /\ columns' = {}
          /\ size' = 0
          /\ ResetResults
          /\ pc' = "prepare"
  /\ UNCHANGED <<lifecycle, ctx, client, call, promiseVars, stored>>

(* OnBeforeInsert (PlanFlush of the services this one drags along), then   *)
(* the INSERT is sent; the service advertises INSERT_STATE_INSERTING.      *)
SendInsert ==
  /\ pc = "prepare"
  /\ pc' = "doing"
  /\ UNCHANGED <<lifecycle, ctx, insertCtx, bufferVars, client, portion,
                 call, promiseVars, stored>>

(* Mutant: the error of Do is not passed on.                               *)
ReleaseWaitingNil(outcome) == Done(res, "ok")

(* Mutant: an early return on error, before the promises are released.     *)
ReleaseWaitingOnSuccess(outcome) ==
  IF outcome = "ok" THEN Done(res, outcome) ELSE UNCHANGED promiseVars

(* releaseWaiting: everyone in the portion gets the outcome of the INSERT. *)
ReleaseWaiting(outcome) == Done(res, outcome)

(* client.Do returns nil: all rows of the portion are in the table. *)
InsertOk ==
  /\ pc = "doing"
  /\ stored' = stored \cup cols
  /\ ReleaseWaiting("ok")
  /\ cols' = {} /\ res' = {}
  /\ pc' = "select"
  /\ UNCHANGED <<lifecycle, ctx, insertCtx, bufferVars, client, call>>

(* client.Do returns an error (write timeout, cancelled by Stop, server or *)
(* network failure).  ClickHouse commits an INSERT part by part, and the   *)
(* answer may be lost after the commit: any of the rows may be stored.     *)
InsertFailed ==
  /\ pc = "doing"
  /\ \E T \in SUBSET cols : stored' = stored \cup T
  /\ ReleaseWaiting("err")
  /\ cols' = {} /\ res' = {}
  /\ CloseClient
  /\ pc' = "select"
  /\ UNCHANGED <<lifecycle, ctx, insertCtx, bufferVars, call>>

(* svc.state, which GetState reports to the round robin. *)
State == IF pc = "doing" THEN "INSERTING" ELSE "IDLE"

-----------------------------------------------------------------------------
RunLoop ==
  \/ RunPingFailed \/ RunStopped \/ RunFetch \/ ConnectOk \/ ConnectFailed
  \/ SwapBuffers \/ SendInsert \/ InsertOk \/ InsertFailed

Next ==
  \/ \E c \in Calls : \/ RequestCheck(c) \/ RequestRefused(c)
                       \/ RequestEmpty(c) \/ RequestEnqueue(c)
  \/ PushIntervalElapsed \/ PlanFlush \/ Stop
  \/ RunLoop

Spec == Init /\ [][Next]_vars
-----------------------------------------------------------------------------
Contract == INSTANCE InsertContract

(* The batcher implements what Request promises its callers: a promise     *)
(* that is fulfilled without an error stands for rows that are in the      *)
(* table, and a settled promise keeps its outcome (Request,                *)
(* fetchLoopIteration, Run and Promise.Done together).                     *)
ImplementsContract == Contract!ContractSpec

(* The bookkeeping behind those promises: rows and promises travel         *)
(* together, a call is in at most one of the buffer and the portion, a     *)
(* portion exists only while it is being inserted, svc.size is 0 exactly   *)
(* when nobody is queued, and a promise is settled exactly when Done was   *)
(* called on it.                                                           *)
RowsWithPromises ==
  /\ columns = results
  /\ cols = res
  /\ results \cap res = {}
  /\ results \cup res \subseteq Calls \ EmptyCalls
  /\ pc \notin {"prepare", "doing"} => res = {}
  /\ (size = 0) <=> (results = {})

Queued(c) == c \in results \cup res

CallsAndPromises ==
  \A c \in Calls :
    /\ promise[c] = "none" <=> call[c] \in {"idle", "checked"}
    /\ promise[c] = "pending" => Queued(c)
    /\ Queued(c) => call[c] = "returned"
    /\ Queued(c) /\ pc # "returned" => promise[c] = "pending"
    /\ doneCalls[c] = IF promise[c] \in {"ok", "err"} THEN 1 ELSE 0

(* A call whose promise is ok and that had rows has them in ClickHouse:    *)
(* swapBuffers must hand over rows and promises together, and no path may  *)
(* fulfil a promise whose rows are still buffered.                         *)
AckedRowsStored ==
  \A c \in Calls \ EmptyCalls : promise[c] = "ok" => c \in stored

(* Every promise has one settler: the buffer and the portion in flight     *)
(* never share a call, so the compare-and-swap in Promise.Done is never    *)
(* what decides between two outcomes.                                      *)
SettledOnce == \A c \in Calls : doneCalls[c] <= 1

(* No caller is forgotten: a promise that is still pending is queued for   *)
(* the next batch or belongs to the batch in flight.                       *)
NobodyForgotten ==
  \A c \in Calls : promise[c] = "pending" => c \in results \cup res

(* A queue above its limit always has a flush planned: the wake-up that    *)
(* Request raises is not lost when swapBuffers renews the insert context.  *)
OverfullIsFlushing ==
  (MaxQueueSize > 0 /\ size > MaxQueueSize) => insertCtx = "done"

(* A caller that was queued before Run returned gets an answer; so does    *)
(* everyone while the service is not stopped.  (A call that passed the     *)
(* unlocked check of svc.running and takes the lock after Run has drained  *)
(* the queue is the exception: it is never answered.)                      *)
QueuedCallsAnswered ==
  \A c \in Calls :
     (promise[c] = "pending" /\ pc # "returned") ~> (promise[c] \in {"ok", "err"})
=============================================================================
