---------------------------- MODULE PushPipeline ----------------------------
(***************************************************************************)
(* The way of a push request (logs or metrics) through the writer:         *)
(*  - a parser goroutine decodes the body entry by entry and asks the      *)
(*    fingerprint cache whether the series of the entry was announced      *)
(*    already today (writer/utils/unmarshal/builder.go, numbercache);      *)
(*  - doParse (writer/controller/builder.go) receives the accumulated      *)
(*    chunks and starts one doPush for the time_series rows and one for    *)
(*    the samples of each, in goroutines that retry;                       *)
(*  - doParse then waits for the promises, in order, and answers.          *)
(* The insert services behind doPush are seen through what they promise,   *)
(* InsertContract: one call per attempt.                                   *)
(***************************************************************************)
EXTENDS Naturals, Sequences, FiniteSets, SequencesExt

CONSTANTS Requests,       \* the HTTP push requests
          FP,             \* (day, fingerprint) pairs, the keys of the cache
          Tenants,        \* values of X-Scope-OrgID
          Tenant,         \* [Requests -> Tenants]
          Body,           \* [Requests -> Seq(SUBSET FP)]: the chunks of a body,
                          \* each with the series that occur in it
          Malformed,      \* requests whose body may stop decoding somewhere
          RetryAttempts,  \* SYSTEM_SETTINGS.RetryAttempts
          Modes,          \* what isDistributed of the node may be: it is when
                          \* the node has a cluster name, and the cache is off
          MaxLost         \* bound: calls that meet an insert service whose Run
                          \* has drained its queue for the last time

ASSUME PipelineAssumption ==
  /\ Tenant \in [Requests -> Tenants]
  /\ Body \in [Requests -> Seq(SUBSET FP)]
  /\ \A r \in Requests : Len(Body[r]) > 0
  /\ Malformed \subseteq Requests
  /\ RetryAttempts \in Nat \ {0}
  /\ Modes \subseteq BOOLEAN
  /\ MaxLost \in Nat

VARIABLES isDistributed, \* numbercache: of the node the requests go to
          cache,    \* numbercache: the keys set since the last reset
          phase,    \* [Requests -> "idle", "parsing", "waiting", "ok", "err"]
          chunk,    \* index of the chunk each parser is in
          todo,     \* series of that chunk the parser has not come to yet
          claimed,  \* series it has to announce with that chunk
          pushes,   \* the doPush goroutines of each request, in promise order
          promise,  \* the promise of every call of an insert service
          stored,   \* the calls whose rows are in ClickHouse
          lost,     \* the calls queued behind that last drain
          marked    \* history: the series each request found new and marked

vars == <<isDistributed, cache, phase, chunk, todo, claimed, pushes, promise, stored,
          lost, marked>>
parserVars == <<isDistributed, cache, chunk, todo, claimed, marked>>
serviceVars == <<promise, stored, lost>>

MaxPushes == 2 * Max({Len(Body[r]) : r \in Requests})

(* The n-th attempt of the i-th push of request r. *)
Calls == Requests \X (1..MaxPushes) \X (1..RetryAttempts)

Service == INSTANCE InsertContract WITH EmptyCalls <- {}

Push == [table : {"time_series", "samples"}, rows : SUBSET FP,
         tries : 0..RetryAttempts]

TypeOK ==
  /\ isDistributed \in BOOLEAN
  /\ cache \in SUBSET FP
  /\ phase \in [Requests -> {"idle", "parsing", "waiting", "ok", "err"}]
  /\ chunk \in [Requests -> Nat]
  /\ todo \in [Requests -> SUBSET FP] /\ claimed \in [Requests -> SUBSET FP]
  /\ \A r \in Requests :
        /\ chunk[r] \in 1..Len(Body[r])
        /\ todo[r] \subseteq Body[r][chunk[r]]
        /\ claimed[r] \subseteq Body[r][chunk[r]] \ todo[r]
  /\ pushes \in [Requests -> Seq(Push)]
  /\ promise \in [Calls -> Service!Outcomes]
  /\ stored \in SUBSET Calls
  /\ lost \in SUBSET Calls
  /\ marked \in [Requests -> SUBSET FP]

Init ==
  /\ isDistributed \in Modes
  /\ cache = {}
  /\ phase = [r \in Requests |-> "idle"]
  /\ chunk = [r \in Requests |-> 1]
  /\ todo = [r \in Requests |-> Body[r][1]]
  /\ claimed = [r \in Requests |-> {}]
  /\ pushes = [r \in Requests |-> <<>>]
  /\ Service!ContractInit
  /\ lost = {}
  /\ marked = [r \in Requests |-> {}]

-----------------------------------------------------------------------------
(* The parser. *)

LastChunk(r) == chunk[r] = Len(Body[r])

Start(r) ==
  /\ phase[r] = "idle"
  /\ phase' = [phase EXCEPT ![r] = "parsing"]
  /\ UNCHANGED <<parserVars, pushes, serviceVars>>

CacheOff == isDistributed

(* CheckAndSet of the number cache, negated: the series is new.  The key   *)
(* holds the day and the fingerprint, and no tenant.                       *)
MaybeAddFp(fp) == CacheOff \/ fp \notin cache

CacheWith(fp) == IF CacheOff THEN cache ELSE cache \cup {fp}

(* onEntries: the samples join the chunk; a series the cache does not know *)
(* is marked as known and its time_series row joins the chunk too.         *)
OnEntries(r, fp) ==
  /\ phase[r] = "parsing"
  /\ fp \in todo[r]
  /\ todo' = [todo EXCEPT ![r] = @ \ {fp}]
  /\ claimed' = [claimed EXCEPT ![r] = IF MaybeAddFp(fp) THEN @ \cup {fp} ELSE @]
  /\ marked' = [marked EXCEPT ![r] = IF MaybeAddFp(fp) THEN @ \cup {fp} ELSE @]
  /\ cache' = CacheWith(fp)
  /\ UNCHANGED <<isDistributed, phase, chunk, pushes, serviceVars>>

(* Mutant: the time series are reset before they are flushed.              *)
TimeSeriesRowsReset(r) == {}

TimeSeriesRows(r) == claimed[r]

ResetTimeSeries(r) == [claimed EXCEPT ![r] = {}]

(* flush and reset: the chunk is handed to doParse over the channel, and   *)
(* doParse starts its two pushes.                                          *)
Flush(r) ==
  /\ phase[r] = "parsing"
  /\ todo[r] = {}
  /\ pushes' = [pushes EXCEPT ![r] = @ \o
        << [table |-> "time_series", rows |-> TimeSeriesRows(r), tries |-> 0],
           [table |-> "samples", rows |-> Body[r][chunk[r]], tries |-> 0] >>]
  /\ claimed' = ResetTimeSeries(r)
  /\ IF LastChunk(r)
     THEN phase' = [phase EXCEPT ![r] = "waiting"] /\ UNCHANGED <<chunk, todo>>
     ELSE /\ chunk' = [chunk EXCEPT ![r] = @ + 1]
          /\ todo' = [todo EXCEPT ![r] = Body[r][chunk[r] + 1]]
          /\ UNCHANGED phase
  /\ UNCHANGED <<isDistributed, cache, marked, serviceVars>>

(* Decode returns an error or panics, at whatever entry: what has          *)
(* accumulated is dropped, the series stay marked, and doParse answers     *)
(* with the error; pushes started before go on.                            *)
DecodeError(r) ==
  /\ phase[r] = "parsing"
  /\ r \in Malformed
  /\ phase' = [phase EXCEPT ![r] = "err"]
  /\ claimed' = [claimed EXCEPT ![r] = {}]
  /\ UNCHANGED <<isDistributed, cache, chunk, todo, pushes, marked, serviceVars>>

(* The ticker of the cache: every key is forgotten. *)
CacheReset ==
  /\ cache # {}
  /\ cache' = {}
  /\ UNCHANGED <<isDistributed, phase, chunk, todo, claimed, pushes, marked, serviceVars>>

(* The fastcache behind it has 100 MB and overwrites old keys when full. *)
CacheEvicts(fp) ==
  /\ fp \in cache
  /\ cache' = cache \ {fp}
  /\ UNCHANGED <<isDistributed, phase, chunk, todo, claimed, pushes, marked, serviceVars>>

-----------------------------------------------------------------------------
(* doPush: retry.Do around svc.Request(...).Get(). *)

LastCall(r, i) == <<r, i, pushes[r][i].tries>>

Outcome(r, i) == IF pushes[r][i].tries = 0 THEN "none" ELSE promise[LastCall(r, i)]

(* Mutant: an attempt that has not been answered yet is given up on.       *)
MayTryImpatient(r, i) ==
  pushes[r][i].tries < RetryAttempts /\ Outcome(r, i) # "ok"

MayTry(r, i) ==
  pushes[r][i].tries < RetryAttempts /\ Outcome(r, i) \in {"none", "err"}

(* An attempt calls Request, which accepts the rows or, when there is none *)
(* (no series of the chunk is new), is answered at once.  Rows that are    *)
(* accepted after Run has drained the queue for the last time stay in it.  *)
DoPush(r, i) ==
  /\ i \in DOMAIN pushes[r]
  /\ MayTry(r, i)
  /\ pushes' = [pushes EXCEPT ![r][i].tries = @ + 1]
  /\ LET c == <<r, i, pushes[r][i].tries + 1>>
     IN  IF pushes[r][i].rows = {}
         THEN Service!Settle({c}, "ok") /\ UNCHANGED <<stored, lost>>
         ELSE /\ Service!Accept(c)
              /\ \/ UNCHANGED lost
                 \/ Cardinality(lost) < MaxLost /\ lost' = lost \cup {c}
  /\ UNCHANGED <<parserVars, phase>>

(* The insert service answers a call (a call it refuses because it is      *)
(* stopped is one that fails and stores nothing).                          *)
ServiceAnswers(c) ==
  /\ promise[c] = "pending"
  /\ c \notin lost
  /\ \/ Service!Acknowledge({c})
     \/ \E T \in SUBSET {c} : Service!Fail({c}, T)
  /\ UNCHANGED <<parserVars, phase, pushes, lost>>

PushOk(r, i) == Outcome(r, i) = "ok"

(* Mutant: one attempt more than there are is waited for.                  *)
PushFailedNever(r, i) ==
  Outcome(r, i) = "err" /\ pushes[r][i].tries > RetryAttempts

PushFailed(r, i) ==
  Outcome(r, i) = "err" /\ pushes[r][i].tries = RetryAttempts

(* Mutant: no early return, the error of the last promise decides.         *)
AllOkLastWins(r) == PushOk(r, Len(pushes[r]))

AllOk(r) == \A i \in DOMAIN pushes[r] : PushOk(r, i)

(* The loop over the promises: all are fine, ... *)
AnswerOk(r) ==
  /\ phase[r] = "waiting"
  /\ AllOk(r)
  /\ phase' = [phase EXCEPT ![r] = "ok"]
  /\ UNCHANGED <<parserVars, pushes, serviceVars>>

(* ... or the first that is not fine ends it; later ones are not awaited. *)
AnswerErr(r) ==
  /\ phase[r] = "waiting"
  /\ \E i \in DOMAIN pushes[r] :
       PushFailed(r, i) /\ \A j \in 1..(i - 1) : PushOk(r, j)
  /\ phase' = [phase EXCEPT ![r] = "err"]
  /\ UNCHANGED <<parserVars, pushes, serviceVars>>

-----------------------------------------------------------------------------
Parse(r) == \/ Start(r) \/ Flush(r) \/ DecodeError(r)
            \/ \E fp \in FP : OnEntries(r, fp)

Next ==
  \/ \E r \in Requests :
       \/ Parse(r) \/ AnswerOk(r) \/ AnswerErr(r)
       \/ \E i \in 1..MaxPushes : DoPush(r, i)
  \/ \E c \in Calls : ServiceAnswers(c)
  \/ CacheReset \/ \E fp \in FP : CacheEvicts(fp)

Spec == Init /\ [][Next]_vars

(* Goroutines are scheduled, and an insert service answers the calls it    *)
(* accepts while its Run loop lives (QueuedCallsAnswered of InsertService, *)
(* with the exception that is `lost' here).  A request parses or waits,    *)
(* never both; a push has a call to wait for or may make the next one.     *)
Fairness ==
  /\ \A r \in Requests :
       WF_vars(\/ Flush(r) \/ DecodeError(r) \/ \E fp \in FP : OnEntries(r, fp)
               \/ AnswerOk(r) \/ AnswerErr(r))
  /\ \A r \in Requests : \A i \in 1..(2 * Len(Body[r])) :
       WF_vars(DoPush(r, i) \/ \E n \in 1..RetryAttempts : ServiceAnswers(<<r, i, n>>))

FairSpec == Spec /\ Fairness
-----------------------------------------------------------------------------
Stored(r, i) == \E n \in 1..RetryAttempts : <<r, i, n>> \in stored

SeriesOf(r) == UNION Range(Body[r])

(* A time_series row of the series is in ClickHouse, for that tenant. *)
IndexedFor(t, fp) ==
  \E r \in Requests : \E i \in DOMAIN pushes[r] :
     /\ Tenant[r] = t
     /\ pushes[r][i].table = "time_series"
     /\ fp \in pushes[r][i].rows
     /\ Stored(r, i)

Indexed(fp) == \E t \in Tenants : IndexedFor(t, fp)

(* A request answered with success has every chunk of its samples, and     *)
(* every time_series row it had to write, in ClickHouse (doParse waits for *)
(* all promises, doPush reports the last attempt).                         *)
OkMeansStored ==
  \A r \in Requests : phase[r] = "ok" =>
     /\ \A i \in DOMAIN pushes[r] : pushes[r][i].rows # {} => Stored(r, i)
     /\ \A k \in DOMAIN Body[r] :
          \E i \in DOMAIN pushes[r] :
             pushes[r][i].table = "samples" /\ pushes[r][i].rows = Body[r][k]

(* An acknowledged sample whose series is not in the index has a culprit:  *)
(* a request that found the series new, marked it in the cache and has not *)
(* succeeded (yet).  Requests that only found the mark are never the       *)
(* reason, and when every request that marked the series has succeeded it  *)
(* is indexed (maybeAddFp, flush, numbercache).                            *)
SeriesLossHasCulprit ==
  \A r \in Requests : phase[r] = "ok" =>
     \A fp \in SeriesOf(r) :
        \/ Indexed(fp)
        \/ \E s \in Requests : fp \in marked[s] /\ phase[s] \notin {"idle", "ok"}

(* Rows are written twice only when an attempt that was reported as failed *)
(* had reached the table (doPush never repeats an attempt that is still    *)
(* pending or went well).                                                  *)
DuplicatesNeedFailure ==
  \A c, d \in stored :
     (c[1] = d[1] /\ c[2] = d[2] /\ c[3] < d[3]) => promise[c] = "err"

(* The client sees an error only when its body did not decode to the end,  *)
(* or one of its pushes has failed RetryAttempts times.                    *)
ErrorMeansExhausted ==
  \A r \in Requests : phase[r] = "err" =>
     \/ r \in Malformed /\ 2 * Len(Body[r]) \notin DOMAIN pushes[r]
     \/ \E i \in DOMAIN pushes[r] :
          \A n \in 1..RetryAttempts : promise[<<r, i, n>>] = "err"

(* Every request that was started is answered (doParse returns), except    *)
(* one with a call that an insert service took after its last drain: Get   *)
(* of that promise has no timeout, and the handler waits for ever.  (A     *)
(* request is made once, so it is answered if again and again none waits.) *)
EveryRequestAnswered ==
  []<>(\A r \in Requests :
         phase[r] \in {"parsing", "waiting"} => \E c \in lost : c[1] = r)

(* On a node of a cluster the cache is off (isDistributed): there every    *)
(* acknowledged series is in the index under the tenant that pushed it,    *)
(* whatever happened to the other requests that carry it.                  *)
ClusterIndexesEverySeries ==
  isDistributed => \A r \in Requests : phase[r] = "ok" =>
                   \A fp \in SeriesOf(r) : IndexedFor(Tenant[r], fp)

(* doParse, doPush: what the client is told is so. Success stands for      *)
(* stored rows, and an error for a body that does not decode or a push     *)
(* that failed every time.                                                 *)
AnswersAreTrue ==
  /\ TypeOK
  /\ OkMeansStored
  /\ ErrorMeansExhausted

(* maybeAddFp, numbercache: an acknowledged series is missing in the index *)
(* only on a single node, and only because of a request that marked it and *)
(* has not succeeded.                                                      *)
IndexLossHasCulprit ==
  /\ SeriesLossHasCulprit
  /\ ClusterIndexesEverySeries
=============================================================================
