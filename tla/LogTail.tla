------------------------------- MODULE LogTail -------------------------------
(***************************************************************************)
(* Live tailing of a log query: the goroutine of QueryRangeService.Tail    *)
(* that polls ClickHouse, the watcher between it and the WebSocket         *)
(* handler, and the handler with the goroutine that reads the socket.      *)
(*                                                                         *)
(* Time is counted in ticks.  Lines enter the table at any time up to the  *)
(* present, also with a timestamp that the poller has already passed.      *)
(***************************************************************************)
EXTENDS Integers, Sequences, FiniteSets, FiniteSetsExt

CONSTANTS Lines,       \* log lines that may be ingested
          Fp,          \* [Lines -> Nat]: the fingerprint of the line's stream
          MaxTime,     \* bound on the clock
          StartNs,     \* the parameter start
          TailLimit,   \* lines per poll, at most tailIncrementalLimit
          WatcherBuf,  \* tailWatcherBufSize
          InternalPlan \* whether the query ends in the internal planner's limit

NotStored == -1

ASSUME TailAssumption ==
  /\ IsFiniteSet(Lines) /\ Fp \in [Lines -> Nat]
  /\ MaxTime \in Nat /\ StartNs \in 0..MaxTime
  /\ TailLimit \in Nat \ {0} /\ WatcherBuf \in Nat \ {0}
  /\ InternalPlan \in BOOLEAN

VARIABLES clock,      \* time.Now
          stored,     \* [line -> its timestamp, NotStored before it is ingested]
          from,       \* where the next poll starts
          poller,     \* poll, push, error (it has an error to push), end, or
                      \* failed: ended, its last output is an error
          message,    \* the lines the poller is about to push
          res,        \* the watcher's channel
          watcherDone,\* the watcher's context is cancelled
          tailCtxDone,\* the context of the request, or of the tail, is cancelled
          handler,    \* serve, drain: its deferred calls ran
          delivered,  \* [line -> how often it was written to the socket, up to 2]
          sentLines,  \* lines the poller took from the table
          late,       \* lines ingested behind from
          cut         \* lines a poll left out because of the limit

tailVars == <<clock, stored, from, poller, message, res, watcherDone, tailCtxDone,
              handler, delivered, sentLines, late, cut>>

TailInit ==
  /\ clock = StartNs
  /\ stored = [l \in Lines |-> NotStored]
  /\ from = StartNs
  /\ poller = "poll" /\ message = {} /\ res = <<>>
  /\ watcherDone = FALSE /\ tailCtxDone = FALSE /\ handler = "serve"
  /\ delivered = [l \in Lines |-> 0]
  /\ sentLines = {} /\ late = {} /\ cut = {}

AdvanceClock ==
  /\ clock < MaxTime
  /\ clock' = clock + 1
  /\ UNCHANGED <<stored, from, poller, message, res, watcherDone, tailCtxDone,
                 handler, delivered, sentLines, late, cut>>

Ingest(l, ts) ==
  /\ stored[l] = NotStored /\ ts <= clock
  /\ stored' = [stored EXCEPT ![l] = ts]
  /\ late' = IF ts < from THEN late \cup {l} ELSE late
  /\ UNCHANGED <<clock, from, poller, message, res, watcherDone, tailCtxDone,
                 handler, delivered, sentLines, cut>>

(* The lines a poll finds: timestamp_ns >= From and < To. *)
Visible == {l \in Lines : stored[l] >= from /\ stored[l] < clock}

(* Newest first, at most TailLimit. *)
Newest(rows) ==
  /\ rows \subseteq Visible
  /\ Cardinality(rows) = Min({TailLimit, Cardinality(Visible)})
  /\ \A l \in rows, k \in Visible \ rows : stored[k] <= stored[l]

Orders(rows) ==
  {o \in [1..Cardinality(rows) -> rows] :
     \A l \in rows : \E i \in 1..Cardinality(rows) : o[i] = l}

(* How the answer of a poll is sorted: each stream newest first, and the   *)
(* streams by fingerprint unless the optimizer's map comes between.        *)
Sorted(order) ==
  \A i, j \in DOMAIN order : i < j =>
    /\ Fp[order[i]] = Fp[order[j]] => stored[order[i]] >= stored[order[j]]
    /\ InternalPlan \/ Fp[order[i]] >= Fp[order[j]]

(* Mutant: the position skips the tick after the line. *)
MovedSkips(at, l) == IF at < stored[l] THEN stored[l] + 2 ELSE at

(* The position moves behind a line only when the line is later than it. *)
Moved(at, l) == IF at < stored[l] THEN stored[l] + 1 ELSE at

(* It moves line by line, in the order of the answer: a line right behind  *)
(* one that came before it does not move it any more.                      *)
NextFrom(order) ==
  LET position[n \in 0..Len(order)] ==
        IF n = 0 THEN from ELSE Moved(position[n - 1], order[n])
  IN  position[Len(order)]

(* LimitPlanner cancels the context it was given once it has sent limit    *)
(* entries, and it counts the sentinel at the end of the rows as one.      *)
LimitReached(rows) == InternalPlan /\ Cardinality(rows) + 1 >= TailLimit

EndTail ==
  /\ poller' = "end" /\ tailCtxDone' = TRUE
  /\ UNCHANGED <<clock, stored, from, message, res, watcherDone, handler, delivered,
                 sentLines, late, cut>>

(* A poll that the version query, the cancelled context or the query       *)
(* itself ends: the goroutine returns and closes the channel.              *)
PollFails == poller = "poll" /\ EndTail

(* An entry of the answer is an error: onErr sends it, and the goroutine   *)
(* returns once that send has gone through.                                *)
PollErrs ==
  /\ poller = "poll" /\ ~watcherDone /\ ~tailCtxDone
  /\ poller' = "error"
  /\ UNCHANGED <<clock, stored, from, message, res, watcherDone, tailCtxDone, handler,
                 delivered, sentLines, late, cut>>

PollStops == poller = "poll" /\ (watcherDone \/ tailCtxDone) /\ EndTail

Poll(rows) ==
  /\ poller = "poll" /\ ~watcherDone /\ ~tailCtxDone
  /\ Newest(rows)
  /\ message' = rows /\ poller' = "push"
  /\ \E order \in Orders(rows) : Sorted(order) /\ from' = NextFrom(order)
  /\ sentLines' = sentLines \cup rows
  /\ cut' = cut \cup (Visible \ rows)
  /\ tailCtxDone' = LimitReached(rows)
  /\ UNCHANGED <<clock, stored, res, watcherDone, handler, delivered, late>>

HasRoom == Len(res) < WatcherBuf

(* A send to the watcher's channel; it blocks while the buffer is full. *)
Push ==
  /\ poller = "push" /\ HasRoom
  /\ res' = Append(res, message) /\ message' = {} /\ poller' = "poll"
  /\ UNCHANGED <<clock, stored, from, watcherDone, tailCtxDone, handler, delivered,
                 sentLines, late, cut>>

PushError ==
  /\ poller = "error" /\ HasRoom
  /\ res' = Append(res, {}) /\ poller' = "failed" /\ tailCtxDone' = TRUE
  /\ UNCHANGED <<clock, stored, from, message, watcherDone, handler, delivered,
                 sentLines, late, cut>>

(* The next output is the error: it is the last one. *)
ErrorIsNext == poller = "failed" /\ Len(res) = 1

(* The handler returns: the watcher is closed, the context cancelled and   *)
(* a goroutine drains the channel.                                         *)
LeaveHandler == handler' = "drain" /\ watcherDone' = TRUE /\ tailCtxDone' = TRUE

WriteMessage ==
  /\ handler = "serve" /\ res # <<>> /\ ~ErrorIsNext
  /\ res' = Tail(res)
  /\ delivered' = [l \in Lines |-> IF l \in Head(res) /\ delivered[l] < 2
                                    THEN delivered[l] + 1 ELSE delivered[l]]
  /\ UNCHANGED <<clock, stored, from, poller, message, watcherDone, tailCtxDone,
                 handler, sentLines, late, cut>>

(* The write fails, or the output is an error and the socket is closed     *)
(* with it.                                                                *)
WriteFails ==
  /\ handler = "serve" /\ res # <<>>
  /\ res' = Tail(res)
  /\ LeaveHandler
  /\ UNCHANGED <<clock, stored, from, poller, message, delivered, sentLines, late, cut>>

PollerEnded == poller \in {"end", "failed"}

(* The channel was closed, or the context of the request is cancelled. *)
HandlerReturns ==
  /\ handler = "serve"
  /\ watcherDone \/ (PollerEnded /\ res = <<>>)
  /\ LeaveHandler
  /\ UNCHANGED <<clock, stored, from, poller, message, res, delivered, sentLines,
                 late, cut>>

(* The socket's reader, or the close handler, sees the client leave. *)
ClientCloses ==
  /\ ~watcherDone
  /\ watcherDone' = TRUE /\ tailCtxDone' = TRUE
  /\ UNCHANGED <<clock, stored, from, poller, message, res, handler, delivered,
                 sentLines, late, cut>>

DrainWatcher ==
  /\ handler = "drain" /\ res # <<>>
  /\ res' = Tail(res)
  /\ UNCHANGED <<clock, stored, from, poller, message, watcherDone, tailCtxDone,
                 handler, delivered, sentLines, late, cut>>

(* What the goroutines of a tail do by themselves. *)
TailStep ==
  \/ PollStops \/ Push \/ PushError
  \/ HandlerReturns \/ DrainWatcher

TailNext ==
  \/ TailStep
  \/ AdvanceClock \/ PollFails \/ PollErrs \/ WriteMessage \/ WriteFails \/ ClientCloses
  \/ \E l \in Lines, ts \in 0..MaxTime : Ingest(l, ts)
  \/ \E rows \in SUBSET Lines : Poll(rows)

TailSpec == TailInit /\ [][TailNext]_tailVars

-----------------------------------------------------------------------------
TailTypeOK ==
  /\ stored \in [Lines -> NotStored..MaxTime] /\ from \in 0..(MaxTime + 1)
  /\ poller \in {"poll", "push", "error", "end", "failed"} /\ message \subseteq Lines
  /\ Len(res) <= WatcherBuf
  /\ handler \in {"serve", "drain"}

(* A line that the poller has passed without taking it arrived too late or *)
(* was left out by the limit of one poll: nothing else is ever lost.       *)
PassedLinesHaveCulprit ==
  \A l \in Lines :
    (stored[l] # NotStored /\ stored[l] < from /\ l \notin sentLines)
      => l \in late \cup cut

(* A line is written twice only when it lies exactly where a poll starts,  *)
(* right behind a line that was taken: the position does not move past     *)
(* such a line, be it found there later or in the same answer.             *)
RepeatsOnlyAtThePosition ==
  \A l \in Lines :
    delivered[l] > 1 =>
      \/ stored[l] = StartNs
      \/ \E k \in Lines : stored[k] + 1 = stored[l] /\ k \in sentLines

(* Once the client has left, the poller returns and its channel is         *)
(* emptied, even when it is blocked on a full channel at that moment.      *)
TailEnds == (handler = "drain" \/ watcherDone) ~> (PollerEnded /\ res = <<>>)

(* Tail: each line in the table is sent once, but for late lines, lines    *)
(* over the limit of a poll and lines at the very position of a poll.      *)
TailLossHasCulprit ==
  /\ TailTypeOK
  /\ PassedLinesHaveCulprit
  /\ RepeatsOnlyAtThePosition
=============================================================================
