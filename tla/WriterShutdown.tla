--------------------------- MODULE WriterShutdown ---------------------------
(***************************************************************************)
(* How the writer plugin starts its insert service groups and stops its    *)
(* background routines.  Two routines are stopped by a send on a channel   *)
(* of their own; the watchdog and the routines of the pattern controller   *)
(* read a package variable that Stop closes and sets to nil.               *)
(***************************************************************************)
EXTENDS Naturals, Sequences, FiniteSets

CONSTANTS SendRoutines,  \* a sequence: logCHSetup and pushStat, in the order of Stop
          Watchers,      \* a sequence of sets: watchdog, then the pattern routines
          Services,      \* the insert services of a group
          Runners        \* goroutines that call the group's Run

CloseRoutines == UNION {Watchers[i] : i \in DOMAIN Watchers}
Routines == {SendRoutines[i] : i \in DOMAIN SendRoutines} \cup CloseRoutines

ASSUME ShutdownAssumption ==
  /\ SendRoutines \in Seq(Routines)
  /\ Watchers \in Seq(SUBSET CloseRoutines)

VARIABLES routine,   \* [routine -> select, nil: a select on a nil channel, work, end]
          stopAt,    \* how many routines, then watchers, Stop has dealt with; 0: not called
          busy,      \* routines at work when their channel was closed
          runner,    \* [runner -> call, wait or done]
          groupRuns, \* InsertServiceV2RoundRobin.running
          runs       \* [service -> goroutines that execute its Run]

shutdownVars == <<routine, stopAt, busy, runner, groupRuns, runs>>

ShutdownInit ==
  /\ routine = [r \in Routines |-> "select"]
  /\ stopAt = 0 /\ busy = {}
  /\ runner = [g \in Runners |-> "call"]
  /\ groupRuns = FALSE
  /\ runs = [s \in Services |-> 0]

StartsServices == ~groupRuns

(* Run of a group: under the mutex, the first caller starts every service. *)
RunGroup(g) ==
  /\ runner[g] = "call"
  /\ runner' = [runner EXCEPT ![g] = IF StartsServices THEN "wait" ELSE "done"]
  /\ groupRuns' = TRUE
  /\ runs' = IF StartsServices THEN [s \in Services |-> runs[s] + 1] ELSE runs
  /\ UNCHANGED <<routine, stopAt, busy>>

SendCount == Len(SendRoutines)
StopSteps == SendCount + Len(Watchers)

CallStop ==
  /\ stopAt = 0
  /\ stopAt' = 1
  /\ UNCHANGED <<routine, busy, runner, groupRuns, runs>>

(* A ticker fires and the routine works: Check, Cleanup, Flush, Sync. *)
Tick(r) ==
  /\ routine[r] \in {"select", "nil"}
  /\ routine' = [routine EXCEPT ![r] = "work"]
  /\ UNCHANGED <<stopAt, busy, runner, groupRuns, runs>>

(* The variable the routine's next select reads is nil by now. *)
ChannelDropped(r) == \E i \in DOMAIN Watchers : r \in Watchers[i] /\ stopAt > SendCount + i

BackToSelect(r) ==
  /\ routine[r] = "work"
  /\ routine' = [routine EXCEPT ![r] = IF ChannelDropped(r) THEN "nil" ELSE "select"]
  /\ UNCHANGED <<stopAt, busy, runner, groupRuns, runs>>

(* StopLogCHSetup and StopPushStat: an unbuffered send. *)
StopBySend ==
  /\ stopAt \in 1..SendCount
  /\ routine[SendRoutines[stopAt]] = "select"
  /\ routine' = [routine EXCEPT ![SendRoutines[stopAt]] = "end"]
  /\ stopAt' = stopAt + 1
  /\ UNCHANGED <<busy, runner, groupRuns, runs>>

(* Mutant: the channel is set to nil and not closed. *)
WokenNever(rs) == {}

(* A routine that waits in its select holds the channel that is closed. *)
Woken(rs) == {r \in rs : routine[r] = "select"}

(* watchdog.Stop and the pattern controller's Stop. *)
StopByClose ==
  /\ stopAt \in (SendCount + 1)..StopSteps
  /\ LET rs == Watchers[stopAt - SendCount]
     IN  /\ routine' = [r \in Routines |-> IF r \in Woken(rs) THEN "end" ELSE routine[r]]
         /\ busy' = busy \cup {r \in rs : routine[r] = "work"}
  /\ stopAt' = stopAt + 1
  /\ UNCHANGED <<runner, groupRuns, runs>>

(* The insert services are stopped last: their Run returns. *)
StopServices ==
  /\ stopAt = StopSteps + 1
  /\ stopAt' = stopAt + 1
  /\ runs' = [s \in Services |-> 0]
  /\ runner' = [g \in Runners |-> IF runner[g] = "wait" THEN "done" ELSE runner[g]]
  /\ UNCHANGED <<routine, busy, groupRuns>>

StopStep == StopBySend \/ StopByClose \/ StopServices

ShutdownNext ==
  \/ CallStop \/ StopStep
  \/ \E r \in Routines : Tick(r) \/ BackToSelect(r)
  \/ \E g \in Runners : RunGroup(g)

ShutdownSpec == ShutdownInit /\ [][ShutdownNext]_shutdownVars

-----------------------------------------------------------------------------
(* A service of a group is executed by one goroutine at most, however many *)
(* callers of Run race: two loops would swap and send one buffer twice.    *)
ServicesRunOnce == \A s \in Services : runs[s] <= 1

Stopped == stopAt > StopSteps + 1

(* Once Stop has returned, the background routines that are left are those *)
(* whose tick was being served when their channel was set to nil, all of   *)
(* them: each selects on nil from then on.                                 *)
SurvivorsWereBusy ==
  Stopped => \A r \in Routines : routine[r] # "end" <=> r \in busy

(* qryn_writer.go Stop, watchdog.Stop, the pattern controller's Stop: once *)
(* called, Stop returns, although it waits for the routines it sends to.   *)
(* From then on exactly those background routines go on for ever that were *)
(* at work when their channel went away, none of the others comes back,    *)
(* and every service has had one loop at most.                             *)
WriterStops == [](ServicesRunOnce /\ (stopAt > 0 => <>[](Stopped /\ SurvivorsWereBusy)))

(* watchdog.go:44: "Stop gracefully terminates the watchdog goroutine."    *)
(* (and so does the pattern controller's with its routines): what Stop     *)
(* closes the channel of, ends.  The code does not see to it: see above.   *)
StopTerminatesRoutines == Stopped ~> (\A r \in CloseRoutines : routine[r] = "end")
=============================================================================
