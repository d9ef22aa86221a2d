--------------------------- MODULE MCReaderStreams ---------------------------
(***************************************************************************)
(* The concurrent parts of the reader.  They share no state, so a run is   *)
(* one of a query, a live tail and the version cache, chosen at the start. *)
(***************************************************************************)
EXTENDS QueryPipeline, LogTail, VersionCache

CONSTANTS l1, l2, l3

MCLines == {l1, l2, l3}

(* Two streams; the first is sent before the second. *)
MCFp == [l \in MCLines |-> IF l = l3 THEN 1 ELSE 2]

VARIABLE active

mcVars == <<pipelineVars, tailVars, versionVars, active>>

OnePipeline == result = <<>> /\ limit = 0

Init ==
  /\ PipelineInit /\ TailInit /\ VersionInit
  /\ active \in {"query", "tail", "version"}
  /\ active # "query" => OnePipeline

OfQuery(A) == active = "query" /\ A /\ UNCHANGED <<tailVars, versionVars, active>>
OfTail(A) == active = "tail" /\ A /\ UNCHANGED <<pipelineVars, versionVars, active>>
OfVersions(A) == active = "version" /\ A /\ UNCHANGED <<pipelineVars, tailVars, active>>

Next == OfQuery(PipelineNext) \/ OfTail(TailNext) \/ OfVersions(VersionNext)

(* Goroutines are scheduled and timers fire.  Nothing obliges the client   *)
(* to close or the handler's peer to take a message.                       *)
Fairness ==
  /\ WF_mcVars(OfQuery(Progress))
  /\ WF_mcVars(OfTail(PollStops \/ Push \/ PushError))
  /\ WF_mcVars(OfTail(HandlerReturns))
  /\ WF_mcVars(OfTail(DrainWatcher))
  /\ WF_mcVars(OfVersions(Wake))
  /\ WF_mcVars(OfVersions(Clear))
  /\ \A c \in Callers : WF_mcVars(OfVersions(Throttle(c)))

Spec == Init /\ [][Next]_mcVars /\ Fairness

TypeOK == PipelineTypeOK /\ TailTypeOK

QueryEnds == [](active = "query") => GoroutinesEnd

(* query_range.go, utils.go: all goroutines of a query and of a tail end,  *)
(* whichever of them fails first and whenever the client leaves.           *)
StreamsEnd ==
  /\ QueryEnds
  /\ TailEnds
=============================================================================
