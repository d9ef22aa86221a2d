------------------------ MODULE WriterShutdownProofs ------------------------
(***************************************************************************)
(* Proofs about the safety of WriterShutdown, for any routines, in         *)
(* whatever order Stop deals with them, any services and any number of     *)
(* goroutines that call Run.                                               *)
(*                                                                         *)
(* Which routines survive is decided step by step while Stop is under way: *)
(* DealtWith says of every routine that Stop has behind it that it has     *)
(* ended or was at work when its channel went away, and BusyGoOn that      *)
(* nothing ends the latter any more. A routine that comes back to a nil    *)
(* channel is one of those (NilIsDropped): a later step that closes        *)
(* another channel for it would not wake it either. That a service has one *)
(* loop rests on the group's flag, which is still down as long as no       *)
(* service runs (FlagGuards).                                              *)
(***************************************************************************)
EXTENDS WriterShutdown, TLAPS

Types ==
  /\ routine \in [Routines -> {"select", "nil", "work", "end"}]
  /\ stopAt \in 0..(StopSteps + 2)
  /\ runner \in [Runners -> {"call", "wait", "done"}]
  /\ groupRuns \in BOOLEAN
  /\ runs \in [Services -> 0..1]

FlagGuards == ~groupRuns => \A s \in Services : runs[s] = 0

EndedOrBusy(r) == routine[r] = "end" \/ r \in busy

(* What the steps of Stop so far have left of the routines they were for. *)
DealtWith ==
  /\ \A i \in 1..SendCount : i < stopAt => routine[SendRoutines[i]] = "end"
  /\ \A i \in DOMAIN Watchers : SendCount + i < stopAt =>
       \A r \in Watchers[i] : EndedOrBusy(r)

NilIsDropped == \A r \in Routines : routine[r] = "nil" => ChannelDropped(r)

(* A routine that was at work then never selects on its channel again. *)
BusyGoOn == \A r \in busy : r \in Routines /\ routine[r] \in {"work", "nil"} /\ ChannelDropped(r)

IInv == Types /\ FlagGuards /\ DealtWith /\ NilIsDropped /\ BusyGoOn

LEMMA Lengths ==
  /\ SendCount \in Nat /\ Len(Watchers) \in Nat /\ StopSteps \in Nat
  /\ StopSteps = SendCount + Len(Watchers)
  /\ DOMAIN SendRoutines = 1..SendCount /\ DOMAIN Watchers = 1..Len(Watchers)
  /\ \A i \in 1..SendCount : SendRoutines[i] \in Routines
  /\ \A i \in DOMAIN Watchers : Watchers[i] \subseteq Routines
<1>1. /\ SendCount \in Nat /\ Len(Watchers) \in Nat
      /\ DOMAIN SendRoutines = 1..SendCount /\ DOMAIN Watchers = 1..Len(Watchers)
  BY ShutdownAssumption DEF SendCount
<1>2. \A i \in 1..SendCount : SendRoutines[i] \in Routines
  BY ShutdownAssumption, <1>1 DEF SendCount
<1>3. \A i \in DOMAIN Watchers : Watchers[i] \subseteq Routines
  BY DEF Routines, CloseRoutines
<1> QED BY <1>1, <1>2, <1>3 DEF StopSteps

LEMMA InitIInv == ShutdownInit => IInv
<1> SUFFICES ASSUME ShutdownInit PROVE IInv
  OBVIOUS
<1>1. Types
  <2>1. stopAt \in 0..(StopSteps + 2) /\ runs \in [Services -> 0..1]
    BY Lengths DEF ShutdownInit
  <2>2. groupRuns \in BOOLEAN
    BY Zenon DEF ShutdownInit
  <2>3. /\ routine \in [Routines -> {"select", "nil", "work", "end"}]
        /\ runner \in [Runners -> {"call", "wait", "done"}]
    BY DEF ShutdownInit
  <2> QED BY <2>1, <2>2, <2>3 DEF Types
<1>2. FlagGuards
  BY DEF ShutdownInit, FlagGuards
<1>3. DealtWith
  BY Lengths DEF ShutdownInit, DealtWith
<1>4. NilIsDropped
  BY DEF ShutdownInit, NilIsDropped
<1>5. BusyGoOn
  BY DEF ShutdownInit, BusyGoOn
<1> QED BY <1>1, <1>2, <1>3, <1>4, <1>5 DEF IInv

(* Steps that leave the routines and the progress of Stop alone. *)
LEMMA RoutinesKept ==
  ASSUME DealtWith, NilIsDropped, BusyGoOn, UNCHANGED <<routine, stopAt, busy>>
  PROVE  DealtWith' /\ NilIsDropped' /\ BusyGoOn'
BY DEF DealtWith, NilIsDropped, BusyGoOn, EndedOrBusy, ChannelDropped

LEMMA RunGroupIInv ==
  ASSUME IInv, NEW g \in Runners, RunGroup(g)
  PROVE  IInv'
<1>1. Types'
  <2>1. runs' \in [Services -> 0..1]
    <3>1. CASE StartsServices
      BY <3>1 DEF IInv, Types, FlagGuards, RunGroup, StartsServices
    <3>2. CASE ~StartsServices
      BY <3>2 DEF IInv, Types, RunGroup
    <3> QED BY <3>1, <3>2
  <2>2. runner' \in [Runners -> {"call", "wait", "done"}]
    BY DEF IInv, Types, RunGroup
  <2> QED BY <2>1, <2>2 DEF IInv, Types, RunGroup
<1>2. FlagGuards'
  BY DEF RunGroup, FlagGuards
<1>3. DealtWith' /\ NilIsDropped' /\ BusyGoOn'
  BY RoutinesKept DEF IInv, RunGroup
<1> QED BY <1>1, <1>2, <1>3 DEF IInv

LEMMA CallStopIInv ==
  ASSUME IInv, CallStop
  PROVE  IInv'
<1>1. Types'
  BY Lengths DEF IInv, Types, CallStop
<1>2. FlagGuards'
  BY DEF IInv, CallStop, FlagGuards
<1>3. DealtWith'
  BY Lengths DEF CallStop, DealtWith
<1>4. NilIsDropped'
  BY Lengths DEF IInv, CallStop, NilIsDropped, ChannelDropped
<1>5. BusyGoOn'
  BY Lengths DEF IInv, CallStop, BusyGoOn, ChannelDropped
<1> QED BY <1>1, <1>2, <1>3, <1>4, <1>5 DEF IInv

(* A routine serves its ticker, or is back at its select. *)
LEMMA RoutineIInv ==
  ASSUME IInv, NEW r \in Routines, Tick(r) \/ BackToSelect(r)
  PROVE  IInv'
<1>1. /\ routine[r] # "end"
      /\ UNCHANGED <<stopAt, busy, runner, groupRuns, runs>>
      /\ routine' = [routine EXCEPT ![r] = routine'[r]]
      /\ routine'[r] \in {"select", "nil", "work"}
      /\ routine'[r] = "nil" => ChannelDropped(r)
      /\ ChannelDropped(r) => routine'[r] \in {"nil", "work"}
  BY DEF IInv, Types, Tick, BackToSelect
<1>2. Types'
  BY <1>1 DEF IInv, Types
<1>3. FlagGuards'
  BY <1>1 DEF IInv, FlagGuards
<1>4. \A q \in Routines : EndedOrBusy(q) => EndedOrBusy(q)'
  BY <1>1 DEF IInv, Types, EndedOrBusy
<1>5. DealtWith'
  <2>1. \A i \in 1..SendCount : i < stopAt => routine'[SendRoutines[i]] = "end"
    BY <1>1, Lengths DEF IInv, Types, DealtWith
  <2>2. ASSUME NEW i \in DOMAIN Watchers, SendCount + i < stopAt, NEW q \in Watchers[i]
        PROVE  EndedOrBusy(q)'
    BY <1>4, <2>2, Lengths DEF IInv, DealtWith
  <2> QED BY <1>1, <2>1, <2>2 DEF DealtWith
<1>6. NilIsDropped'
  BY <1>1 DEF IInv, Types, NilIsDropped, ChannelDropped
<1>7. BusyGoOn'
  BY <1>1 DEF IInv, Types, BusyGoOn, ChannelDropped
<1> QED BY <1>2, <1>3, <1>5, <1>6, <1>7 DEF IInv

LEMMA StopBySendIInv ==
  ASSUME IInv, StopBySend
  PROVE  IInv'
<1>1. /\ SendRoutines[stopAt] \in Routines /\ stopAt \in 1..SendCount
      /\ \A q \in Routines : routine'[q] =
           IF q = SendRoutines[stopAt] THEN "end" ELSE routine[q]
  BY Lengths DEF IInv, Types, StopBySend
<1>2. Types'
  BY <1>1, Lengths DEF IInv, Types, StopBySend
<1>3. FlagGuards'
  BY DEF IInv, StopBySend, FlagGuards
<1>4. DealtWith'
  <2>1. ASSUME NEW i \in 1..SendCount, i < stopAt'
        PROVE  routine'[SendRoutines[i]] = "end"
    <3>1. i < stopAt \/ i = stopAt
      BY <1>1, <2>1, Lengths DEF StopBySend
    <3> QED BY <1>1, <3>1, Lengths DEF IInv, DealtWith
  <2>2. \A i \in DOMAIN Watchers : ~(SendCount + i < stopAt')
    BY <1>1, Lengths DEF StopBySend
  <2> QED BY <2>1, <2>2 DEF DealtWith
<1>5. NilIsDropped'
  BY <1>1, Lengths DEF IInv, StopBySend, NilIsDropped, ChannelDropped
<1>6. BusyGoOn'
  <2>1. busy = {} /\ busy' = {}
    BY <1>1, Lengths DEF IInv, StopBySend, BusyGoOn, ChannelDropped
  <2> QED BY <2>1 DEF BusyGoOn
<1> QED BY <1>2, <1>3, <1>4, <1>5, <1>6 DEF IInv

LEMMA StopByCloseIInv ==
  ASSUME IInv, StopByClose
  PROVE  IInv'
<1> DEFINE k == stopAt - SendCount
           rs == Watchers[k]
<1>1. /\ k \in DOMAIN Watchers /\ rs = Watchers[k] /\ rs \subseteq Routines
      /\ stopAt = SendCount + k /\ stopAt' = stopAt + 1
      /\ UNCHANGED <<runner, groupRuns, runs>>
      /\ routine' = [r \in Routines |-> IF r \in Woken(rs) THEN "end" ELSE routine[r]]
      /\ busy' = busy \cup {r \in rs : routine[r] = "work"}
  BY Lengths DEF StopByClose
<1> HIDE DEF k, rs
<1>2. Types'
  BY <1>1, Lengths DEF IInv, Types
<1>3. FlagGuards'
  BY <1>1 DEF IInv, FlagGuards
<1>4. \A q \in Routines : EndedOrBusy(q) => EndedOrBusy(q)'
  BY <1>1 DEF EndedOrBusy
<1>5. DealtWith'
  <2>1. ASSUME NEW i \in 1..SendCount PROVE routine'[SendRoutines[i]] = "end"
    <3>1. i < stopAt
      BY <1>1, Lengths
    <3> QED BY <1>1, <3>1, Lengths DEF IInv, DealtWith
  <2>2. ASSUME NEW i \in DOMAIN Watchers, SendCount + i < stopAt', NEW q \in Watchers[i]
        PROVE  EndedOrBusy(q)'
    <3>1. q \in Routines
      BY Lengths
    <3>2. CASE SendCount + i < stopAt
      BY <1>4, <3>1, <3>2 DEF IInv, DealtWith
    <3>3. CASE i = k
      <4>1. routine[q] = "nil" => EndedOrBusy(q)
        <5> SUFFICES ASSUME routine[q] = "nil" PROVE EndedOrBusy(q)
          OBVIOUS
        <5>1. PICK j \in DOMAIN Watchers : q \in Watchers[j] /\ stopAt > SendCount + j
          BY <3>1 DEF IInv, NilIsDropped, ChannelDropped
        <5>2. SendCount + j < stopAt
          BY <1>1, <5>1, Lengths
        <5> QED BY <5>1, <5>2 DEF IInv, DealtWith
      <4>2. routine[q] \in {"select", "nil", "work", "end"}
        BY <3>1 DEF IInv, Types
      <4> QED BY <1>1, <1>4, <3>1, <3>3, <4>1, <4>2 DEF EndedOrBusy, Woken
    <3> QED BY <1>1, <2>2, <3>2, <3>3, Lengths
  <2> QED BY <2>1, <2>2 DEF DealtWith
<1>6. NilIsDropped'
  BY <1>1, Lengths DEF IInv, Types, NilIsDropped, ChannelDropped
<1>7. BusyGoOn'
  <2>1. \A q \in Routines : ChannelDropped(q) => ChannelDropped(q)'
    BY <1>1, Lengths DEF ChannelDropped
  <2>2. \A q \in rs : ChannelDropped(q)'
    BY <1>1, Lengths DEF ChannelDropped
  <2> QED BY <1>1, <2>1, <2>2 DEF IInv, BusyGoOn, Woken
<1> QED BY <1>2, <1>3, <1>5, <1>6, <1>7 DEF IInv

LEMMA StopServicesIInv ==
  ASSUME IInv, StopServices
  PROVE  IInv'
<1>1. Types'
  BY Lengths DEF IInv, Types, StopServices
<1>2. FlagGuards'
  BY DEF StopServices, FlagGuards
<1>3. DealtWith'
  BY Lengths DEF IInv, StopServices, DealtWith, EndedOrBusy
<1>4. NilIsDropped'
  BY Lengths DEF IInv, StopServices, NilIsDropped, ChannelDropped
<1>5. BusyGoOn'
  BY Lengths DEF IInv, StopServices, BusyGoOn, ChannelDropped
<1> QED BY <1>1, <1>2, <1>3, <1>4, <1>5 DEF IInv

LEMMA NextIInv == IInv /\ [ShutdownNext]_shutdownVars => IInv'
<1> SUFFICES ASSUME IInv, [ShutdownNext]_shutdownVars PROVE IInv'
  OBVIOUS
<1>1. CASE UNCHANGED shutdownVars
  <2>1. DealtWith' /\ NilIsDropped' /\ BusyGoOn'
    BY <1>1, RoutinesKept DEF IInv, shutdownVars
  <2> QED BY <1>1, <2>1 DEF IInv, Types, FlagGuards, shutdownVars
<1>2. CASE CallStop
  BY <1>2, CallStopIInv
<1>3. CASE StopStep
  BY <1>3, StopBySendIInv, StopByCloseIInv, StopServicesIInv DEF StopStep
<1>4. CASE \E r \in Routines : Tick(r) \/ BackToSelect(r)
  BY <1>4, RoutineIInv
<1>5. CASE \E g \in Runners : RunGroup(g)
  BY <1>5, RunGroupIInv
<1> QED BY <1>1, <1>2, <1>3, <1>4, <1>5 DEF ShutdownNext

(* The inductive invariant holds however the ticks of the routines, the    *)
(* calls of Run and the steps of Stop interleave.                          *)
THEOREM InvariantHolds == ShutdownSpec => []IInv
<1> QED BY InitIInv, NextIInv, PTL DEF ShutdownSpec

(* InsertServiceV2RoundRobin.Run: a service has one loop at most.          *)
(* qryn_writer.go Stop: of the routines it has stopped those are left, and *)
(* only those, that were at work when watchdog.Stop or the pattern         *)
(* controller's Stop set their channel to nil.                             *)
THEOREM SurvivorsExplained == ShutdownSpec => [](ServicesRunOnce /\ SurvivorsWereBusy)
<1>1. IInv => ServicesRunOnce
  BY DEF IInv, Types, ServicesRunOnce
<1>2. IInv => SurvivorsWereBusy
  <2> SUFFICES ASSUME IInv, Stopped, NEW r \in Routines, routine[r] # "end"
               PROVE  r \in busy
    BY DEF SurvivorsWereBusy, IInv, BusyGoOn
  <2>1. stopAt \in Nat /\ stopAt > StopSteps + 1
    BY Lengths DEF IInv, Types, Stopped
  <2>2. ASSUME NEW i \in DOMAIN SendRoutines, r = SendRoutines[i] PROVE FALSE
    BY <2>1, <2>2, Lengths DEF IInv, DealtWith
  <2>3. ASSUME NEW i \in DOMAIN Watchers, r \in Watchers[i] PROVE r \in busy
    <3>1. SendCount + i < stopAt
      BY <2>1, Lengths
    <3> QED BY <2>3, <3>1 DEF IInv, DealtWith, EndedOrBusy
  <2> QED BY <2>2, <2>3 DEF Routines, CloseRoutines
<1> QED BY <1>1, <1>2, InvariantHolds, PTL

(* qryn_writer.go Stop: WriterStops holds in every behaviour in which a    *)
(* Stop that was called returns.  What fairness has to give is that much   *)
(* and no more: the rest of the property, also that what Stop has achieved *)
(* lasts, follows from the order of its steps.                             *)
THEOREM StopThatReturnsIsFinal ==
  ShutdownSpec /\ [](stopAt > 0 => <>Stopped) => WriterStops
<1>1. IInv /\ Stopped /\ [ShutdownNext]_shutdownVars => Stopped'
  <2> SUFFICES ASSUME IInv, Stopped, [ShutdownNext]_shutdownVars PROVE Stopped'
    OBVIOUS
  <2>1. stopAt' = stopAt
    BY Lengths DEF IInv, Types, Stopped, ShutdownNext, CallStop, StopStep, StopBySend,
                   StopByClose, StopServices, Tick, BackToSelect, RunGroup, shutdownVars
  <2> QED BY <2>1 DEF Stopped
<1> QED BY <1>1, InvariantHolds, SurvivorsExplained, PTL DEF ShutdownSpec, WriterStops
=============================================================================
