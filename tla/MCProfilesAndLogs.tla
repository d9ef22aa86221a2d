------------------------- MODULE MCProfilesAndLogs --------------------------
(***************************************************************************)
(* Profiles that are pushed and asked for, or LogQL queries: two parts of  *)
(* the system that share no state.  A run is about one of them, chosen at  *)
(* the start, and the other stays as it is at first.                       *)
(***************************************************************************)
EXTENDS MCProfiles

VARIABLES part, sel, pipe, outer, ctxNo, dbNo, right, op, logAnswer

NumberOf == ("1" :> 1) @@ ("2" :> 2) @@ ("0" :> 0)

Logs == INSTANCE MCLogQL WITH answer <- logAnswer, Unit <- 720, Grid <- 2, Day <- 96,
          MaxSeries <- 2, MaxStages <- 3, MaxRich <- 2

logVars == <<sel, pipe, outer, ctxNo, dbNo, right, op, logAnswer>>
bothVars == <<part, vars, logVars>>

BothInit ==
  /\ Init /\ Logs!Init
  /\ part \in {"profiles", "logs"}
  /\ part = "profiles" => sel = 1 /\ dbNo = 1

OfProfiles(A) == part = "profiles" /\ A /\ UNCHANGED <<part, logVars>>
OfLogs(A) == part = "logs" /\ A /\ UNCHANGED <<part, vars>>

BothNext == OfProfiles(Next) \/ OfLogs(Logs!Next)

BothSpec == BothInit /\ [][BothNext]_bothVars

(******************************* Properties ********************************)
(* planner.go, planner_from_fix.go, planner_binary_ram.go: lines, points   *)
(* and binary expressions are answered as the script means them, wherever  *)
(* it is cut.                                                              *)
ScriptsAnsweredAsMeant == Logs!ScriptsAnsweredAsMeant

(* planner.go: a request fails only for a script that uses what is not     *)
(* supported, and never because the mode and the cut disagree.             *)
ErrorsHaveCause == Logs!ErrorsHaveCause

(* shared/federation.go and the planners that use it: the rows of other    *)
(* tenants change nothing in an answer.                                    *)
TenantsSeparated == Logs!TenantsSeparated
=============================================================================
