---------------------------- MODULE MCBackground ----------------------------
(***************************************************************************)
(* The work behind the writer: pattern clustering, with two goroutines     *)
(* that add lines on one writer and one on another; the start and stop of  *)
(* the writer's routines; and the maintenance of the database, its upgrade *)
(* and its rotation.  They share no state: a run is one of the four.       *)
(***************************************************************************)
EXTENDS PatternStore, WriterShutdown, SchemaUpgrade, Rotation

CONSTANTS w1, w2, a1, a2, a3, i1, i2, series, gin, view, bak, dist

MCWriterOf == (a1 :> w1) @@ (a2 :> w1) @@ (a3 :> w2)

get == <<"get", "user", "ok">>
getFail == <<"get", "user", "fail">>
getRole == <<"get", "role", "ok">>

MCLinesOf == (a1 :> <<get, getFail>>) @@ (a2 :> <<getFail>>) @@ (a3 :> <<get, getRole>>)

MCSendRoutines == <<"logCHSetup", "pushStat">>
MCWatchers == <<{"watchdog"}, {"cleanup", "flush"}>>

(* The statements of log.sql that make and extend time_series and that     *)
(* make, extend and exchange its index, and those of log_dist.sql for the  *)
(* index.                                                                  *)

MCNames == {series, gin, view, bak, dist}
MCColumns == {"key", "type", "oid"}
MCSources == {view, bak}

St(op, n, to, cols, guarded, keys) ==
  [op |-> op, name |-> n, to |-> to, cols |-> cols, guarded |-> guarded, keys |-> keys]
Create(n, cols, keys) == St("create", n, n, cols, FALSE, keys)
AddColumn(n, c, keys) == St("alter", n, n, {c}, FALSE, keys)
AddOid(n) == St("alter", n, n, {"oid"}, TRUE, {})

LogSql == << Create(series, {"key"}, {}), Create(gin, {"key"}, {}), Create(view, {"key"}, {series}),
             AddColumn(series, "type", {series}), AddColumn(gin, "type", {gin}),
             St("rename", view, bak, {}, FALSE, {}), Create(view, {"key", "type"}, {series}),
             St("drop", bak, bak, {}, FALSE, {}), AddOid(series), AddOid(gin) >>
LogDistSql == << Create(dist, {"key"}, {}), AddColumn(dist, "type", {}), AddOid(dist) >>

MCFileOrder == <<1, 3>>
MCScripts == [f \in {1, 3} |-> IF f = 1 THEN LogSql ELSE LogDistSql]

Deployed(P, v1, v3, isFed, n, m) ==
  [fleet |-> P, from |-> [f \in {1, 3} |-> IF f = 1 THEN v1 ELSE v3],
   federated |-> isFed, crashes |-> n, toggles |-> m]

(* One process and a fresh database, with up to three crashes and with     *)
(* FEDERATED on from the start, switched on some day, or never; or two     *)
(* processes on a fresh database or on that of an earlier release.         *)
MCDeployments == {Deployed({i1}, 0, 0, isFed, 3, 1) : isFed \in BOOLEAN}
           \cup {Deployed({i1, i2}, v1, v3, FALSE, 0, 0) : v1 \in 0..9, v3 \in 0..2}

(* Configurations that differ in the TTL of a tier (below and above the    *)
(* least TTL of an index table), in the tier, in the TTL of the rows and   *)
(* in the storage policy.                                                  *)
Tier(seconds, disk) == [ttl |-> seconds, moveTo |-> disk]
MCConfigs == { [days |-> <<>>, drop |-> 7, policy |-> ""],
               [days |-> <<Tier(30, "")>>, drop |-> 7, policy |-> "tiered"],
               [days |-> <<Tier(3600, "cold")>>, drop |-> 30, policy |-> "tiered"] }
-----------------------------------------------------------------------------
VARIABLE active

mcVars == <<patternVars, shutdownVars, vars, rotationVars, active>>

(* What is not run keeps one of its initial states. *)
SomeDeployment == fleet = {i1} /\ ~federated

BackgroundInit ==
  /\ PatternInit /\ ShutdownInit /\ Init /\ RotationInit
  /\ active \in {"patterns", "shutdown", "upgrade", "rotation"}
  /\ active # "upgrade" => SomeDeployment
  /\ active # "rotation" => config.policy = ""

OfPatterns(A) ==
  active = "patterns" /\ A /\ UNCHANGED <<shutdownVars, vars, rotationVars, active>>
OfShutdown(A) ==
  active = "shutdown" /\ A /\ UNCHANGED <<patternVars, vars, rotationVars, active>>
OfUpgrade(A) ==
  active = "upgrade" /\ A /\ UNCHANGED <<patternVars, shutdownVars, rotationVars, active>>
OfRotation(A) ==
  active = "rotation" /\ A /\ UNCHANGED <<patternVars, shutdownVars, vars, active>>

BackgroundNext ==
  \/ OfPatterns(PatternNext)
  \/ OfShutdown(ShutdownNext)
  \/ OfUpgrade(Next)
  \/ OfRotation(RotationNext)

(* Stop goes on whenever it can; a routine ends its work and, because its  *)
(* ticker fires rarely, is found in its select again and again.  A process *)
(* that upgrades goes on with its statements.                              *)
Fairness ==
  /\ SF_mcVars(OfShutdown(StopStep))
  /\ \A r \in Routines : WF_mcVars(OfShutdown(BackToSelect(r)))
  /\ \A p \in Instances : WF_mcVars(OfUpgrade(p \in fleet /\ Upgrade(p)))

BackgroundSpec == BackgroundInit /\ [][BackgroundNext]_mcVars /\ Fairness

(* The upgrade of every process comes to its end. *)
UpgradeEnds == [](active = "upgrade") => UpgradeCompletes

(* log.sql, update.go: the index of time_series is fed throughout the      *)
(* exchange of its view, and the upgrade comes to its end unless FEDERATED *)
(* was switched on too late.                                               *)
UpgradeKeepsTheIndex ==
  /\ IndexAlwaysFed
  /\ UpgradeEnds
=============================================================================
