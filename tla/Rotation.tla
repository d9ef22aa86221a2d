------------------------------ MODULE Rotation ------------------------------
(***************************************************************************)
(* The table rotation a gigapipe process runs after the schema upgrade     *)
(* (ctrl/qryn/maintenance/rotate.go): a fixed list of steps, each of which *)
(* gives some tables the storage policy or the TTL of the configuration.   *)
(* A step first looks up in the table settings what it applied last, under *)
(* a setting name, and leaves its tables alone when that is the value it   *)
(* would apply now; it records the value after the last of its tables.     *)
(* A process that dies is started again, maybe with another configuration. *)
(***************************************************************************)
EXTENDS Naturals, Sequences, FiniteSets, SequencesExt, FiniteSetsExt

CONSTANTS Configs,     \* [days : Seq([ttl : Nat, moveTo]), drop : Nat, policy]
          NoPolicy,    \* the empty storage policy
          Day,         \* the seconds of a day
          MaxStops,    \* how often the process is interrupted
          MaxStarts    \* how often it is started

ASSUME RotationAssumption ==
  /\ Day \in Nat /\ MaxStops \in Nat /\ MaxStarts \in Nat
  /\ \A c \in Configs : c.drop \in Nat /\ \A i \in DOMAIN c.days : c.days[i].ttl \in Nat

VARIABLES ttl, policy,  \* what ClickHouse has for each table
          settings,     \* [name -> the values of its newest second]
          rpc, step, tableAt,  \* the process: its phase, step and next table
          config,       \* the configuration it was started with
          recorded,     \* the names it has recorded since it was started
          starts, stops,\* what is left of the bounds
          unrecorded,   \* history: steps with tables altered and not recorded
          trusted,      \* history: of these, the ones this run has left alone
          applied       \* history: the configuration of the last whole run

rotationVars == <<ttl, policy, settings, rpc, step, tableAt, config, recorded,
                  starts, stops, unrecorded, trusted, applied>>

Minute == 60
Policy(name, tables) == [kind |-> "policy", name |-> name, tables |-> tables, min |-> 0]
Ttl(name, min, tables) == [kind |-> "ttl", name |-> name, tables |-> tables, min |-> min]

(* Rotate.  The last step of the policies and one of the TTLs have the     *)
(* same setting name.                                                      *)
Steps ==
  << Policy("v3_storage_policy", <<"time_series", "time_series_gin", "samples_v3">>),
     Policy("v1_traces_storage_policy",
            <<"tempo_traces", "tempo_traces_attrs_gin", "tempo_traces_kv">>),
     Policy("metrics_15s", <<"metrics_15s">>),
     Ttl("v3_samples_days", Minute, <<"samples_v3">>),
     Ttl("v3_time_series_days", Day, <<"time_series", "time_series_gin">>),
     Ttl("v1_traces_days", Minute, <<"tempo_traces">>),
     Ttl("tempo_attrs_v1", Day, <<"tempo_traces_attrs_gin", "tempo_traces_kv">>),
     Ttl("metrics_15s", Minute, <<"metrics_15s">>),
     Ttl("patterns", Minute, <<"patterns">>) >>

SettingNames == {Steps[i].name : i \in DOMAIN Steps}
RotatedTables == UNION {ToSet(Steps[i].tables) : i \in DOMAIN Steps}

(* The text that a step applies and records: the TTLs of the configuration *)
(* raised to the least one of the table, and the one that drops the rows.  *)
Value(s, c) ==
  IF s.kind = "policy" THEN <<"policy", c.policy>>
  ELSE <<"ttl", s.min >= Day,
         [i \in DOMAIN c.days |-> [c.days[i] EXCEPT !.ttl = Max({@, s.min})]], c.drop>>

CurrentOf(t, kind) == IF kind = "policy" THEN policy[t] ELSE ttl[t]

RotationInit ==
  /\ ttl = [t \in RotatedTables |-> <<>>] /\ policy = [t \in RotatedTables |-> <<>>]
  /\ settings = [n \in SettingNames |-> {}]
  /\ rpc = "down" /\ step = 1 /\ tableAt = 0
  /\ config \in Configs
  /\ recorded = {} /\ unrecorded = {} /\ trusted = {} /\ applied = {}
  /\ starts = MaxStarts /\ stops = MaxStops
-----------------------------------------------------------------------------
(* rotateDB is called with the configuration of the day. *)
StartRotation(c) ==
  /\ rpc \in {"down", "done"} /\ starts > 0
  /\ rpc' = "lookup" /\ step' = 1 /\ tableAt' = 0
  /\ config' = c /\ recorded' = {} /\ trusted' = {}
  /\ starts' = starts - 1 /\ applied' = applied \cap {c}
  /\ UNCHANGED <<ttl, policy, settings, stops, unrecorded>>

Advance ==
  IF step = Len(Steps)
  THEN /\ rpc' = "done" /\ UNCHANGED step
       /\ applied' = {config}
  ELSE rpc' = "lookup" /\ step' = step + 1 /\ UNCHANGED applied

(* getSetting: argMax(value, inserted_at), or nothing. *)
GetSetting(n) == IF settings[n] = {} THEN {<<>>} ELSE settings[n]

(* Mutant: the value is not compared, only that there is one.              *)
UpToDateOnce(s, c, v) == v # <<>>

UpToDate(s, c, v) == \/ s.kind = "policy" /\ c.policy = NoPolicy
                     \/ v = Value(s, c)

Lookup ==
  /\ rpc = "lookup"
  /\ \E v \in GetSetting(Steps[step].name) :
       IF UpToDate(Steps[step], config, v)
       THEN /\ Advance
            /\ trusted' = trusted \cup ({step} \cap unrecorded)
            /\ UNCHANGED tableAt
       ELSE rpc' = "alter" /\ tableAt' = 1 /\ UNCHANGED <<step, applied, trusted>>
  /\ UNCHANGED <<ttl, policy, settings, config, recorded, starts, stops, unrecorded>>

(* ALTER TABLE: of a TTL, after the MODIFY SETTING with fixed values. *)
AlterTable ==
  LET s == Steps[step]
      t == s.tables[tableAt] IN
  /\ rpc = "alter"
  /\ IF s.kind = "policy"
     THEN policy' = [policy EXCEPT ![t] = Value(s, config)] /\ UNCHANGED ttl
     ELSE ttl' = [ttl EXCEPT ![t] = Value(s, config)] /\ UNCHANGED policy
  /\ unrecorded' = unrecorded \cup {step}
  /\ IF tableAt = Len(s.tables) THEN rpc' = "put" /\ UNCHANGED tableAt
                              ELSE tableAt' = tableAt + 1 /\ UNCHANGED rpc
  /\ UNCHANGED <<settings, step, config, recorded, starts, stops, trusted, applied>>

(* Mutant: nothing is recorded.                                            *)
SettingsWithNothing(n, v) == {settings}

(* Two values under one name, put in the same second, are tied: which one  *)
(* is read back is open.  Across two runs there is more than a second.     *)
SettingsWith(n, v) ==
  {[settings EXCEPT ![n] = {v}]}
  \cup (IF n \in recorded THEN {[settings EXCEPT ![n] = @ \cup {v}]} ELSE {})

PutSetting ==
  LET s == Steps[step] IN
  /\ rpc = "put"
  /\ settings' \in SettingsWith(s.name, Value(s, config))
  /\ recorded' = recorded \cup {s.name}
  /\ unrecorded' = unrecorded \ {step}
  /\ Advance
  /\ UNCHANGED <<ttl, policy, tableAt, config, starts, stops, trusted>>

(* A statement fails, which ends the process with an error, or it dies. *)
Interrupted ==
  /\ rpc \notin {"down", "done"} /\ stops > 0
  /\ rpc' = "down" /\ stops' = stops - 1
  /\ UNCHANGED <<ttl, policy, settings, step, tableAt, config, recorded, starts,
                 unrecorded, trusted, applied>>

RotationNext == (\E c \in Configs : StartRotation(c)) \/ Lookup \/ AlterTable
                \/ PutSetting \/ Interrupted

RotationSpec == RotationInit /\ [][RotationNext]_rotationVars
-----------------------------------------------------------------------------
Applied(s, c) == \A i \in DOMAIN s.tables : CurrentOf(s.tables[i], s.kind) = Value(s, c)

(* After a run that came to its end, every table has the storage policy    *)
(* and the TTL of the configuration, however the earlier runs ended; but   *)
(* for the tables an interrupted run had begun to alter, when the          *)
(* configuration went back to the recorded one: getSetting then says that  *)
(* there is nothing to do.                                                 *)
RotatedUnlessReverted ==
  rpc = "done" => \A i \in DOMAIN Steps :
     \/ Steps[i].kind = "policy" /\ config.policy = NoPolicy
     \/ Applied(Steps[i], config)
     \/ i \in trusted

(* A restart with the configuration of the last whole run alters no table, *)
(* but metrics_15s: its policy and its TTL overwrite each other's setting. *)
RestartAltersNothing ==
  [][applied = {config} /\ rpc = "lookup" /\ rpc' = "alter"
       => Steps[step].name = "metrics_15s"]_rotationVars
=============================================================================
