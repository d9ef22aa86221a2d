---------------------------- MODULE VersionCache ----------------------------
(***************************************************************************)
(* The reader's cache of the schema versions and server capabilities       *)
(* (reader/utils/dbVersion): GetVersionInfo fills it, and a goroutine that *)
(* at most one caller starts empties it after ten seconds.                 *)
(***************************************************************************)
EXTENDS Naturals

CONSTANTS Callers,     \* concurrent requests
          MaxVersion,  \* bound on the schema upgrades
          MaxWaking    \* bound on the goroutines between their two statements

ASSUME VersionAssumption == MaxVersion \in Nat /\ MaxWaking \in Nat \ {0}

VARIABLES schema,     \* the version in the table settings
          cached,     \* the entry of the map versions, NoVersion when absent
          throttled,  \* the flag throttled
          sleeping,   \* goroutines of throttle that wait
          waking,     \* goroutines of throttle between their two statements
          at,         \* [caller -> where its GetVersionInfo is]
          read        \* [caller -> the version it read]

versionVars == <<schema, cached, throttled, sleeping, waking, at, read>>

NoVersion == MaxVersion + 1

VersionInit ==
  /\ schema = 0 /\ cached = NoVersion
  /\ throttled = FALSE /\ sleeping = 0 /\ waking = 0
  /\ at = [c \in Callers |-> "idle"] /\ read = [c \in Callers |-> NoVersion]

Upgrade ==
  /\ schema < MaxVersion
  /\ schema' = schema + 1
  /\ UNCHANGED <<cached, throttled, sleeping, waking, at, read>>

Lookup(c) ==
  /\ at[c] = "idle"
  /\ read' = [read EXCEPT ![c] = cached]
  /\ at' = [at EXCEPT ![c] = IF cached = NoVersion THEN "query" ELSE "use"]
  /\ UNCHANGED <<schema, cached, throttled, sleeping, waking>>

(* The three queries; when the second or an earlier one fails the caller   *)
(* gets the error and nothing is cached.                                   *)
QueryVersions(c) ==
  /\ at[c] = "query"
  /\ \/ read' = [read EXCEPT ![c] = schema] /\ at' = [at EXCEPT ![c] = "store"]
     \/ at' = [at EXCEPT ![c] = "idle"] /\ UNCHANGED read
  /\ UNCHANGED <<schema, cached, throttled, sleeping, waking>>

Store(c) ==
  /\ at[c] = "store"
  /\ cached' = read[c]
  /\ at' = [at EXCEPT ![c] = "throttle"]
  /\ UNCHANGED <<schema, throttled, sleeping, waking, read>>

(* CompareAndSwap: only the caller that sets the flag starts a goroutine. *)
Throttle(c) ==
  /\ at[c] = "throttle"
  /\ at' = [at EXCEPT ![c] = "use"]
  /\ throttled' = TRUE
  /\ sleeping' = IF throttled THEN sleeping ELSE sleeping + 1
  /\ UNCHANGED <<schema, cached, waking, read>>

Use(c) ==
  /\ at[c] = "use"
  /\ at' = [at EXCEPT ![c] = "idle"]
  /\ UNCHANGED <<schema, cached, throttled, sleeping, waking, read>>

(* Mutant: the map is emptied before the flag is reset. *)
AfterSleepSwapped(half) ==
  \/ half = 1 /\ cached' = NoVersion /\ UNCHANGED throttled
  \/ half = 2 /\ throttled' = FALSE /\ UNCHANGED cached

(* The two statements of the goroutine: reset the flag, empty the map. *)
AfterSleep(half) ==
  \/ half = 1 /\ throttled' = FALSE /\ UNCHANGED cached
  \/ half = 2 /\ cached' = NoVersion /\ UNCHANGED throttled

Wake ==
  /\ sleeping > 0 /\ waking < MaxWaking
  /\ sleeping' = sleeping - 1 /\ waking' = waking + 1
  /\ AfterSleep(1)
  /\ UNCHANGED <<schema, at, read>>

Clear ==
  /\ waking > 0
  /\ waking' = waking - 1
  /\ AfterSleep(2)
  /\ UNCHANGED <<schema, sleeping, at, read>>

VersionNext ==
  \/ Upgrade \/ Wake \/ Clear
  \/ \E c \in Callers : Lookup(c) \/ QueryVersions(c) \/ Store(c) \/ Throttle(c) \/ Use(c)

-----------------------------------------------------------------------------
(* An outdated entry does not stay in the cache: a version that was read   *)
(* before an upgrade is dropped or replaced, although only one of the      *)
(* callers that store starts the goroutine that empties the map.           *)
OutdatedVersionsExpire ==
  (cached # NoVersion /\ cached < schema) ~> (cached = NoVersion \/ cached = schema)
=============================================================================
