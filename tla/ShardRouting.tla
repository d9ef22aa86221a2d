---------------------------- MODULE ShardRouting ----------------------------
(***************************************************************************)
(* Loki local-shard writes: the topology refresh loop                      *)
(* (shared/shardtopo/shardtopo.go), the fan-out of insert services it      *)
(* grows (writer/plugin/loki_sharding.go), and the push handlers that      *)
(* partition their rows over it (writer/controller/loki_sharding.go).      *)
(* system.clusters and the DNS name CLICKHOUSE_SERVER change under them.   *)
(*                                                                         *)
(* A layout is a function from 1..shardCount to the replicas of a shard.   *)
(* The order of the replicas and the round-robin counters only choose      *)
(* among the replicas of a shard: a pick is any of them.                   *)
(***************************************************************************)
EXTENDS Naturals, FiniteSets, FiniteSetsExt

CONSTANTS Replicas,     \* ClickHouse nodes
          Clusters,     \* contents system.clusters may have: sets of
                        \* <<shard_num, replica>>
          WriteSets,    \* what the name CLICKHOUSE_SERVER may resolve to
          MaxChanges,   \* bound on the changes of those two
          Requests,     \* push requests that are eligible for shard routing
          RowsOf        \* [Requests -> SUBSET Nat]: fingerprints of their rows

ASSUME ShardAssumption ==
  /\ Clusters \subseteq SUBSET ((Nat \ {0}) \X Replicas)
  /\ \A C \in Clusters : IsFiniteSet(C)
  /\ WriteSets \subseteq SUBSET Replicas
  /\ MaxChanges \in Nat
  /\ RowsOf \in [Requests -> SUBSET Nat]

VARIABLES clusterRows, \* system.clusters, now
          writeSet,   \* the addresses behind CLICKHOUSE_SERVER, now
          changes,    \* how often they have changed
          loop,       \* where the process, or its refresh loop, is
          stop,       \* Topology.Stop was called
          allowIPs,   \* the write set the current refresh resolved
          next,       \* the layout it discovered
          snap,       \* Topology.snap
          services,   \* lokiShard: replicas that have services, by shard
          eligible,   \* the <<shard, replica>> pairs that the discovery which
                      \* added the shard admitted
          push,       \* [Requests -> progress of pushSharded...]
          writes      \* the rows handed to the services, with their target

shardVars == <<clusterRows, writeSet, changes, loop, stop, allowIPs, next, snap,
          services, eligible, push, writes>>
clusterVars == <<clusterRows, writeSet, changes>>
loopVars == <<loop, allowIPs, next, snap, services, eligible>>

NoLayout == [s \in {} |-> {}]
ShardCount(layout) == Cardinality(DOMAIN layout)
-----------------------------------------------------------------------------
(* BuildSnapshot: shard numbers are contiguous from 1 and every shard has  *)
(* a replica in the write set; the layout keeps those replicas only.       *)

ShardNums(C) == {row[1] : row \in C}

(* Mutant: the replicas of a shard are not filtered by the write set.      *)
CandidatesUnfiltered(C, allow, s) == {r \in Replicas : <<s, r>> \in C}

Candidates(C, allow, s) == {r \in allow : <<s, r>> \in C}

Discoverable(C, allow) ==
  /\ C # {} /\ allow # {}
  /\ ShardNums(C) = 1..Max(ShardNums(C))
  /\ \A s \in ShardNums(C) : Candidates(C, allow, s) # {}

BuildSnapshot(C, allow) == [s \in ShardNums(C) |-> Candidates(C, allow, s)]

Admitted(C, allow) == {row \in C : row[2] \in allow}
-----------------------------------------------------------------------------
ShardTypes ==
  /\ clusterRows \in Clusters /\ writeSet \in WriteSets /\ changes \in 0..MaxChanges
  /\ loop \in {"boot", "select", "deaf", "resolved", "discovered", "grown", "done",
               "exit"}
  /\ stop \in BOOLEAN
  /\ allowIPs \subseteq Replicas
  /\ \A layout \in {next, snap, services} :
        /\ DOMAIN layout = 1..ShardCount(layout)
        /\ \A s \in DOMAIN layout : layout[s] \subseteq Replicas /\ layout[s] # {}
  /\ push \in [Requests -> {"idle", "routed", "series", "sent"}]

ShardInit ==
  /\ clusterRows \in Clusters /\ writeSet \in WriteSets /\ changes = 0
  /\ loop = "boot" /\ stop = FALSE
  /\ allowIPs = {} /\ next = NoLayout /\ snap = NoLayout /\ services = NoLayout
  /\ eligible = {}
  /\ push = [q \in Requests |-> "idle"]
  /\ writes = {}

(* Operators add, move or remove nodes; DNS follows or does not. *)
Reconfigure ==
  /\ changes < MaxChanges
  /\ changes' = changes + 1
  /\ clusterRows' \in Clusters /\ writeSet' \in WriteSets
  /\ UNCHANGED <<loopVars, stop, push, writes>>
-----------------------------------------------------------------------------
(* buildLokiShardServices: shardtopo.New discovers the layout, or the      *)
(* process exits; every replica of it gets its services before the fan-out *)
(* is published and the loop is started.                                   *)
Boot ==
  /\ loop = "boot"
  /\ Discoverable(clusterRows, writeSet)
  /\ snap' = BuildSnapshot(clusterRows, writeSet)
  /\ services' = BuildSnapshot(clusterRows, writeSet)
  /\ eligible' = Admitted(clusterRows, writeSet)
  /\ loop' = "select"
  /\ UNCHANGED <<clusterVars, stop, allowIPs, next, push, writes>>

BootRefused ==
  /\ loop = "boot"
  /\ ~Discoverable(clusterRows, writeSet)
  /\ loop' = "exit"
  /\ UNCHANGED <<clusterVars, stop, allowIPs, next, snap, services, eligible, push, writes>>

(* The loop enters its select.  It reads the field t.stop there, which     *)
(* Topology.Stop has set to nil: a loop that comes back to the select      *)
(* after that waits for the ticker only, and is deaf to the closed channel.*)
LoopAgain == IF stop THEN "deaf" ELSE "select"

(* A tick: the write host is resolved first (an error ends the refresh), *)
Resolve ==
  /\ loop \in {"select", "deaf"}
  /\ allowIPs' = writeSet
  /\ loop' = IF writeSet = {} THEN LoopAgain ELSE "resolved"
  /\ UNCHANGED <<clusterVars, stop, next, snap, services, eligible, push, writes>>

(* then system.clusters is queried, and the layout is built ... *)
Discover ==
  /\ loop = "resolved"
  /\ Discoverable(clusterRows, allowIPs)
  /\ next' = BuildSnapshot(clusterRows, allowIPs)
  /\ eligible' = eligible \cup {row \in Admitted(clusterRows, allowIPs) : row[1] \notin DOMAIN services}
  /\ loop' = "discovered"
  /\ UNCHANGED <<clusterVars, stop, allowIPs, snap, services, push, writes>>

(* ... or "refresh failed, keeping current layout": a query may also time  *)
(* out after 30 s.                                                         *)
DiscoverFailed ==
  /\ loop = "resolved"
  /\ loop' = LoopAgain
  /\ UNCHANGED <<clusterVars, stop, allowIPs, next, snap, services, eligible, push, writes>>

(* applyRefresh *)

(* Mutant: every change of the number of shards is held.                   *)
HeldOnChange == ShardCount(next) # ShardCount(snap)

DecreaseHeld == ShardCount(next) < ShardCount(snap)

ApplySameCount ==
  /\ loop = "discovered"
  /\ ShardCount(next) <= ShardCount(snap) /\ ~DecreaseHeld
  /\ snap' = next
  /\ loop' = LoopAgain
  /\ UNCHANGED <<clusterVars, stop, allowIPs, next, services, eligible, push, writes>>

HoldDecrease ==
  /\ loop = "discovered"
  /\ DecreaseHeld
  /\ loop' = LoopAgain
  /\ UNCHANGED <<clusterVars, stop, allowIPs, next, snap, services, eligible, push, writes>>

Grown == [s \in DOMAIN next |-> IF s \in DOMAIN services THEN services[s] ELSE next[s]]

(* onGrow: services for the new shards only, then the longer fan-out is    *)
(* published, before the snapshot is.                                      *)
OnGrow ==
  /\ loop = "discovered"
  /\ ShardCount(next) > ShardCount(snap) /\ ~DecreaseHeld
  /\ services' = Grown
  /\ loop' = "grown"
  /\ UNCHANGED <<clusterVars, stop, allowIPs, next, snap, eligible, push, writes>>

StoreSnapshot ==
  /\ loop = "grown"
  /\ snap' = next
  /\ loop' = LoopAgain
  /\ UNCHANGED <<clusterVars, stop, allowIPs, next, services, eligible, push, writes>>

(* Topology.Stop closes the channel its caller read under the lock  *)
(* and waits for the loop to end ...                                       *)
StopTopology ==
  /\ loop \notin {"boot", "exit"} /\ ~stop
  /\ stop' = TRUE
  /\ UNCHANGED <<clusterVars, loopVars, push, writes>>

(* ... which it does if it was in the select then, unless a tick wins.      *)
LoopDone ==
  /\ loop = "select" /\ stop
  /\ loop' = "done"
  /\ UNCHANGED <<clusterVars, stop, allowIPs, next, snap, services, eligible, push, writes>>
-----------------------------------------------------------------------------
(* The push handlers. *)

(* Mutant: the divisor is the number of the last shard.                    *)
ShardIndexOffByOne(fp, n) == IF n <= 1 THEN 0 ELSE fp % (n - 1)

ShardIndex(fp, n) == IF n <= 1 THEN 0 ELSE fp % n

(* PartitionTimeSeries, PartitionTimeSamples *)
Part(rows, n, s) == {fp \in rows : ShardIndex(fp, n) + 1 = s}

(* pickTS, pickSpl: one replica per part. *)
Picks == {f \in [DOMAIN services -> Replicas] :
            \A s \in DOMAIN services : f[s] \in services[s]}

Send(q, table) ==
  \E pick \in Picks :
    writes' = writes \cup
       UNION {{[req |-> q, table |-> table, fp |-> fp, shard |-> s,
                replica |-> pick[s], fanout |-> ShardCount(services)] :
                  fp \in Part(RowsOf[q], ShardCount(services), s)} :
              s \in DOMAIN services}

(* shardRoutingActive: decided once per request. *)
RouteBySharding(q) ==
  /\ push[q] = "idle"
  /\ services # NoLayout
  /\ push' = [push EXCEPT ![q] = "routed"]
  /\ UNCHANGED <<clusterVars, loopVars, stop, writes>>

(* Each of the two loads lokiShard again. *)
PushShardedTimeSeries(q) ==
  /\ push[q] = "routed"
  /\ push' = [push EXCEPT ![q] = "series"]
  /\ Send(q, "time_series")
  /\ UNCHANGED <<clusterVars, loopVars, stop>>

PushShardedSamples(q) ==
  /\ push[q] = "series"
  /\ push' = [push EXCEPT ![q] = "sent"]
  /\ Send(q, "samples")
  /\ UNCHANGED <<clusterVars, loopVars, stop>>

Refresh == Resolve \/ Discover \/ DiscoverFailed \/ ApplySameCount
           \/ HoldDecrease \/ OnGrow \/ StoreSnapshot

ShardNext ==
  \/ Reconfigure \/ Boot \/ BootRefused \/ Refresh \/ StopTopology \/ LoopDone
  \/ \E q \in Requests : RouteBySharding(q) \/ PushShardedTimeSeries(q)
                         \/ PushShardedSamples(q)

ShardSpec == ShardInit /\ [][ShardNext]_shardVars

(* The ticker goes on ticking and a step of the loop that is under way     *)
(* ends; a query that can be answered is answered again and again.         *)
ShardFairSpec == /\ ShardSpec
            /\ WF_shardVars(Boot \/ BootRefused)
            /\ WF_shardVars(Refresh)
            /\ SF_shardVars(Discover)
            /\ SF_shardVars(LoopDone)
-----------------------------------------------------------------------------
(* The fan-out that handlers route over always covers the published        *)
(* topology, shard by shard: onGrow publishes it before applyRefresh       *)
(* stores the snapshot, and a decrease is never stored.                    *)
FanoutCoversSnapshot ==
  /\ DOMAIN snap \subseteq DOMAIN services
  /\ loop \notin {"boot", "exit", "grown"} => DOMAIN snap = DOMAIN services

(* Whatever the refresh loop does between the two loads of lokiShard, a    *)
(* handler hands every row of a table to exactly one shard, the one its    *)
(* fingerprint selects in the fan-out the handler saw.                     *)
RowsRoutedOnce ==
  \A q \in Requests, t \in {"time_series", "samples"}, fp \in UNION {RowsOf[p] : p \in Requests} :
     LET mine == {w \in writes : w.req = q /\ w.table = t /\ w.fp = fp}
         sent == push[q] = "sent" \/ (t = "time_series" /\ push[q] = "series")
     IN  /\ Cardinality(mine) = (IF sent /\ fp \in RowsOf[q] THEN 1 ELSE 0)
         /\ \A w \in mine : w.shard = (fp % w.fanout) + 1

(* BuildSnapshot, buildShard, onGrow: however often the write name is      *)
(* resolved again, a row of a shard only goes to a node that the discovery *)
(* which added the shard saw as its replica and in the write set.  (That a *)
(* later refresh admits other nodes changes nothing, see the next one.)    *)
WritesToAdmittedReplicas ==
  \A w \in writes : <<w.shard, w.replica>> \in eligible

(* docs/configuration.md:35: "Writes only ever go to the `CLICKHOUSE_SERVER` *)
(* IPs", and "The write set is re-resolved on each topology refresh": a    *)
(* handler writes to the replicas of the last layout that was applied,     *)
(* which holds the members of the write set only.  The code does not: the  *)
(* services of a shard stay those of the discovery that added it.          *)
WritesFollowTheWriteSet ==
  [][\A w \in writes' \ writes : w.shard \in DOMAIN snap => w.replica \in snap[w.shard]]_shardVars

(* No refresh takes services away from a shard or moves it, so a row that  *)
(* is being routed always finds its services; the number of shards never   *)
(* goes down (applyRefresh holds a decrease, onGrow appends).              *)
LayoutOnlyGrows ==
  [][ /\ DOMAIN services \subseteq DOMAIN services'
      /\ \A s \in DOMAIN services : services'[s] = services[s]
      /\ ShardCount(snap') >= ShardCount(snap) ]_shardVars

(* A shard that was added is picked up: when system.clusters and DNS stay  *)
(* as they are and the loop is not stopped, writes are spread over all     *)
(* shards in the end.                                                      *)
ShardAdditionPickedUp ==
  <>[](~stop /\ loop # "exit" /\ Discoverable(clusterRows, writeSet))
     => <>[](ShardNums(clusterRows) \subseteq DOMAIN services)

(* writer/plugin/loki_sharding.go: "StopLokiShardWrites halts the topology *)
(* refresh loop."  Topology.Stop waits for the end of the loop, so this is *)
(* also what lets the shutdown of the writer go on.                        *)
StopHaltsTheLoop == (stop /\ loop # "exit") ~> (loop = "done")

(* shardtopo.go, loki_sharding.go: while the topology changes, the fan-out *)
(* covers the published snapshot and every row of a request reaches one    *)
(* shard, the one its fingerprint selects.                                 *)
RoutingIsConsistent ==
  /\ ShardTypes
  /\ FanoutCoversSnapshot
  /\ RowsRoutedOnce

(* applyRefresh, onGrow: the layout never shrinks or moves under the       *)
(* handlers, and still takes in every shard that stays.                    *)
LayoutFollowsTheCluster ==
  /\ LayoutOnlyGrows
  /\ ShardAdditionPickedUp
=============================================================================
