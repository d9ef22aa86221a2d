------------------------- MODULE ShardRoutingProofs -------------------------
(***************************************************************************)
(* Proofs about ShardRouting, for any set of nodes, any contents of        *)
(* system.clusters and of the write name, any number of changes and any    *)
(* requests.                                                               *)
(*                                                                         *)
(* The properties alone are not inductive: what a handler writes is right  *)
(* because the fan-out it loads is contiguous, not empty and made of       *)
(* admitted replicas (LayoutsAreAdmitted); the fan-out is, because the     *)
(* layout the refresh loop holds in next is; and the snapshot may be       *)
(* stored because onGrow has already published as many shards (GrownFirst).*)
(***************************************************************************)
EXTENDS ShardRouting, FiniteSetTheorems, TLAPS

Tables == {"time_series", "samples"}

(* The shards of a layout are numbered from 1 without a gap. *)
Contiguous(layout) ==
  /\ ShardCount(layout) \in Nat
  /\ DOMAIN layout = 1..ShardCount(layout)

LayoutTypes ==
  /\ clusterRows \in Clusters /\ writeSet \in WriteSets /\ changes \in 0..MaxChanges
  /\ loop \in {"boot", "select", "deaf", "resolved", "discovered", "grown", "done",
               "exit"}
  /\ stop \in BOOLEAN
  /\ allowIPs \subseteq Replicas
  /\ push \in [Requests -> {"idle", "routed", "series", "sent"}]
  /\ Contiguous(next) /\ Contiguous(snap) /\ Contiguous(services)

(* Nothing is published or written before buildLokiShardServices is done. *)
NothingBeforeBoot ==
  /\ loop \in {"boot", "exit"} =>
        DOMAIN next = {} /\ DOMAIN snap = {} /\ DOMAIN services = {}
  /\ services # NoLayout => DOMAIN services # {}
  /\ \A q \in Requests : push[q] # "idle" => DOMAIN services # {}

(* The replicas of a layout are nodes.                                     *)
OfNodes(layout) ==
  \A s \in DOMAIN layout : layout[s] # {} /\ layout[s] \subseteq Replicas

(* The services of a shard, and those it is about to get, are for replicas *)
(* that the discovery which adds the shard admitted.                       *)
LayoutsAreAdmitted ==
  /\ OfNodes(next) /\ OfNodes(snap) /\ OfNodes(services)
  /\ \A s \in DOMAIN services : \A r \in services[s] : <<s, r>> \in eligible
  /\ \A s \in DOMAIN next \ DOMAIN services : \A r \in next[s] : <<s, r>> \in eligible

(* Between onGrow and the store of the snapshot. *)
GrownFirst ==
  loop = "grown" => /\ DOMAIN services = DOMAIN next
                    /\ ShardCount(snap) <= ShardCount(next)

(* The rows of a table have been handed over. *)
HasSent(q, t) == push[q] = "sent" \/ (t = "time_series" /\ push[q] = "series")

(* Every write is of a row of its request, after the handler got there, to *)
(* the shard of the fingerprint; and each such row has exactly one.        *)
WritesAreRows ==
  /\ \A w \in writes :
        /\ w.req \in Requests /\ w.table \in Tables
        /\ HasSent(w.req, w.table)
        /\ w.fp \in RowsOf[w.req]
        /\ w.shard = (w.fp % w.fanout) + 1
        /\ <<w.shard, w.replica>> \in eligible
  /\ \A v, w \in writes :
        v.req = w.req /\ v.table = w.table /\ v.fp = w.fp => v = w
  /\ \A q \in Requests, t \in Tables, fp \in Nat :
        HasSent(q, t) /\ fp \in RowsOf[q] =>
           \E w \in writes : w.req = q /\ w.table = t /\ w.fp = fp

IInv ==
  /\ LayoutTypes
  /\ NothingBeforeBoot
  /\ LayoutsAreAdmitted
  /\ GrownFirst
  /\ FanoutCoversSnapshot
  /\ WritesAreRows
-----------------------------------------------------------------------------
(* Facts about layouts. *)

(* A finite set of natural numbers that is not empty has a greatest member: *)
(* a smallest set without one would lose nothing by the removal of a point.*)
LEMMA GreatestExists ==
  ASSUME NEW S \in SUBSET Nat, IsFiniteSet(S), S # {}
  PROVE  \E x \in S : \A y \in S : x >= y
<1> DEFINE HasGreatest(U) == \E x \in U : \A y \in U : x >= y
           Bad == {U \in FiniteSubsetsOf(Nat) : U # {} /\ ~HasGreatest(U)}
<1>1. SUFFICES ASSUME Bad # {} PROVE FALSE
  BY DEF FiniteSubsetsOf
<1>2. PICK U \in Bad : \A V \in Bad : <<V, U>> \notin StrictSubsetOrdering(Nat)
  <2>1. IsWellFoundedOn(StrictSubsetOrdering(Nat), FiniteSubsetsOf(Nat))
    BY FS_StrictSubsetOrderingWellFounded
  <2>2. Bad \subseteq FiniteSubsetsOf(Nat)
    OBVIOUS
  <2> QED BY <1>1, <2>1, <2>2, WFMin
<1>3. U \subseteq Nat /\ IsFiniteSet(U) /\ U # {} /\ ~HasGreatest(U)
  BY DEF FiniteSubsetsOf
<1>4. PICK x \in U : TRUE
  BY <1>3
<1>5. U \ {x} \in FiniteSubsetsOf(Nat)
  BY <1>3, FS_RemoveElement DEF FiniteSubsetsOf
<1>6. <<U \ {x}, U>> \in StrictSubsetOrdering(Nat)
  BY <1>3, <1>4 DEF StrictSubsetOrdering
<1>7. U \ {x} \notin Bad
  BY <1>2, <1>6
<1>8. CASE U \ {x} = {}
  BY <1>3, <1>4, <1>8
<1>9. CASE U \ {x} # {}
  <2>1. PICK m \in U \ {x} : \A y \in U \ {x} : m >= y
    BY <1>5, <1>7, <1>9
  <2>2. CASE m >= x
    BY <1>3, <1>4, <2>1, <2>2
  <2>3. CASE x > m
    BY <1>3, <1>4, <2>1, <2>3
  <2> QED BY <1>3, <1>4, <2>1, <2>2, <2>3
<1> QED BY <1>8, <1>9

LEMMA IntervalCount ==
  ASSUME NEW layout, NEW n \in Nat, DOMAIN layout = 1..n
  PROVE  Contiguous(layout) /\ ShardCount(layout) = n
<1>1. Cardinality(1..n) = n
  BY FS_Interval
<1> QED BY <1>1 DEF Contiguous, ShardCount

LEMMA NoLayoutFacts == DOMAIN NoLayout = {} /\ Contiguous(NoLayout)
<1>1. DOMAIN NoLayout = 1..0
  BY DEF NoLayout
<1> QED BY <1>1, IntervalCount DEF NoLayout

(* A layout that BuildSnapshot accepts is numbered from 1 without a gap,   *)
(* has at least one shard, and consists of the replicas it admits.         *)
LEMMA BuildSnapshotFacts ==
  ASSUME NEW C \in Clusters, NEW allow \in SUBSET Replicas, Discoverable(C, allow)
  PROVE  LET L == BuildSnapshot(C, allow)
         IN  /\ Contiguous(L) /\ DOMAIN L # {} /\ DOMAIN L = ShardNums(C)
             /\ \A s \in DOMAIN L :
                   /\ L[s] # {} /\ L[s] \subseteq Replicas
                   /\ \A r \in L[s] : <<s, r>> \in Admitted(C, allow)
<1> DEFINE L == BuildSnapshot(C, allow)
<1>1. C \subseteq (Nat \ {0}) \X Replicas /\ IsFiniteSet(C) /\ C # {}
  BY ShardAssumption DEF Discoverable
<1>2. ShardNums(C) \subseteq Nat /\ ShardNums(C) # {}
  BY <1>1 DEF ShardNums
<1>3. IsFiniteSet(ShardNums(C))
  <2>1. [row \in C |-> row[1]] \in Surjection(C, ShardNums(C))
    BY <1>1 DEF Surjection, ShardNums
  <2> QED BY <1>1, <2>1, FS_Surjection
<1>4. Max(ShardNums(C)) \in Nat
  <2>1. \E x \in ShardNums(C) : \A y \in ShardNums(C) : x >= y
    BY <1>2, <1>3, GreatestExists
  <2> QED BY <1>2, <2>1 DEF Max
<1>5. DOMAIN L = ShardNums(C) /\ DOMAIN L = 1..Max(ShardNums(C))
  BY DEF BuildSnapshot, Discoverable
<1>6. Contiguous(L)
  BY <1>4, <1>5, IntervalCount
<1>7. ASSUME NEW s \in DOMAIN L
      PROVE  /\ L[s] # {} /\ L[s] \subseteq Replicas
             /\ \A r \in L[s] : <<s, r>> \in Admitted(C, allow)
  BY <1>5 DEF Discoverable, BuildSnapshot, Candidates, Admitted
<1> QED BY <1>2, <1>5, <1>6, <1>7

(* ShardIndex selects a shard of the fan-out, for one shard and for more.  *)
LEMMA ShardIndexFacts ==
  ASSUME NEW fp \in Nat, NEW n \in Nat \ {0}
  PROVE  ShardIndex(fp, n) + 1 \in 1..n /\ ShardIndex(fp, n) = fp % n
<1>1. CASE n = 1
  <2>1. fp % 1 = 0
    OBVIOUS
  <2> QED BY <1>1, <2>1 DEF ShardIndex
<1>2. CASE n # 1
  <2>1. fp % n \in 0..(n - 1)
    OBVIOUS
  <2> QED BY <1>2, <2>1 DEF ShardIndex
<1> QED BY <1>1, <1>2
-----------------------------------------------------------------------------
LEMMA InitIInv == ShardInit => IInv
<1> SUFFICES ASSUME ShardInit PROVE IInv
  OBVIOUS
<1> USE NoLayoutFacts DEF ShardInit
<1>1. LayoutTypes
  <2>1. stop \in BOOLEAN
    BY Zenon
  <2>2. changes \in 0..MaxChanges
    BY ShardAssumption
  <2> QED BY <2>1, <2>2 DEF LayoutTypes
<1>2. NothingBeforeBoot /\ GrownFirst /\ FanoutCoversSnapshot
  BY DEF NothingBeforeBoot, GrownFirst, FanoutCoversSnapshot
<1>3. LayoutsAreAdmitted
  BY DEF LayoutsAreAdmitted, OfNodes
<1>4. WritesAreRows
  BY DEF WritesAreRows, HasSent
<1> QED BY <1>1, <1>2, <1>3, <1>4 DEF IInv

(* Steps that change no layout and no write: of the environment, of StopTopology,  *)
(* and of a refresh that ends without a result.                            *)
LEMMA QuietIInv ==
  ASSUME IInv,
         \/ Reconfigure \/ BootRefused \/ Resolve \/ DiscoverFailed
         \/ HoldDecrease \/ StopTopology \/ LoopDone
  PROVE  IInv'
<1>1. UNCHANGED <<next, snap, services, eligible, push, writes>>
  BY DEF Reconfigure, BootRefused, Resolve, DiscoverFailed, HoldDecrease, StopTopology,
         LoopDone, loopVars
<1>2. LayoutTypes'
  <2>1. /\ clusterRows' \in Clusters /\ writeSet' \in WriteSets
        /\ changes' \in 0..MaxChanges
        /\ allowIPs' \subseteq Replicas
    BY ShardAssumption
       DEF IInv, LayoutTypes, Reconfigure, BootRefused, Resolve, DiscoverFailed,
           HoldDecrease, StopTopology, LoopDone, loopVars, clusterVars
  <2>2. stop' \in BOOLEAN
    BY DEF IInv, LayoutTypes, Reconfigure, BootRefused, Resolve, DiscoverFailed,
           HoldDecrease, StopTopology, LoopDone
  <2>3. loop' \in {"boot", "select", "deaf", "resolved", "discovered", "grown",
                   "done", "exit"}
    BY DEF IInv, LayoutTypes, Reconfigure, BootRefused, Resolve, DiscoverFailed,
           HoldDecrease, StopTopology, LoopDone, loopVars, LoopAgain
  <2> QED BY <1>1, <2>1, <2>2, <2>3 DEF IInv, LayoutTypes, Contiguous, ShardCount
<1>3. (loop' = loop \/ loop' \notin {"boot", "grown"}) /\
      (loop' = "exit" => loop \in {"boot", "exit"})
  BY DEF Reconfigure, BootRefused, Resolve, DiscoverFailed, HoldDecrease, StopTopology,
         LoopDone, loopVars, LoopAgain
<1>4. loop' \notin {"boot", "exit", "grown"} => loop \notin {"boot", "exit", "grown"}
  BY DEF Reconfigure, BootRefused, Resolve, DiscoverFailed, HoldDecrease, StopTopology,
         LoopDone, loopVars, LoopAgain
<1>5. NothingBeforeBoot' /\ GrownFirst' /\ FanoutCoversSnapshot'
  BY <1>1, <1>3, <1>4
     DEF IInv, NothingBeforeBoot, GrownFirst, FanoutCoversSnapshot, ShardCount
<1>6. LayoutsAreAdmitted' /\ WritesAreRows'
  BY <1>1 DEF IInv, LayoutsAreAdmitted, OfNodes, WritesAreRows, HasSent
<1> QED BY <1>2, <1>5, <1>6 DEF IInv

(* Before Boot no handler has been routed, so nothing has been written. *)
LEMMA BootIInv == ASSUME IInv, Boot PROVE IInv'
<1> DEFINE L == BuildSnapshot(clusterRows, writeSet)
<1>1. /\ Contiguous(L) /\ DOMAIN L # {}
      /\ \A s \in DOMAIN L :
            /\ L[s] # {} /\ L[s] \subseteq Replicas
            /\ \A r \in L[s] : <<s, r>> \in Admitted(clusterRows, writeSet)
  BY BuildSnapshotFacts, ShardAssumption DEF IInv, LayoutTypes, Boot
<1> HIDE DEF L
<1>2. /\ snap' = L /\ services' = L /\ loop' = "select"
      /\ eligible' = Admitted(clusterRows, writeSet)
      /\ UNCHANGED <<clusterRows, writeSet, changes, stop, allowIPs, next, push, writes>>
  BY DEF Boot, clusterVars, L
<1>3. LayoutTypes'
  BY <1>1, <1>2 DEF IInv, LayoutTypes, Contiguous, ShardCount
<1>4. NothingBeforeBoot' /\ GrownFirst' /\ FanoutCoversSnapshot'
  BY <1>1, <1>2 DEF NothingBeforeBoot, GrownFirst, FanoutCoversSnapshot
<1>5. LayoutsAreAdmitted'
  BY <1>1, <1>2
     DEF IInv, Boot, NothingBeforeBoot, LayoutsAreAdmitted, OfNodes
<1>6. writes = {}
  BY DEF IInv, Boot, NothingBeforeBoot, WritesAreRows, HasSent
<1>7. WritesAreRows'
  BY <1>2, <1>6 DEF IInv, WritesAreRows, HasSent
<1> QED BY <1>3, <1>4, <1>5, <1>7 DEF IInv

LEMMA DiscoverIInv == ASSUME IInv, Discover PROVE IInv'
<1> DEFINE L == BuildSnapshot(clusterRows, allowIPs)
<1>1. /\ Contiguous(L)
      /\ \A s \in DOMAIN L :
            /\ L[s] # {} /\ L[s] \subseteq Replicas
            /\ \A r \in L[s] : <<s, r>> \in Admitted(clusterRows, allowIPs)
  BY BuildSnapshotFacts, ShardAssumption DEF IInv, LayoutTypes, Discover
<1> HIDE DEF L
<1>2. /\ next' = L /\ loop = "resolved" /\ loop' = "discovered"
      /\ eligible' = eligible \cup {row \in Admitted(clusterRows, allowIPs) : row[1] \notin DOMAIN services}
      /\ UNCHANGED <<clusterRows, writeSet, changes, stop, allowIPs, snap, services,
                     push, writes>>
  BY DEF Discover, clusterVars, L
<1>3. LayoutTypes'
  BY <1>1, <1>2 DEF IInv, LayoutTypes, Contiguous, ShardCount
<1>4. NothingBeforeBoot' /\ GrownFirst' /\ FanoutCoversSnapshot'
  BY <1>2 DEF IInv, NothingBeforeBoot, GrownFirst, FanoutCoversSnapshot
<1>5. LayoutsAreAdmitted'
  BY <1>1, <1>2 DEF IInv, LayoutsAreAdmitted, OfNodes
<1>6. WritesAreRows'
  BY <1>2 DEF IInv, WritesAreRows, HasSent
<1> QED BY <1>3, <1>4, <1>5, <1>6 DEF IInv

(* The snapshot is stored: the new one has as many shards as the fan-out,  *)
(* since the count is the same or onGrow has run.                          *)
LEMMA StoreIInv == ASSUME IInv, ApplySameCount \/ StoreSnapshot PROVE IInv'
<1>1. /\ snap' = next /\ loop' \in {"select", "deaf"}
      /\ UNCHANGED <<clusterRows, writeSet, changes, stop, allowIPs, next, services,
                     eligible, push, writes>>
  BY DEF ApplySameCount, StoreSnapshot, LoopAgain, clusterVars
<1>2. DOMAIN next = DOMAIN services
  <2>1. CASE ApplySameCount
    <3>1. ShardCount(next) = ShardCount(snap) /\ DOMAIN snap = DOMAIN services
      BY <2>1 DEF ApplySameCount, DecreaseHeld, IInv, LayoutTypes, Contiguous,
                  FanoutCoversSnapshot
    <3> QED BY <3>1 DEF IInv, LayoutTypes, Contiguous
  <2>2. CASE StoreSnapshot
    BY <2>2 DEF StoreSnapshot, IInv, GrownFirst
  <2> QED BY <2>1, <2>2
<1>3. LayoutTypes'
  BY <1>1 DEF IInv, LayoutTypes, Contiguous, ShardCount
<1>4. NothingBeforeBoot' /\ GrownFirst' /\ FanoutCoversSnapshot'
  BY <1>1, <1>2 DEF IInv, NothingBeforeBoot, GrownFirst, FanoutCoversSnapshot
<1>5. LayoutsAreAdmitted'
  BY <1>1 DEF IInv, LayoutsAreAdmitted, OfNodes
<1>6. WritesAreRows'
  BY <1>1 DEF IInv, WritesAreRows, HasSent
<1> QED BY <1>3, <1>4, <1>5, <1>6 DEF IInv

(* onGrow only appends: the shards that have services keep them. *)
LEMMA OnGrowFacts ==
  ASSUME IInv, OnGrow
  PROVE  /\ DOMAIN services = DOMAIN snap /\ DOMAIN services' = DOMAIN next
         /\ DOMAIN services \subseteq DOMAIN services'
         /\ ShardCount(services') = ShardCount(next)
         /\ ShardCount(snap) < ShardCount(next)
         /\ \A s \in DOMAIN services' :
               services'[s] = IF s \in DOMAIN services THEN services[s] ELSE next[s]
<1>1. services' = Grown /\ ShardCount(snap) < ShardCount(next)
  BY DEF OnGrow, IInv, LayoutTypes, Contiguous
<1>2. DOMAIN services = DOMAIN snap
  BY DEF OnGrow, IInv, FanoutCoversSnapshot
<1>3. DOMAIN services' = DOMAIN next
  BY <1>1 DEF Grown
<1>4. DOMAIN snap \subseteq DOMAIN next
  BY <1>1 DEF IInv, LayoutTypes, Contiguous
<1> QED BY <1>1, <1>2, <1>3, <1>4 DEF Grown, ShardCount

LEMMA OnGrowIInv == ASSUME IInv, OnGrow PROVE IInv'
<1>1. /\ loop = "discovered" /\ loop' = "grown"
      /\ UNCHANGED <<clusterRows, writeSet, changes, stop, allowIPs, next, snap,
                     eligible, push, writes>>
  BY DEF OnGrow, clusterVars
<1>2. LayoutTypes'
  BY <1>1, OnGrowFacts DEF IInv, LayoutTypes, Contiguous, ShardCount
<1>3. DOMAIN services' # {}
  BY OnGrowFacts DEF IInv, LayoutTypes, Contiguous
<1>4. NothingBeforeBoot' /\ FanoutCoversSnapshot'
  BY <1>1, <1>3, OnGrowFacts DEF NothingBeforeBoot, FanoutCoversSnapshot
<1>5. GrownFirst'
  <2>1. ShardCount(snap)' = ShardCount(snap) /\ ShardCount(next)' = ShardCount(next)
    BY <1>1 DEF ShardCount
  <2> QED BY <1>1, <2>1, OnGrowFacts DEF GrownFirst, IInv, LayoutTypes, Contiguous
<1>6. LayoutsAreAdmitted'
  BY <1>1, OnGrowFacts DEF IInv, LayoutsAreAdmitted, OfNodes
<1>7. WritesAreRows'
  BY <1>1 DEF IInv, WritesAreRows, HasSent
<1> QED BY <1>2, <1>4, <1>5, <1>6, <1>7 DEF IInv
-----------------------------------------------------------------------------
(* The handlers. *)

(* A step of a handler leaves the loop and the layouts alone. *)
LEMMA HandlerFrame ==
  ASSUME IInv, NEW q \in Requests,
         push' \in [Requests -> {"idle", "routed", "series", "sent"}],
         UNCHANGED <<clusterVars, loopVars, stop>>
  PROVE  /\ LayoutTypes' /\ GrownFirst' /\ FanoutCoversSnapshot'
         /\ LayoutsAreAdmitted'
<1>1. UNCHANGED <<clusterRows, writeSet, changes, loop, stop, allowIPs, next, snap,
                  services, eligible>>
  BY DEF clusterVars, loopVars
<1> QED BY <1>1 DEF IInv, LayoutTypes, Contiguous, ShardCount, GrownFirst,
         FanoutCoversSnapshot, LayoutsAreAdmitted, OfNodes

LEMMA RouteIInv ==
  ASSUME IInv, NEW q \in Requests, RouteBySharding(q)
  PROVE  IInv'
<1>1. /\ push[q] = "idle" /\ push' = [push EXCEPT ![q] = "routed"]
      /\ services # NoLayout
      /\ UNCHANGED <<clusterVars, loopVars, stop, services, eligible, loop, next, snap, writes>>
  BY DEF RouteBySharding, loopVars
<1>2. push \in [Requests -> {"idle", "routed", "series", "sent"}]
  BY DEF IInv, LayoutTypes
<1>3. push' \in [Requests -> {"idle", "routed", "series", "sent"}]
  BY <1>1, <1>2
<1>4. NothingBeforeBoot'
  BY <1>1, <1>2 DEF IInv, NothingBeforeBoot
<1>5. \A p \in Requests, t \in Tables : HasSent(p, t)' <=> HasSent(p, t)
  BY <1>1, <1>2 DEF HasSent
<1>6. WritesAreRows'
  BY <1>1, <1>5 DEF IInv, WritesAreRows
<1> QED BY <1>1, <1>3, <1>4, <1>6, HandlerFrame DEF IInv

(* What one call of pushSharded... hands to the services: exactly one      *)
(* write per row of the request, to the shard its fingerprint selects, on  *)
(* a replica of that shard.                                                *)
LEMMA SendFacts ==
  ASSUME IInv, NEW q \in Requests, NEW t \in Tables, Send(q, t),
         DOMAIN services # {}
  PROVE  \E new :
           /\ writes' = writes \cup new
           /\ \A w \in new :
                 /\ w.req = q /\ w.table = t /\ w.fp \in RowsOf[q]
                 /\ w.shard = (w.fp % w.fanout) + 1
                 /\ <<w.shard, w.replica>> \in eligible
           /\ \A v, w \in new : v.fp = w.fp => v = w
           /\ \A fp \in RowsOf[q] : \E w \in new : w.fp = fp
<1> DEFINE n == ShardCount(services)
<1>1. n \in Nat \ {0} /\ DOMAIN services = 1..n
  BY DEF IInv, LayoutTypes, Contiguous
<1>2. RowsOf[q] \subseteq Nat
  BY ShardAssumption
<1>3. PICK pick \in Picks :
        writes' = writes \cup
           UNION {{[req |-> q, table |-> t, fp |-> fp, shard |-> s,
                    replica |-> pick[s], fanout |-> ShardCount(services)] :
                      fp \in Part(RowsOf[q], ShardCount(services), s)} :
                  s \in DOMAIN services}
  BY DEF Send
<1> DEFINE W(fp, s) == [req |-> q, table |-> t, fp |-> fp, shard |-> s,
                        replica |-> pick[s], fanout |-> n]
           new == UNION {{W(fp, s) : fp \in Part(RowsOf[q], n, s)} :
                         s \in DOMAIN services}
<1>4. writes' = writes \cup new
  BY <1>3
<1>5. \A s \in DOMAIN services : <<s, pick[s]>> \in eligible
  BY <1>3 DEF Picks, IInv, LayoutsAreAdmitted, OfNodes
<1> HIDE DEF n
<1>6. \A w \in new : \E s \in DOMAIN services, fp \in RowsOf[q] :
         w = W(fp, s) /\ s = ShardIndex(fp, n) + 1
  BY DEF Part
<1>7. \A s \in DOMAIN services, fp \in RowsOf[q] :
         s = ShardIndex(fp, n) + 1 => W(fp, s) \in new
  BY DEF Part
<1> HIDE DEF new
<1>8. ASSUME NEW w \in new
      PROVE  /\ w.req = q /\ w.table = t /\ w.fp \in RowsOf[q]
             /\ w.shard = (w.fp % w.fanout) + 1
             /\ <<w.shard, w.replica>> \in eligible
  <2>1. PICK s \in DOMAIN services, fp \in RowsOf[q] :
           w = W(fp, s) /\ s = ShardIndex(fp, n) + 1
    BY <1>6
  <2>2. ShardIndex(fp, n) = fp % n
    BY <1>1, <1>2, ShardIndexFacts
  <2> QED BY <1>5, <2>1, <2>2
<1>9. ASSUME NEW v \in new, NEW w \in new, v.fp = w.fp
      PROVE  v = w
  <2>1. PICK s1 \in DOMAIN services, f1 \in RowsOf[q] :
           v = W(f1, s1) /\ s1 = ShardIndex(f1, n) + 1
    BY <1>6
  <2>2. PICK s2 \in DOMAIN services, f2 \in RowsOf[q] :
           w = W(f2, s2) /\ s2 = ShardIndex(f2, n) + 1
    BY <1>6
  <2>3. f1 = f2
    BY <1>9, <2>1, <2>2
  <2> QED BY <2>1, <2>2, <2>3
<1>10. ASSUME NEW fp \in RowsOf[q]
       PROVE  \E w \in new : w.fp = fp
  <2>1. ShardIndex(fp, n) + 1 \in DOMAIN services
    BY <1>1, <1>2, ShardIndexFacts
  <2> QED BY <1>7, <2>1
<1> QED BY <1>4, <1>8, <1>9, <1>10

LEMMA PushIInv ==
  ASSUME IInv, NEW q \in Requests, NEW t \in Tables, NEW from, NEW to,
         \/ t = "time_series" /\ from = "routed" /\ to = "series"
         \/ t = "samples" /\ from = "series" /\ to = "sent",
         push[q] = from, push' = [push EXCEPT ![q] = to],
         Send(q, t), UNCHANGED <<clusterVars, loopVars, stop>>
  PROVE  IInv'
<1>1. push \in [Requests -> {"idle", "routed", "series", "sent"}]
  BY DEF IInv, LayoutTypes
<1>2. push' \in [Requests -> {"idle", "routed", "series", "sent"}]
  BY <1>1
<1>3. UNCHANGED <<loop, next, snap, services, eligible>>
  BY DEF loopVars
<1>4. DOMAIN services # {}
  BY DEF IInv, NothingBeforeBoot
<1>5. PICK new :
           /\ writes' = writes \cup new
           /\ \A w \in new :
                 /\ w.req = q /\ w.table = t /\ w.fp \in RowsOf[q]
                 /\ w.shard = (w.fp % w.fanout) + 1
                 /\ <<w.shard, w.replica>> \in eligible
           /\ \A v, w \in new : v.fp = w.fp => v = w
           /\ \A fp \in RowsOf[q] : \E w \in new : w.fp = fp
  BY <1>4, SendFacts
<1>6. ~HasSent(q, t) /\ HasSent(q, t)'
  BY <1>1 DEF HasSent
<1>7. \A p \in Requests, u \in Tables :
         (p # q \/ u # t) => (HasSent(p, u)' <=> HasSent(p, u))
  BY <1>1 DEF HasSent, Tables
<1>8. \A w \in writes : ~(w.req = q /\ w.table = t)
  <2>1. \A w \in writes : HasSent(w.req, w.table)
    BY DEF IInv, WritesAreRows
  <2> QED BY <1>6, <2>1 DEF HasSent
<1>9. NothingBeforeBoot'
  BY <1>1, <1>3, <1>4 DEF IInv, NothingBeforeBoot
<1>10. WritesAreRows'
  <2>1. ASSUME NEW w \in writes'
        PROVE  /\ w.req \in Requests /\ w.table \in Tables
               /\ HasSent(w.req, w.table)'
               /\ w.fp \in RowsOf[w.req]
               /\ w.shard = (w.fp % w.fanout) + 1
               /\ <<w.shard, w.replica>> \in eligible'
    <3>1. CASE w \in writes
      <4>1. /\ w.req \in Requests /\ w.table \in Tables /\ HasSent(w.req, w.table)
            /\ w.fp \in RowsOf[w.req] /\ w.shard = (w.fp % w.fanout) + 1
            /\ <<w.shard, w.replica>> \in eligible
        BY <3>1 DEF IInv, WritesAreRows
      <4>2. HasSent(w.req, w.table)'
        BY <1>7, <1>8, <3>1, <4>1
      <4> QED BY <1>3, <4>1, <4>2
    <3>2. CASE w \in new
      BY <1>3, <1>5, <1>6, <3>2
    <3> QED BY <1>5, <3>1, <3>2
  <2>2. ASSUME NEW v \in writes', NEW w \in writes',
               v.req = w.req, v.table = w.table, v.fp = w.fp
        PROVE  v = w
    <3>1. CASE v \in writes /\ w \in writes
      BY <2>2, <3>1 DEF IInv, WritesAreRows
    <3>2. CASE v \in new /\ w \in new
      BY <1>5, <2>2, <3>2
    <3>3. CASE (v \in writes /\ w \in new) \/ (v \in new /\ w \in writes)
      BY <1>5, <1>8, <2>2, <3>3
    <3> QED BY <1>5, <3>1, <3>2, <3>3
  <2>3. ASSUME NEW p \in Requests, NEW u \in Tables, NEW fp \in Nat,
               HasSent(p, u)', fp \in RowsOf[p]
        PROVE  \E w \in writes' : w.req = p /\ w.table = u /\ w.fp = fp
    <3>1. CASE p = q /\ u = t
      BY <1>5, <2>3, <3>1
    <3>2. CASE p # q \/ u # t
      <4>1. HasSent(p, u)
        BY <1>7, <2>3, <3>2
      <4>2. PICK w \in writes : w.req = p /\ w.table = u /\ w.fp = fp
        BY <2>3, <4>1 DEF IInv, WritesAreRows
      <4> QED BY <1>5, <4>2
    <3> QED BY <3>1, <3>2
  <2> QED BY <2>1, <2>2, <2>3 DEF WritesAreRows
<1> QED BY <1>2, <1>9, <1>10, HandlerFrame DEF IInv
-----------------------------------------------------------------------------
LEMMA NextIInv == ASSUME IInv, [ShardNext]_shardVars PROVE IInv'
<1>1. CASE UNCHANGED shardVars
  BY <1>1 DEF shardVars, IInv, LayoutTypes, Contiguous, ShardCount, NothingBeforeBoot,
         LayoutsAreAdmitted, OfNodes, GrownFirst, FanoutCoversSnapshot,
         WritesAreRows, HasSent
<1>2. ASSUME NEW q \in Requests, PushShardedTimeSeries(q) PROVE IInv'
  BY <1>2, PushIInv DEF PushShardedTimeSeries, Tables
<1>3. ASSUME NEW q \in Requests, PushShardedSamples(q) PROVE IInv'
  BY <1>3, PushIInv DEF PushShardedSamples, Tables
<1>4. CASE Refresh
  BY <1>4, QuietIInv, DiscoverIInv, StoreIInv, OnGrowIInv DEF Refresh
<1> QED BY <1>1, <1>2, <1>3, <1>4, QuietIInv, BootIInv, RouteIInv DEF ShardNext

(* The inductive invariant holds in every reachable state: the layouts of  *)
(* the refresh loop and of the handlers are contiguous and admitted        *)
(* (shardtopo.go), and the writes are the rows of the requests.            *)
THEOREM InvariantHolds == ShardSpec => []IInv
<1>1. ShardInit => IInv
  BY InitIInv
<1>2. IInv /\ [ShardNext]_shardVars => IInv'
  BY NextIInv
<1> QED BY <1>1, <1>2, PTL DEF ShardSpec

LEMMA RoutedOnce == IInv => RowsRoutedOnce
<1> SUFFICES ASSUME IInv,
                    NEW q \in Requests, NEW t \in Tables,
                    NEW fp \in UNION {RowsOf[p] : p \in Requests}
             PROVE  LET mine == {w \in writes : w.req = q /\ w.table = t /\ w.fp = fp}
                        sent == push[q] = "sent" \/ (t = "time_series" /\ push[q] = "series")
                    IN  /\ Cardinality(mine) = (IF sent /\ fp \in RowsOf[q] THEN 1 ELSE 0)
                        /\ \A w \in mine : w.shard = (fp % w.fanout) + 1
  BY DEF RowsRoutedOnce, Tables
<1> DEFINE mine == {w \in writes : w.req = q /\ w.table = t /\ w.fp = fp}
<1>1. fp \in Nat
  BY ShardAssumption
<1>2. CASE HasSent(q, t) /\ fp \in RowsOf[q]
  <2>1. PICK w \in writes : w.req = q /\ w.table = t /\ w.fp = fp
    BY <1>1, <1>2 DEF IInv, WritesAreRows
  <2>2. mine = {w}
    BY <2>1 DEF IInv, WritesAreRows
  <2>3. Cardinality(mine) = 1
    BY <2>2, FS_Singleton
  <2> QED BY <1>2, <2>3 DEF HasSent, IInv, WritesAreRows
<1>3. CASE ~(HasSent(q, t) /\ fp \in RowsOf[q])
  <2>1. mine = {}
    <3>1. \A w \in writes : HasSent(w.req, w.table) /\ w.fp \in RowsOf[w.req]
      BY DEF IInv, WritesAreRows
    <3> QED BY <1>3, <3>1 DEF HasSent
  <2>2. Cardinality(mine) = 0
    BY <2>1, FS_EmptySet
  <2> QED BY <1>3, <2>1, <2>2 DEF HasSent
<1> QED BY <1>2, <1>3

(* RoutingIsConsistent: however the refresh loop and the handlers          *)
(* interleave, the fan-out of loki_sharding.go covers the snapshot of      *)
(* shardtopo.go and every row of a table goes to one shard, the one its    *)
(* fingerprint selects in the fan-out the handler loaded.                  *)
THEOREM RoutingConsistent == ShardSpec => []RoutingIsConsistent
<1>1. IInv => ShardTypes
  BY DEF IInv, LayoutTypes, Contiguous, LayoutsAreAdmitted, OfNodes, ShardTypes
<1>2. IInv => RoutingIsConsistent
  BY <1>1, RoutedOnce DEF IInv, RoutingIsConsistent
<1> QED BY <1>2, InvariantHolds, PTL

(* WritesToAdmittedReplicas: a row only reaches a node that a discovery    *)
(* saw as a replica of that shard and a member of the write set            *)
(* (BuildSnapshot, buildShard).                                            *)
THEOREM WritesAdmitted == ShardSpec => []WritesToAdmittedReplicas
<1>1. IInv => WritesToAdmittedReplicas
  BY DEF IInv, WritesAreRows, WritesToAdmittedReplicas
<1> QED BY <1>1, InvariantHolds, PTL

(* LayoutOnlyGrows: no step takes services from a shard or moves it, and   *)
(* the number of shards of the snapshot never goes down (applyRefresh      *)
(* holds a decrease, onGrow appends).                                      *)
THEOREM LayoutGrows == ShardSpec => LayoutOnlyGrows
<1> DEFINE Grows == /\ DOMAIN services \subseteq DOMAIN services'
                    /\ \A s \in DOMAIN services : services'[s] = services[s]
                    /\ ShardCount(snap') >= ShardCount(snap)
<1>1. IInv /\ [ShardNext]_shardVars => [Grows]_shardVars
  <2> SUFFICES ASSUME IInv, ShardNext PROVE Grows
    OBVIOUS
  <2>1. ASSUME UNCHANGED <<services, snap>> PROVE Grows
    BY <2>1 DEF IInv, LayoutTypes, Contiguous
  <2>2. CASE Boot
    <3>1. DOMAIN services = {} /\ ShardCount(snap) = 0
      BY <2>2, FS_EmptySet DEF Boot, IInv, NothingBeforeBoot, ShardCount
    <3>2. ShardCount(snap') \in Nat
      BY <2>2, BootIInv DEF IInv, LayoutTypes, Contiguous, ShardCount
    <3> QED BY <3>1, <3>2
  <2>3. CASE ApplySameCount
    BY <2>3 DEF ApplySameCount, DecreaseHeld, IInv, LayoutTypes, Contiguous
  <2>4. CASE StoreSnapshot
    BY <2>4 DEF StoreSnapshot, IInv, GrownFirst, LayoutTypes, Contiguous
  <2>5. CASE OnGrow
    <3>1. snap' = snap
      BY <2>5 DEF OnGrow
    <3> QED BY <2>5, <3>1, OnGrowFacts DEF IInv, LayoutTypes, Contiguous
  <2>6. CASE ~(Boot \/ ApplySameCount \/ StoreSnapshot \/ OnGrow)
    <3>1. UNCHANGED <<services, snap>>
      BY <2>6 DEF ShardNext, Refresh, Reconfigure, BootRefused, Resolve, Discover,
             DiscoverFailed, HoldDecrease, StopTopology, LoopDone, RouteBySharding,
             PushShardedTimeSeries, PushShardedSamples, loopVars
    <3> QED BY <2>1, <3>1
  <2> QED BY <2>2, <2>3, <2>4, <2>5, <2>6
<1> QED BY <1>1, InvariantHolds, PTL DEF ShardSpec, LayoutOnlyGrows
=============================================================================
