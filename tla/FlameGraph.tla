----------------------------- MODULE FlameGraph -----------------------------
(***************************************************************************)
(* The trees the reader draws: how the summed nodes of the stored trees    *)
(* become a flame graph, a graph of the heaviest nodes, and the difference *)
(* of two flame graphs.                                                    *)
(*                                                                         *)
(* A node is a record of its path, self and total; the root is the empty   *)
(* path.  nodes maps a parent to the sequence of its children.             *)
(***************************************************************************)
EXTENDS ProfileStore

CONSTANTS MaxNodes,   \* nodes of a tree, 2000000 in the code
          FnHash(_)   \* the order of the ids of siblings, by their functions

Root == <<>>
Parent(node) == Front(node.path)
Children(nodes, path) == IF path \in DOMAIN nodes THEN nodes[path] ELSE <<>>

(* MergeTrie: the rows come by parent, and the last ones may be cut off.   *)
FindNode(children, path) == {i \in DOMAIN children : children[i].path = path}
AddNode(nodes, row) ==
  LET children == Children(nodes, Parent(row))
      found == FindNode(children, row.path)
      plus(n) == [n EXCEPT !.self = @ + row.self, !.total = @ + row.total]
      new == IF found = {} THEN Append(children, row)
             ELSE [i \in DOMAIN children |-> IF i \in found THEN plus(children[i]) ELSE children[i]]
  IN  [p \in DOMAIN nodes \cup {Parent(row)} |-> IF p = Parent(row) THEN new ELSE nodes[p]]
NodesNum(nodes) == SumOf(DOMAIN nodes, LAMBDA p : Len(nodes[p]))
MergeTrie(rows) ==
  FoldLeft(LAMBDA nodes, row : IF NodesNum(nodes) >= MaxNodes /\ FindNode(Children(nodes, Parent(row)), row.path) = {}
                               THEN nodes ELSE AddNode(nodes, row), <<>>, rows)

TotalOf(children) == SumOf(DOMAIN children, LAMBDA i : children[i].total)
Total(nodes) == TotalOf(Children(nodes, Root))
AllNodes(nodes) == UNION {ToSet(nodes[p]) : p \in DOMAIN nodes}

(****************************** Flame graph ********************************)
(* A level is a row of bars; a bar starts skip after the bar before it.    *)
(* prepend is the gap in front of the next bar, at the gap before a node.  *)
Bar(skip, n) == [skip |-> skip, path |-> n.path, self |-> n.self, total |-> n.total]
RootBar(nodes) == [path |-> Root, self |-> 0, total |-> Total(nodes)]

(* Mutant: the parent's own value leaves no gap.                           *)
GapAfterNothing(children, start, parent) == IF children = <<>> THEN start ELSE 0

(* What is left of a parent's bar once its children are drawn.             *)
GapAfter(children, start, parent) == (IF children = <<>> THEN start ELSE 0) + parent.self

LevelStep(nodes, acc, parent) ==
  LET start == acc.prepend + acc.at[parent.path]
      children == Children(nodes, parent.path)
      skip(i) == IF i = 1 THEN start ELSE 0
  IN  IF parent.path \notin DOMAIN nodes
      THEN [acc EXCEPT !.prepend = start + parent.total]
      ELSE [acc EXCEPT !.prepend = GapAfter(children, start, parent),
                       !.bars = @ \o [i \in DOMAIN children |-> Bar(skip(i), children[i])],
                       !.at = [p \in DOMAIN @ \cup {c.path : c \in ToSet(children)} |->
                                 IF p \in DOMAIN @ THEN @[p]
                                 ELSE skip(CHOOSE i \in DOMAIN children : children[i].path = p)]]

RECURSIVE Levels(_, _, _)
Levels(nodes, current, at) ==
  IF current = <<>> THEN <<>>
  ELSE LET done == FoldLeft(LAMBDA acc, n : LevelStep(nodes, acc, n), [prepend |-> 0, bars |-> <<>>, at |-> at], current)
       IN  <<done.bars>> \o Levels(nodes, done.bars, done.at)
BFS(nodes) == <<<<Bar(0, RootBar(nodes))>>>> \o Levels(nodes, <<RootBar(nodes)>>, [p \in {Root} |-> 0])

(*************************** The heaviest nodes ****************************)
DotThreshold(nodes, maxNodes) ==
  LET all == AllNodes(nodes)
      heavier(t) == Cardinality({n \in all : n.total > t})
      upTo(t) == Cardinality({n \in all : n.total >= t})
  IN  IF maxNodes > 0 /\ Cardinality(all) > maxNodes
      THEN CHOOSE t \in {n.total : n \in all} : heavier(t) < maxNodes /\ maxNodes <= upTo(t) ELSE 0

RECURSIVE DotFrom(_, _, _)
DotFrom(nodes, threshold, path) ==
  UNION {{c} \cup DotFrom(nodes, threshold, c.path) :
           c \in {n \in ToSet(Children(nodes, path)) : threshold = 0 \/ n.total >= threshold}}
ToDot(nodes, maxNodes) == DotFrom(nodes, DotThreshold(nodes, maxNodes), Root)

(****************************** Difference *********************************)
AssertPositive(nodes) == \A n \in AllNodes(nodes) : n.self >= 0

(* Both sides get the children of either, in the order of their ids, those *)
(* of the other side with nothing.                                         *)
MergeChildren(mine, others) ==
  LET paths(s) == {s[i].path : i \in DOMAIN s}
      empty(n) == [n EXCEPT !.self = 0, !.total = 0]
      all == ToSet(mine) \cup {empty(n) : n \in {x \in ToSet(others) : x.path \notin paths(mine)}}
  IN  SetToSortSeq(all, LAMBDA a, b : FnHash(Last(a.path)) < FnHash(Last(b.path)))

MergeNodes(mine, others) ==
  [p \in DOMAIN mine \cup DOMAIN others |-> MergeChildren(Children(mine, p), Children(others, p))]

(* A pair of nodes at its place on both sides, then its children from the  *)
(* last to the first, each side after the child before.                    *)
Pair(l, r, level, xl, xr) == [l |-> l, r |-> r, level |-> level, xl |-> xl, xr |-> xr]
ChildPairs(t1, t2, pair) ==
  LET left == Children(t1, pair.l.path)
      right == Children(t2, pair.r.path)
      n == Len(left)
      none(i) == [path |-> left[i].path, self |-> 0, total |-> 0]
      other(i) == IF i <= Len(right) THEN right[i] ELSE none(i)
      before(k, Of(_)) == SumOf((n - k + 2) .. n, LAMBDA i : Of(i).total)
  IN  [k \in 1 .. n |-> Pair(left[n - k + 1], other(n - k + 1), pair.level + 1,
                             pair.xl + before(k, LAMBDA i : left[i]), pair.xr + before(k, other))]
RECURSIVE DiffPairs(_, _, _)
DiffPairs(t1, t2, queue) ==
  IF queue = <<>> THEN <<>>
  ELSE <<Head(queue)>> \o DiffPairs(t1, t2, Tail(queue) \o ChildPairs(t1, t2, Head(queue)))

(* Every bar of a level is then placed relative to the end of the last.    *)
DeltaStep(acc, p) ==
  [bars |-> Append(acc.bars, [path |-> p.l.path, skipL |-> p.xl - acc.endL, skipR |-> p.xr - acc.endR,
                              left |-> p.l, right |-> p.r]),
   endL |-> p.xl + p.l.total, endR |-> p.xr + p.r.total]
ComputeFlameGraphDiff(t1, t2) ==
  LET pairs == DiffPairs(t1, t2, <<Pair(RootBar(t1), RootBar(t2), 0, 0, 0)>>)
      depth == Max({pairs[i].level : i \in DOMAIN pairs})
      at(k) == SelectSeq(pairs, LAMBDA p : p.level = k)
  IN  [ticksL |-> Total(t1), ticksR |-> Total(t2),
       levels |-> [k \in 1 .. depth + 1 |-> FoldLeft(DeltaStep, [bars |-> <<>>, endL |-> 0, endR |-> 0], at(k - 1)).bars]]

=============================================================================
