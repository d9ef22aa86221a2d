--------------------------- MODULE MCRulerManager ---------------------------
(***************************************************************************)
(* Two groups of one namespace, two intervals: the table starts with one   *)
(* group and is edited twice (an interval goes away and comes back, a rule *)
(* is renamed, moved, deleted), and three goroutines may exist at a time.  *)
(***************************************************************************)
EXTENDS RulerManager

def(i, rec) == [interval |-> i, record |-> rec]
MCNamespaceOf == [g \in Groups |-> "ns"]
MCInitialRules == {[g \in Groups |-> IF g = "g1" THEN def("10s", "a") ELSE None]}
MCDefinitions ==
  [g \in Groups |->
     IF g = "g1" THEN {def("10s", "a"), def("10s", "b"), def("30s", "a")}
     ELSE {def("30s", "a"), def("30s", NoRecord), def("0s", "a"), def("bad", "a")}]
=============================================================================
