--------------------------- MODULE MCPushPipeline ---------------------------
(* Two push requests of two tenants, each push with two attempts: one      *)
(* request has two chunks and a body that may stop decoding anywhere, the  *)
(* other carries a series of its second chunk.  On a node of a cluster     *)
(* MaxFaults attempts fail or are lost (enough for one push to fail every  *)
(* time); on a single node, where the fingerprint cache is on, forgets and *)
(* is reset, one does.                                                     *)
EXTENDS PushPipeline, TLC

CONSTANTS r1, r2, f1, f2, t1, t2, MaxFaults

MCTenants == {t1, t2}
MCFP == {f1, f2}
MCRequests == {r1, r2}
MCBody == (r1 :> <<{f1}>>) @@ (r2 :> <<{f2}, {f1}>>)
MCTenant == (r1 :> t1) @@ (r2 :> t2)

Faults == {c \in Calls : promise[c] = "err"} \cup lost

MCNext == Next /\ Cardinality(Faults') <= IF isDistributed THEN MaxFaults ELSE 1
MCSpec == Init /\ [][MCNext]_vars /\ Fairness
=============================================================================
