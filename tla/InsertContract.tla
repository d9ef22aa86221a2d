--------------------------- MODULE InsertContract ---------------------------
(***************************************************************************)
(* What an insert service promises to the code that calls                  *)
(* IInsertServiceV2.Request (writer/service/generic_insert.go): every call *)
(* returns a promise; a promise fulfilled without an error stands for rows *)
(* that ClickHouse has acknowledged, a promise fulfilled with an error     *)
(* promises nothing (some, all or none of the rows may be in the table),   *)
(* and a promise never changes once it is settled.                         *)
(***************************************************************************)
CONSTANTS Calls,      \* the invocations of Request
          EmptyCalls  \* those whose request carries no row

VARIABLES promise,    \* [Calls -> Outcomes]
          stored      \* the calls whose rows are in the ClickHouse table

contractVars == <<promise, stored>>

Outcomes == {"none", "pending", "ok", "err"}

ContractInit ==
  /\ promise = [c \in Calls |-> "none"]
  /\ stored = {}

Settle(S, outcome) ==
  promise' = [c \in Calls |-> IF c \in S THEN outcome ELSE promise[c]]

(* A call is accepted and its caller starts to wait. *)
Accept(c) ==
  /\ promise[c] = "none"
  /\ Settle({c}, "pending")
  /\ UNCHANGED stored

(* A call is answered at once: refused, or it has nothing to insert. *)
Answer(c) ==
  /\ promise[c] = "none"
  /\ \/ Settle({c}, "err")
     \/ c \in EmptyCalls /\ Settle({c}, "ok")
  /\ UNCHANGED stored

(* Waiting calls are acknowledged; their rows are in the table. *)
Acknowledge(S) ==
  /\ \A c \in S : promise[c] = "pending"
  /\ Settle(S, "ok")
  /\ stored' = stored \cup S

(* Waiting calls fail; the rows of some of them may be in the table. *)
Fail(S, T) ==
  /\ \A c \in S : promise[c] = "pending"
  /\ T \subseteq S
  /\ Settle(S, "err")
  /\ stored' = stored \cup T

ContractNext ==
  \/ \E c \in Calls : Accept(c) \/ Answer(c)
  \/ \E S \in SUBSET Calls : Acknowledge(S) \/ \E T \in SUBSET S : Fail(S, T)

ContractSpec == ContractInit /\ [][ContractNext]_contractVars
=============================================================================
